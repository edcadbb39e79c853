--------------------------- MODULE CandidatesProofs ---------------------------
(***************************************************************************)
(* The node a rotation tries, and the nodes the first probing pass takes,  *)
(* are beaten throughout by none that was left aside: for every finite set *)
(* of nodes with any figures, in every mode.  A node that dominates another*)
(* has the earlier key; keys are ordered transitively, so that fewer nodes *)
(* come before it.  At the end, the types of the five models that MCAccess *)
(* runs side by side.                                                      *)
(***************************************************************************)
EXTENDS MCAccess, LoginProofs, ProxyProofs,
        FiniteSetTheorems, WellFoundedInduction, SequenceTheorems, TLAPS

\* An entry of a list, and a list.
Candidate == [id : Nodes, of : NodeFields]
Lists == {l \in SUBSET Candidate : IsFiniteSet(l)}

-----------------------------------------------------------------------------
(* Finite sets of integers, of which Min and Max are.                      *)

\* A set without a least element has a smaller one without.
LEMMA Extremes ==
    ASSUME NEW S \in SUBSET Int, IsFiniteSet(S), S # {}
    PROVE  /\ Max(S) \in S /\ \A y \in S : Max(S) >= y
           /\ Min(S) \in S /\ \A y \in S : Min(S) <= y
<1> DEFINE Bounded(T) == (\E x \in T : \A y \in T : x >= y) /\ (\E x \in T : \A y \in T : x <= y)
           Bad == {T \in FiniteSubsetsOf(S) : T # {} /\ ~Bounded(T)}
<1>1. Bad = {}
  <2> SUFFICES ASSUME Bad # {} PROVE FALSE
    OBVIOUS
  <2>1. IsWellFoundedOn(StrictSubsetOrdering(S), FiniteSubsetsOf(S))
    BY FS_StrictSubsetOrderingWellFounded
  <2>2. PICK T \in Bad : \A U \in Bad : ~(<<U, T>> \in StrictSubsetOrdering(S))
    <3> HIDE DEF Bounded
    <3> QED
      BY <2>1, WFMin
  <2>3. PICK t : t \in T
    OBVIOUS
  <2> DEFINE U == T \ {t}
  <2>4. U \in FiniteSubsetsOf(S) /\ U # T /\ U \subseteq T /\ T \subseteq S
    BY <2>3, FS_Subset DEF FiniteSubsetsOf
  <2>5. U = {} \/ Bounded(U)
    BY <2>2, <2>4 DEF StrictSubsetOrdering
  <2>6. Bounded(T)
    <3>1. \A y \in T : y \in Int
      BY <2>4
    <3>2. CASE U = {}
      <4>1. \A y \in T : y = t
        BY <3>2
      <4> QED
        BY <2>3, <3>1, <4>1
    <3>3. CASE Bounded(U)
      <4>1. PICK a \in U, b \in U : \A y \in U : a >= y /\ b <= y
        BY <3>3
      <4>2. \A y \in T : y = t \/ y \in U
        OBVIOUS
      <4>3. a \in T /\ b \in T /\ t \in T
        BY <2>3
      <4>4. \E x \in T : \A y \in T : x >= y
        <5>1. CASE a >= t
          BY <3>1, <4>1, <4>2, <4>3, <5>1
        <5>2. CASE ~(a >= t)
          <6>1. \A y \in T : t >= y
            BY <3>1, <4>1, <4>2, <4>3, <5>2
          <6> QED
            BY <4>3, <6>1
        <5> QED
          BY <5>1, <5>2
      <4>5. \E x \in T : \A y \in T : x <= y
        <5>1. CASE b <= t
          BY <3>1, <4>1, <4>2, <4>3, <5>1
        <5>2. CASE ~(b <= t)
          <6>1. \A y \in T : t <= y
            BY <3>1, <4>1, <4>2, <4>3, <5>2
          <6> QED
            BY <4>3, <6>1
        <5> QED
          BY <5>1, <5>2
      <4> QED
        BY <4>4, <4>5
    <3> QED
      BY <2>5, <3>2, <3>3
  <2> QED
    BY <2>6
<1>2. Bounded(S)
  BY <1>1 DEF FiniteSubsetsOf
<1> QED
  BY <1>2 DEF Max, Min

-----------------------------------------------------------------------------
(* Keys.                                                                   *)

IntTuples(n) == [1..n -> Int]

\* Keys of one length are ordered transitively.
LEMMA EarlierTransitive ==
    ASSUME NEW n \in Nat, NEW a \in IntTuples(n), NEW b \in IntTuples(n), NEW c \in IntTuples(n),
           Earlier(a, b), Earlier(b, c)
    PROVE  Earlier(a, c)
<1>1. PICK i \in 1..n : a[i] < b[i] /\ \A j \in 1..i - 1 : a[j] = b[j]
  BY DEF Earlier, IntTuples
<1>2. PICK k \in 1..n : b[k] < c[k] /\ \A j \in 1..k - 1 : b[j] = c[j]
  BY DEF Earlier, IntTuples
<1>3. \A j \in 1..n : a[j] \in Int /\ b[j] \in Int /\ c[j] \in Int
  BY DEF IntTuples
<1>4. \E m \in 1..n : a[m] < c[m] /\ \A j \in 1..m - 1 : a[j] = c[j]
  <2>1. CASE i <= k
    <3>1. a[i] < c[i]
      BY <1>1, <1>2, <1>3, <2>1
    <3>2. \A j \in 1..i - 1 : a[j] = c[j]
      BY <1>1, <1>2, <2>1
    <3> QED
      BY <3>1, <3>2
  <2>2. CASE k < i
    <3>1. a[k] < c[k]
      BY <1>1, <1>2, <1>3, <2>2
    <3>2. \A j \in 1..k - 1 : a[j] = c[j]
      BY <1>1, <1>2, <2>2
    <3> QED
      BY <3>1, <3>2
  <2> QED
    BY <2>1, <2>2
<1> QED
  BY <1>4 DEF Earlier, IntTuples

\* If x is among the first and y has the earlier key, so is y.
LEMMA FirstIsClosed ==
    ASSUME NEW list, IsFiniteSet(list), NEW n \in Nat, NEW m \in Nat, NEW key \in [list -> IntTuples(n)],
           NEW x \in First(m, list, key), NEW y \in list, Earlier(key[y], key[x])
    PROVE  y \in First(m, list, key)
<1> DEFINE Before(z) == {w \in list : Earlier(key[w], key[z])}
<1>1. x \in list /\ Cardinality(Before(x)) < m
  BY DEF First
<1>2. Before(y) \subseteq Before(x)
  BY <1>1, EarlierTransitive
<1>3. IsFiniteSet(Before(x)) /\ IsFiniteSet(Before(y))
  BY FS_Subset
<1>4. Cardinality(Before(y)) <= Cardinality(Before(x))
  BY <1>2, <1>3, FS_Subset
<1>5. Cardinality(Before(y)) < m
  BY <1>1, <1>3, <1>4, FS_CardinalityType
<1> QED
  BY <1>5 DEF First

\* What the orders weigh.
LEMMA Figures ==
    ASSUME NEW x \in Candidate
    PROVE  /\ EffLatency(x) \in Nat /\ EffPing(x) \in Nat /\ EffSpeed(x) \in Int
           /\ ResidentialRank(x) \in {0, 1}
           /\ \A source \in BOOLEAN : SmartLatency(x, source) \in Nat
           /\ x.of.score \in Nat /\ x.of.speed \in Nat /\ x.of.sessions \in Nat
           /\ x.id \in Nat
           /\ EffLatency(x) = (IF x.of.latency = 0 THEN Unknown ELSE x.of.latency)
           /\ SmartLatency(x, FALSE) = EffLatency(x)
<1>1. Unknown \in Nat
  BY SMT DEF Unknown
<1>2. /\ x.of.latency \in Nat /\ x.of.ping \in Nat /\ x.of.speed \in Nat
      /\ x.of.score \in Nat /\ x.of.sessions \in Nat /\ x.id \in Nat
  BY CandidatesAssumption DEF Candidate, NodeFields
<1>3. /\ EffLatency(x) \in Nat /\ EffPing(x) \in Nat /\ EffSpeed(x) \in Int
      /\ EffLatency(x) = (IF x.of.latency = 0 THEN Unknown ELSE x.of.latency)
  BY <1>1, <1>2 DEF EffLatency, EffPing, EffSpeed, OrUnknown
<1>4. ResidentialRank(x) \in {0, 1}
  BY DEF ResidentialRank
<1>5. /\ \A source \in BOOLEAN : SmartLatency(x, source) \in Nat
      /\ SmartLatency(x, FALSE) = EffLatency(x)
  BY <1>3 DEF SmartLatency
<1> QED
  BY <1>2, <1>3, <1>4, <1>5

\* The speed assumed of a node is ordered as the speed advertised.
LEMMA Speeds ==
    ASSUME NEW x \in Candidate, NEW y \in Candidate
    PROVE  /\ EffSpeed(y) >= EffSpeed(x) <=> y.of.speed >= x.of.speed
           /\ EffSpeed(y) > EffSpeed(x) <=> y.of.speed > x.of.speed
  BY DEF Candidate, NodeFields, EffSpeed

\* A key of four figures, and of the row's place among equals.
Leads(key, a, b, c, d) ==
    key \in IntTuples(7) /\ key[1] = a /\ key[2] = b /\ key[3] = c /\ key[4] = d

LEMMA Ranked ==
    ASSUME NEW a \in Int, NEW b \in Int, NEW c \in Int, NEW d \in Int, NEW x \in Candidate
    PROVE  Leads(<<a, b, c, d>> \o Listed(x), a, b, c, d)
<1> DEFINE s == <<a, b, c, d>>
           t == Listed(x)
<1>1. s \in Seq(Int) /\ Len(s) = 4 /\ s[1] = a /\ s[2] = b /\ s[3] = c /\ s[4] = d
  OBVIOUS
<1>2. EffLatency(x) \in Nat /\ x.of.score \in Nat /\ x.id \in Nat
  BY Figures
<1>3. t \in Seq(Int) /\ Len(t) = 3
  BY <1>2 DEF Listed
<1> HIDE DEF s, t
<1>4. PICK u : /\ u = s \o t /\ u \in Seq(Int) /\ Len(u) = Len(s) + Len(t)
               /\ \A i \in 1..Len(s) + Len(t) :
                     u[i] = IF i <= Len(s) THEN s[i] ELSE t[i - Len(s)]
  <2>1. /\ s \o t \in Seq(Int) /\ Len(s \o t) = Len(s) + Len(t)
        /\ \A i \in 1..Len(s) + Len(t) :
              (s \o t)[i] = IF i <= Len(s) THEN s[i] ELSE t[i - Len(s)]
    BY <1>1, <1>3, ConcatProperties, Zenon
  <2> DEFINE st == s \o t
  <2>2. /\ st = s \o t /\ st \in Seq(Int) /\ Len(st) = Len(s) + Len(t)
        /\ \A i \in 1..Len(s) + Len(t) :
              st[i] = IF i <= Len(s) THEN s[i] ELSE t[i - Len(s)]
    BY <2>1, Zenon
  <2> HIDE DEF st
  <2> QED
    BY <2>2, Zenon
<1>5. Len(s) + Len(t) = 7 /\ Len(s) = 4
  BY <1>1, <1>3
<1>6. /\ Len(u) = 7 /\ u \in Seq(Int)
      /\ \A i \in 1..7 : u[i] = IF i <= 4 THEN s[i] ELSE t[i - 4]
  <2>1. Len(u) = Len(s) + Len(t) /\ u \in Seq(Int)
    BY <1>4
  <2>2. \A i \in 1..Len(s) + Len(t) : u[i] = IF i <= Len(s) THEN s[i] ELSE t[i - Len(s)]
    BY <1>4, Zenon
  <2> QED
    BY <1>5, <2>1, <2>2, Zenon
<1>7. u \in IntTuples(7)
  BY <1>6, LenProperties DEF IntTuples
<1>8. u[1] = s[1] /\ u[2] = s[2] /\ u[3] = s[3] /\ u[4] = s[4]
  <2>1. \A i \in 1..7 : u[i] = IF i <= 4 THEN s[i] ELSE t[i - 4]
    BY <1>6, Zenon
  <2> QED
    BY <2>1
<1>9. s \o t = u
  BY <1>4, Zenon
<1>10. Leads(u, a, b, c, d)
  BY <1>1, <1>7, <1>8 DEF Leads
<1> QED
  BY <1>9, <1>10, Zenon DEF s, t

\* The first figure that differs decides.
LEMMA Decides ==
    ASSUME NEW n \in Nat, NEW a \in IntTuples(n), NEW b \in IntTuples(n), n >= 4,
           \/ a[1] < b[1]
           \/ a[1] = b[1] /\ a[2] < b[2]
           \/ a[1] = b[1] /\ a[2] = b[2] /\ a[3] < b[3]
           \/ a[1] = b[1] /\ a[2] = b[2] /\ a[3] = b[3] /\ a[4] < b[4]
    PROVE  Earlier(a, b)
<1>1. PICK i \in 1..4 : a[i] < b[i] /\ \A j \in 1..i - 1 : a[j] = b[j]
  <2>1. 1 \in 1..4 /\ 2 \in 1..4 /\ 3 \in 1..4 /\ 4 \in 1..4
    OBVIOUS
  <2>2. 1..0 = {} /\ 1..1 = {1} /\ 1..2 = {1, 2} /\ 1..3 = {1, 2, 3}
    OBVIOUS
  <2>3. CASE a[1] < b[1]
    BY <2>1, <2>2, <2>3
  <2>4. CASE a[1] = b[1] /\ a[2] < b[2]
    BY <2>1, <2>2, <2>4
  <2>5. CASE a[1] = b[1] /\ a[2] = b[2] /\ a[3] < b[3]
    BY <2>1, <2>2, <2>5
  <2>6. CASE a[1] = b[1] /\ a[2] = b[2] /\ a[3] = b[3] /\ a[4] < b[4]
    BY <2>1, <2>2, <2>6
  <2> QED
    BY <2>3, <2>4, <2>5, <2>6
<1>2. i \in DOMAIN a
  BY DEF IntTuples
<1> QED
  BY <1>1, <1>2 DEF Earlier

-----------------------------------------------------------------------------
(* The smart order.                                                        *)

\* The values a list has of a figure are a finite set.
LEMMA Values ==
    ASSUME NEW list, IsFiniteSet(list), list # {}, NEW f \in [list -> Int]
    PROVE  LET values == {f[y] : y \in list} IN
           values \in SUBSET Int /\ IsFiniteSet(values) /\ values # {}
<1> DEFINE values == {f[y] : y \in list}
<1>1. f \in Surjection(list, values)
  BY DEF Surjection
<1> HIDE DEF values
<1>2. IsFiniteSet(values)
  BY <1>1, FS_Surjection
<1> QED
  BY <1>2 DEF values

\* Normalize: positive denominators, the same for a list; a higher value has
\* the higher fraction.
LEMMA Normalized ==
    ASSUME NEW values \in SUBSET Int, IsFiniteSet(values),
           NEW v \in values, NEW w \in values
    PROVE  /\ Normalize(v, values) \in [num : Nat, den : Nat \ {0}]
           /\ Normalize(v, values).num <= Normalize(v, values).den
           /\ Normalize(v, values).den = Normalize(w, values).den
           /\ v <= w => Normalize(v, values).num <= Normalize(w, values).num
           /\ v < w => Normalize(v, values).num < Normalize(w, values).num
<1>1. CASE Cardinality(values) = 1
  <2>1. v = w
    BY <1>1, FS_Singleton
  <2> QED
    BY <1>1, <2>1 DEF Normalize
<1>2. CASE Cardinality(values) # 1
  <2> DEFINE lo == Min(values)
             hi == Max(values)
  <2>1. /\ lo \in Int /\ hi \in Int /\ v \in Int /\ w \in Int
        /\ lo <= v /\ v <= hi /\ lo <= w /\ w <= hi
    BY Extremes
  <2>2. lo # hi
    <3> SUFFICES ASSUME lo = hi PROVE FALSE
      OBVIOUS
    <3>1. \A y \in values : y \in Int /\ lo <= y /\ y <= lo
      BY Extremes
    <3>2. \A y \in values : y = v
      BY <2>1, <3>1
    <3>3. values = {v}
      BY <3>2
    <3> QED
      BY <1>2, <3>3, FS_Singleton
  <2>3. \A u \in values : Normalize(u, values) = [num |-> u - lo, den |-> hi - lo]
    BY <1>2 DEF Normalize
  <2> HIDE DEF lo, hi
  <2> QED
    BY <2>1, <2>2, <2>3
<1> QED
  BY <1>1, <1>2

\* Products of two non-negative factors and what is smaller.
LEMMA Grows ==
    ASSUME NEW p \in Nat, NEW q \in Nat, NEW c \in Nat \ {0}, NEW d \in Nat \ {0}, p <= q
    PROVE  /\ p * c * d \in Nat /\ q * c * d \in Nat
           /\ p * c * d <= q * c * d
           /\ p < q => p * c * d < q * c * d
<1>1. \A m \in Nat \ {0}, a, b \in Nat :
        a * m \in Nat /\ (a <= b => a * m <= b * m) /\ (a < b => a * m < b * m)
  OBVIOUS
<1>2. p * c \in Nat /\ q * c \in Nat /\ p * c <= q * c /\ (p < q => p * c < q * c)
  BY <1>1
<1> DEFINE pc == p * c
           qc == q * c
<1> HIDE DEF pc, qc
<1>3. pc \in Nat /\ qc \in Nat /\ pc <= qc /\ (p < q => pc < qc)
  BY <1>2 DEF pc, qc
<1>4. pc * d \in Nat /\ qc * d \in Nat /\ pc * d <= qc * d /\ (p < q => pc * d < qc * d)
  BY <1>1, <1>3
<1> QED
  BY <1>4 DEF pc, qc

\* y is at least as good as x, and nearer or faster, their distances being
\* near and far.
Beats(y, x, near, far) ==
    /\ near <= far /\ EffSpeed(y) >= EffSpeed(x)
    /\ y.of.score >= x.of.score /\ y.of.sessions <= x.of.sessions
    /\ ResidentialRank(y) <= ResidentialRank(x)
    /\ near < far \/ EffSpeed(y) > EffSpeed(x)

\* The fraction of what is better when low.
LEMMA Rested ==
    ASSUME NEW values \in SUBSET Int, IsFiniteSet(values),
           NEW v \in values, NEW w \in values
    PROVE  /\ Rest(Normalize(v, values)) \in [num : Nat, den : Nat \ {0}]
           /\ Rest(Normalize(v, values)).den = Rest(Normalize(w, values)).den
           /\ v <= w => Rest(Normalize(w, values)).num <= Rest(Normalize(v, values)).num
           /\ v < w => Rest(Normalize(w, values)).num < Rest(Normalize(v, values)).num
<1> DEFINE f == Normalize(v, values)
           g == Normalize(w, values)
<1>1. /\ f \in [num : Nat, den : Nat \ {0}] /\ g \in [num : Nat, den : Nat \ {0}]
      /\ f.num <= f.den /\ g.num <= g.den /\ f.den = g.den
      /\ v <= w => f.num <= g.num
      /\ v < w => f.num < g.num
  BY Normalized
<1> HIDE DEF f, g
<1>2. /\ Rest(f) = [num |-> f.den - f.num, den |-> f.den]
      /\ Rest(g) = [num |-> g.den - g.num, den |-> g.den]
  BY <1>1 DEF Rest
<1>3. /\ Rest(f) \in [num : Nat, den : Nat \ {0}]
      /\ Rest(f).den = Rest(g).den
      /\ v <= w => Rest(g).num <= Rest(f).num
      /\ v < w => Rest(g).num < Rest(f).num
  BY <1>1, <1>2
<1> QED
  BY <1>3 DEF f, g

\* The figures of a list that the smart order weighs.
LEMMA ListValues ==
    ASSUME NEW list \in Lists, NEW source \in BOOLEAN, list # {}
    PROVE  LET latencies == {SmartLatency(z, source) : z \in list}
               speeds == {EffSpeed(z) : z \in list}
               loads == {z.of.sessions : z \in list}
           IN /\ latencies \in SUBSET Int /\ IsFiniteSet(latencies)
              /\ speeds \in SUBSET Int /\ IsFiniteSet(speeds)
              /\ loads \in SUBSET Int /\ IsFiniteSet(loads)
<1> DEFINE latencies == {SmartLatency(z, source) : z \in list}
           speeds == {EffSpeed(z) : z \in list}
           loads == {z.of.sessions : z \in list}
<1>0. IsFiniteSet(list) /\ list # {} /\ \A z \in list : z \in Candidate
  BY DEF Lists
<1>1. latencies \in SUBSET Int /\ IsFiniteSet(latencies)
  <2> DEFINE f == [z \in list |-> SmartLatency(z, source)]
  <2>0. ASSUME NEW z \in list PROVE SmartLatency(z, source) \in Int
    <3>1. SmartLatency(z, source) \in Nat
      BY <1>0, Figures
    <3> QED
      BY <3>1
  <2>1. f \in [list -> Int]
    BY <2>0
  <2>2. latencies = {f[z] : z \in list}
    OBVIOUS
  <2> HIDE DEF f, latencies
  <2> QED
    BY <1>0, <2>1, <2>2, Values
<1>2. speeds \in SUBSET Int /\ IsFiniteSet(speeds)
  <2> DEFINE f == [z \in list |-> EffSpeed(z)]
  <2>1. f \in [list -> Int]
    BY <1>0, Figures
  <2>2. speeds = {f[z] : z \in list}
    OBVIOUS
  <2> HIDE DEF f, speeds
  <2> QED
    BY <1>0, <2>1, <2>2, Values
<1>3. loads \in SUBSET Int /\ IsFiniteSet(loads)
  <2> DEFINE f == [z \in list |-> z.of.sessions]
  <2>0. ASSUME NEW z \in list PROVE z.of.sessions \in Int
    <3>1. z.of.sessions \in Nat
      BY <1>0, Figures
    <3> QED
      BY <3>1
  <2>1. f \in [list -> Int]
    BY <2>0
  <2>2. loads = {f[z] : z \in list}
    OBVIOUS
  <2> HIDE DEF f, loads
  <2> QED
    BY <1>0, <2>1, <2>2, Values
<1> QED
  BY <1>1, <1>2, <1>3

\* A score is an integer.
LEMMA ScoreType ==
    ASSUME NEW list \in Lists, NEW source \in BOOLEAN, NEW x \in list
    PROVE  SmartScore(x, list, source) \in Int
<1> DEFINE latencies == {SmartLatency(z, source) : z \in list}
           speeds == {EffSpeed(z) : z \in list}
           loads == {z.of.sessions : z \in list}
           l == Rest(Normalize(SmartLatency(x, source), latencies))
           s == Normalize(EffSpeed(x), speeds)
           n == Rest(Normalize(x.of.sessions, loads))
<1>1. /\ latencies \in SUBSET Int /\ IsFiniteSet(latencies)
      /\ speeds \in SUBSET Int /\ IsFiniteSet(speeds)
      /\ loads \in SUBSET Int /\ IsFiniteSet(loads)
  BY ListValues
<1>2. /\ SmartLatency(x, source) \in latencies
      /\ EffSpeed(x) \in speeds /\ x.of.sessions \in loads
  OBVIOUS
<1>3. SmartScore(x, list, source) =
          4 * l.num * s.den * n.den + 4 * s.num * l.den * n.den + 2 * n.num * l.den * s.den
  BY DEF SmartScore
<1> HIDE DEF latencies, speeds, loads
<1>4. /\ l \in [num : Nat, den : Nat \ {0}] /\ s \in [num : Nat, den : Nat \ {0}]
      /\ n \in [num : Nat, den : Nat \ {0}]
  BY <1>1, <1>2, Normalized, Rested
<1> HIDE DEF l, s, n
<1>5. /\ 4 * l.num \in Nat /\ 4 * s.num \in Nat /\ 2 * n.num \in Nat
      /\ l.den \in Nat \ {0} /\ s.den \in Nat \ {0} /\ n.den \in Nat \ {0}
  BY <1>4
<1>6. /\ 4 * l.num * s.den * n.den \in Nat
      /\ 4 * s.num * l.den * n.den \in Nat
      /\ 2 * n.num * l.den * s.den \in Nat
  BY <1>5, Grows
<1> QED
  BY <1>3, <1>6

\* sortSmartCandidates: among the nodes of a list, the one that beats another
\* has the higher score.
LEMMA Scores ==
    ASSUME NEW list \in Lists, NEW source \in BOOLEAN, NEW x \in list, NEW y \in list,
           Beats(y, x, SmartLatency(y, source), SmartLatency(x, source))
    PROVE  SmartScore(x, list, source) < SmartScore(y, list, source)
<1> DEFINE latencies == {SmartLatency(z, source) : z \in list}
           speeds == {EffSpeed(z) : z \in list}
           loads == {z.of.sessions : z \in list}
<1>0. list # {} /\ \A z \in list : z \in Candidate
  BY DEF Lists
<1>1. /\ latencies \in SUBSET Int /\ IsFiniteSet(latencies)
      /\ speeds \in SUBSET Int /\ IsFiniteSet(speeds)
      /\ loads \in SUBSET Int /\ IsFiniteSet(loads)
  BY ListValues
<1>4. /\ SmartLatency(x, source) \in latencies /\ SmartLatency(y, source) \in latencies
      /\ EffSpeed(x) \in speeds /\ EffSpeed(y) \in speeds
      /\ x.of.sessions \in loads /\ y.of.sessions \in loads
  OBVIOUS
<1>5. /\ SmartLatency(x, source) \in Nat /\ SmartLatency(y, source) \in Nat
      /\ EffSpeed(x) \in Int /\ EffSpeed(y) \in Int
      /\ x.of.sessions \in Nat /\ y.of.sessions \in Nat
  BY <1>0, Figures
<1> DEFINE l(z) == Rest(Normalize(SmartLatency(z, source), latencies))
           s(z) == Normalize(EffSpeed(z), speeds)
           n(z) == Rest(Normalize(z.of.sessions, loads))
<1>6. \A z \in list : SmartScore(z, list, source) =
          4 * l(z).num * s(z).den * n(z).den + 4 * s(z).num * l(z).den * n(z).den
             + 2 * n(z).num * l(z).den * s(z).den
  BY DEF SmartScore
<1> HIDE DEF latencies, speeds, loads
<1>7. /\ l(x) \in [num : Nat, den : Nat \ {0}] /\ l(y) \in [num : Nat, den : Nat \ {0}]
      /\ l(x).den = l(y).den /\ l(x).num <= l(y).num
      /\ SmartLatency(y, source) < SmartLatency(x, source) => l(x).num < l(y).num
  BY <1>1, <1>4, Rested DEF Beats
<1>8. /\ s(x) \in [num : Nat, den : Nat \ {0}] /\ s(y) \in [num : Nat, den : Nat \ {0}]
      /\ s(x).den = s(y).den /\ s(x).num <= s(y).num
      /\ EffSpeed(x) < EffSpeed(y) => s(x).num < s(y).num
  <2>1. EffSpeed(x) <= EffSpeed(y)
    BY <1>5 DEF Beats
  <2> QED
    BY <1>1, <1>4, <2>1, Normalized
<1>9. /\ n(x) \in [num : Nat, den : Nat \ {0}] /\ n(y) \in [num : Nat, den : Nat \ {0}]
      /\ n(x).den = n(y).den /\ n(x).num <= n(y).num
  BY <1>1, <1>4, Rested DEF Beats
<1>10. l(x).num < l(y).num \/ s(x).num < s(y).num
  BY <1>5, <1>7, <1>8 DEF Beats
<1> HIDE DEF l, s, n
<1> DEFINE L == l(x).den
           S == s(x).den
           N == n(x).den
<1>11. L \in Nat \ {0} /\ S \in Nat \ {0} /\ N \in Nat \ {0}
  BY <1>7, <1>8, <1>9
<1>12. l(y).den = L /\ s(y).den = S /\ n(y).den = N
  BY <1>7, <1>8, <1>9
<1>13. /\ SmartScore(x, list, source) = 4 * l(x).num * S * N + 4 * s(x).num * L * N + 2 * n(x).num * L * S
       /\ SmartScore(y, list, source) = 4 * l(y).num * S * N + 4 * s(y).num * L * N + 2 * n(y).num * L * S
  BY <1>6, <1>12
<1> HIDE DEF L, S, N
<1> DEFINE a == 4 * l(x).num
           b == 4 * l(y).num
           c == 4 * s(x).num
           d == 4 * s(y).num
           e == 2 * n(x).num
           f == 2 * n(y).num
<1>14. /\ a \in Nat /\ b \in Nat /\ c \in Nat /\ d \in Nat /\ e \in Nat /\ f \in Nat
       /\ a <= b /\ c <= d /\ e <= f /\ (a < b \/ c < d)
  BY <1>7, <1>8, <1>9, <1>10
<1> HIDE DEF a, b, c, d, e, f
<1>15. /\ a * S * N \in Nat /\ b * S * N \in Nat /\ a * S * N <= b * S * N
       /\ a < b => a * S * N < b * S * N
  BY <1>11, <1>14, Grows
<1>16. /\ c * L * N \in Nat /\ d * L * N \in Nat /\ c * L * N <= d * L * N
       /\ c < d => c * L * N < d * L * N
  BY <1>11, <1>14, Grows
<1>17. e * L * S \in Nat /\ f * L * S \in Nat /\ e * L * S <= f * L * S
  BY <1>11, <1>14, Grows
<1>18. /\ SmartScore(x, list, source) = a * S * N + c * L * N + e * L * S
       /\ SmartScore(y, list, source) = b * S * N + d * L * N + f * L * S
  BY <1>13 DEF a, b, c, d, e, f
<1> QED
  BY <1>14, <1>15, <1>16, <1>17, <1>18

-----------------------------------------------------------------------------
(* The orders.                                                             *)

\* The figures of a key are integers.
LEMMA Weighed ==
    ASSUME NEW x \in Candidate
    PROVE  /\ EffLatency(x) \in Int /\ EffPing(x) \in Int /\ -EffSpeed(x) \in Int
           /\ -x.of.score \in Int /\ -x.of.speed \in Int /\ x.of.sessions \in Int
           /\ ResidentialRank(x) \in Int
<1>1. /\ EffLatency(x) \in Nat /\ EffPing(x) \in Nat /\ EffSpeed(x) \in Int
      /\ x.of.score \in Nat /\ x.of.speed \in Nat /\ x.of.sessions \in Nat
      /\ ResidentialRank(x) \in {0, 1}
  BY Figures
<1> QED
  BY <1>1

\* The earlier of two keys, by their figures.
LEMMA RankedFirst ==
    ASSUME NEW x \in Candidate, NEW y \in Candidate,
           NEW a \in Int, NEW b \in Int, NEW c \in Int, NEW d \in Int,
           NEW e \in Int, NEW f \in Int, NEW g \in Int, NEW h \in Int,
           \/ a < e
           \/ a = e /\ b < f
           \/ a = e /\ b = f /\ c < g
           \/ a = e /\ b = f /\ c = g /\ d < h
    PROVE  Earlier(<<a, b, c, d>> \o Listed(y), <<e, f, g, h>> \o Listed(x))
<1> DEFINE p == <<a, b, c, d>> \o Listed(y)
           q == <<e, f, g, h>> \o Listed(x)
<1>1. Leads(p, a, b, c, d) /\ Leads(q, e, f, g, h)
  <2>1. Leads(p, a, b, c, d)
    BY Ranked, Zenon
  <2>2. Leads(q, e, f, g, h)
    BY Ranked, Zenon
  <2> QED
    BY <2>1, <2>2, Zenon
<1> HIDE DEF p, q
<1>2. Earlier(p, q)
  BY <1>1, Decides DEF Leads
<1> QED
  BY <1>2 DEF p, q

LEMMA SmartKeys ==
    ASSUME NEW list \in Lists, NEW source \in BOOLEAN
    PROVE  /\ \A x \in list : <<-SmartScore(x, list, source), x.id>> \in IntTuples(2)
           /\ \A x, y \in list :
                 Beats(y, x, SmartLatency(y, source), SmartLatency(x, source)) =>
                    Earlier(<<-SmartScore(y, list, source), y.id>>,
                            <<-SmartScore(x, list, source), x.id>>)
<1>1. \A x \in list : x \in Candidate /\ x.id \in Nat
  BY Figures DEF Lists
<1>2. \A x \in list : SmartScore(x, list, source) \in Int
  BY ScoreType
<1>3. \A a, b \in Int : <<a, b>> \in IntTuples(2)
  BY DEF IntTuples
<1>4. \A x \in list : <<-SmartScore(x, list, source), x.id>> \in IntTuples(2)
  <2>1. \A x \in list : -SmartScore(x, list, source) \in Int /\ x.id \in Int
    BY <1>1, <1>2
  <2> QED
    BY <1>3, <2>1
<1>5. ASSUME NEW x \in list, NEW y \in list,
             Beats(y, x, SmartLatency(y, source), SmartLatency(x, source))
      PROVE  Earlier(<<-SmartScore(y, list, source), y.id>>,
                     <<-SmartScore(x, list, source), x.id>>)
  <2> DEFINE a == SmartScore(y, list, source)
             b == SmartScore(x, list, source)
  <2>1. a \in Int /\ b \in Int /\ b < a
    BY <1>2, <1>5, Scores
  <2> HIDE DEF a, b
  <2>2. -a < -b
    BY <2>1
  <2>3. 1 \in DOMAIN <<-a, y.id>> /\ <<-a, y.id>>[1] < <<-b, x.id>>[1] /\ 1..1 - 1 = {}
    BY <2>2
  <2>4. Earlier(<<-a, y.id>>, <<-b, x.id>>)
    BY <2>3 DEF Earlier
  <2> QED
    BY <2>4 DEF a, b
<1> QED
  BY <1>4, <1>5

\* SortCandidates: the length of a key, and that what beats comes earlier.
LEMMA SortKeys ==
    ASSUME NEW list \in Lists, NEW s
    PROVE  \E n \in Nat :
              /\ \A x \in list : SortKey(x, list, s) \in IntTuples(n)
              /\ \A x, y \in list : Beats(y, x, EffLatency(y), EffLatency(x)) =>
                    Earlier(SortKey(y, list, s), SortKey(x, list, s))
<1>0. \A x \in list : x \in Candidate
  BY DEF Lists
<1>1. CASE s.mode = "smart"
  <2>1. \A x \in list : /\ SortKey(x, list, s) = <<-SmartScore(x, list, FALSE), x.id>>
                        /\ SmartLatency(x, FALSE) = EffLatency(x)
    BY <1>0, <1>1, Figures DEF SortKey
  <2>2. /\ \A x \in list : SortKey(x, list, s) \in IntTuples(2)
        /\ \A x, y \in list : Beats(y, x, EffLatency(y), EffLatency(x)) =>
                    Earlier(SortKey(y, list, s), SortKey(x, list, s))
    BY <2>1, SmartKeys, Zenon
  <2> QED
    BY <2>2
<1>2. CASE s.mode = "speed_first"
  <2>1. \A x \in list : SortKey(x, list, s) =
           <<-EffSpeed(x), EffLatency(x), -x.of.score, ResidentialRank(x)>> \o Listed(x)
    BY <1>2 DEF SortKey
  <2>2. ASSUME NEW x \in list
        PROVE  <<-EffSpeed(x), EffLatency(x), -x.of.score, ResidentialRank(x)>> \o Listed(x) \in IntTuples(7)
    BY <1>0, Weighed, Ranked DEF Leads
  <2>3. ASSUME NEW x \in list, NEW y \in list, Beats(y, x, EffLatency(y), EffLatency(x))
        PROVE  Earlier(
                 <<-EffSpeed(y), EffLatency(y), -y.of.score, ResidentialRank(y)>> \o Listed(y),
                 <<-EffSpeed(x), EffLatency(x), -x.of.score, ResidentialRank(x)>> \o Listed(x))
    <3>1. x \in Candidate /\ y \in Candidate
      BY <1>0
    <3>2. -EffSpeed(y) < -EffSpeed(x) \/ (-EffSpeed(y) = -EffSpeed(x) /\ EffLatency(y) < EffLatency(x))
      <4>1. /\ EffLatency(x) \in Nat /\ EffLatency(y) \in Nat
            /\ EffSpeed(x) \in Int /\ EffSpeed(y) \in Int
        BY <3>1, Figures
      <4> QED
        BY <2>3, <4>1 DEF Beats
    <3> QED
      BY <3>1, <3>2, Weighed, RankedFirst
  <2> QED
    BY <2>1, <2>2, <2>3, Zenon
<1>3. CASE s.mode = "residential_first"
  <2>1. \A x \in list : SortKey(x, list, s) =
           <<ResidentialRank(x), EffLatency(x), -x.of.score, -x.of.speed>> \o Listed(x)
    BY <1>3 DEF SortKey
  <2>2. ASSUME NEW x \in list
        PROVE  <<ResidentialRank(x), EffLatency(x), -x.of.score, -x.of.speed>> \o Listed(x) \in IntTuples(7)
    BY <1>0, Weighed, Ranked DEF Leads
  <2>3. ASSUME NEW x \in list, NEW y \in list, Beats(y, x, EffLatency(y), EffLatency(x))
        PROVE  Earlier(
                 <<ResidentialRank(y), EffLatency(y), -y.of.score, -y.of.speed>> \o Listed(y),
                 <<ResidentialRank(x), EffLatency(x), -x.of.score, -x.of.speed>> \o Listed(x))
    <3>1. x \in Candidate /\ y \in Candidate
      BY <1>0
    <3>2. \/ ResidentialRank(y) < ResidentialRank(x)
          \/ /\ ResidentialRank(y) = ResidentialRank(x)
             /\ \/ EffLatency(y) < EffLatency(x)
                \/ /\ EffLatency(y) = EffLatency(x)
                   /\ \/ -y.of.score < -x.of.score
                      \/ -y.of.score = -x.of.score /\ -y.of.speed < -x.of.speed
      <4>1. /\ EffLatency(x) \in Nat /\ EffLatency(y) \in Nat
            /\ x.of.score \in Nat /\ y.of.score \in Nat /\ x.of.speed \in Nat /\ y.of.speed \in Nat
            /\ ResidentialRank(x) \in {0, 1} /\ ResidentialRank(y) \in {0, 1}
            /\ EffSpeed(y) > EffSpeed(x) => y.of.speed > x.of.speed
        BY <3>1, Figures, Speeds
      <4> QED
        BY <2>3, <4>1 DEF Beats
    <3> QED
      BY <3>1, <3>2, Weighed, RankedFirst
  <2> QED
    BY <2>1, <2>2, <2>3, Zenon
<1>4. CASE s.mode \notin {"smart", "speed_first", "residential_first"}
  <2>1. \A x \in list : SortKey(x, list, s) =
           <<EffLatency(x), -x.of.score, -x.of.speed, ResidentialRank(x)>> \o Listed(x)
    BY <1>4 DEF SortKey
  <2>2. ASSUME NEW x \in list
        PROVE  <<EffLatency(x), -x.of.score, -x.of.speed, ResidentialRank(x)>> \o Listed(x) \in IntTuples(7)
    BY <1>0, Weighed, Ranked DEF Leads
  <2>3. ASSUME NEW x \in list, NEW y \in list, Beats(y, x, EffLatency(y), EffLatency(x))
        PROVE  Earlier(
                 <<EffLatency(y), -y.of.score, -y.of.speed, ResidentialRank(y)>> \o Listed(y),
                 <<EffLatency(x), -x.of.score, -x.of.speed, ResidentialRank(x)>> \o Listed(x))
    <3>1. x \in Candidate /\ y \in Candidate
      BY <1>0
    <3>2. \/ EffLatency(y) < EffLatency(x)
          \/ EffLatency(y) = EffLatency(x) /\ -y.of.score < -x.of.score
          \/ /\ EffLatency(y) = EffLatency(x) /\ -y.of.score = -x.of.score
             /\ -y.of.speed < -x.of.speed
      <4>1. /\ EffLatency(x) \in Nat /\ EffLatency(y) \in Nat
            /\ x.of.score \in Nat /\ y.of.score \in Nat /\ x.of.speed \in Nat /\ y.of.speed \in Nat
            /\ EffSpeed(y) > EffSpeed(x) => y.of.speed > x.of.speed
        BY <3>1, Figures, Speeds
      <4> QED
        BY <2>3, <4>1 DEF Beats
    <3> QED
      BY <3>1, <3>2, Weighed, RankedFirst
  <2> QED
    BY <2>1, <2>2, <2>3, Zenon
<1> QED
  BY <1>1, <1>2, <1>3, <1>4

\* How far a node is for the first probing pass.
Distance(z, smart) == IF smart THEN SmartLatency(z, TRUE) ELSE EffPing(z)

\* probeLess, likewise.
LEMMA ProbeKeys ==
    ASSUME NEW list \in Lists, NEW s, NEW smart, smart = (s.mode = "smart")
    PROVE  \E n \in Nat :
              /\ \A x \in list : ProbeKey(x, list, s) \in IntTuples(n)
              /\ \A x, y \in list : Beats(y, x, Distance(y, smart), Distance(x, smart)) =>
                    Earlier(ProbeKey(y, list, s), ProbeKey(x, list, s))
<1>0. \A x \in list : x \in Candidate
  BY DEF Lists
<1>1. CASE s.mode = "smart"
  <2>1. \A x \in list : /\ ProbeKey(x, list, s) = <<-SmartScore(x, list, TRUE), x.id>>
                        /\ Distance(x, smart) = SmartLatency(x, TRUE)
    BY <1>1 DEF ProbeKey, Distance
  <2>2. /\ \A x \in list : ProbeKey(x, list, s) \in IntTuples(2)
        /\ \A x, y \in list : Beats(y, x, Distance(y, smart), Distance(x, smart)) =>
                    Earlier(ProbeKey(y, list, s), ProbeKey(x, list, s))
    BY <2>1, SmartKeys, Zenon
  <2> QED
    BY <2>2
<1>2. CASE s.mode = "speed_first"
  <2>1. \A x \in list :
           /\ ProbeKey(x, list, s) = <<-x.of.speed, EffPing(x), -x.of.score, x.of.sessions>> \o Listed(x)
           /\ Distance(x, smart) = EffPing(x)
    BY <1>2 DEF ProbeKey, Distance
  <2>2. ASSUME NEW x \in list
        PROVE  <<-x.of.speed, EffPing(x), -x.of.score, x.of.sessions>> \o Listed(x) \in IntTuples(7)
    BY <1>0, Weighed, Ranked DEF Leads
  <2>3. ASSUME NEW x \in list, NEW y \in list, Beats(y, x, EffPing(y), EffPing(x))
        PROVE  Earlier(<<-y.of.speed, EffPing(y), -y.of.score, y.of.sessions>> \o Listed(y),
                       <<-x.of.speed, EffPing(x), -x.of.score, x.of.sessions>> \o Listed(x))
    <3>1. x \in Candidate /\ y \in Candidate
      BY <1>0
    <3>2. -y.of.speed < -x.of.speed \/ (-y.of.speed = -x.of.speed /\ EffPing(y) < EffPing(x))
      <4>1. /\ EffPing(x) \in Nat /\ EffPing(y) \in Nat /\ x.of.speed \in Nat /\ y.of.speed \in Nat
            /\ EffSpeed(y) > EffSpeed(x) => y.of.speed > x.of.speed
            /\ EffSpeed(y) >= EffSpeed(x) => y.of.speed >= x.of.speed
        BY <3>1, Figures, Speeds
      <4> QED
        BY <2>3, <4>1 DEF Beats
    <3> QED
      BY <3>1, <3>2, Weighed, RankedFirst
  <2> QED
    BY <2>1, <2>2, <2>3, Zenon
<1>3. CASE s.mode \notin {"smart", "speed_first"}
  <2>1. \A x \in list :
           /\ ProbeKey(x, list, s) = <<EffPing(x), -x.of.score, -x.of.speed, x.of.sessions>> \o Listed(x)
           /\ Distance(x, smart) = EffPing(x)
    BY <1>3 DEF ProbeKey, Distance
  <2>2. ASSUME NEW x \in list
        PROVE  <<EffPing(x), -x.of.score, -x.of.speed, x.of.sessions>> \o Listed(x) \in IntTuples(7)
    BY <1>0, Weighed, Ranked DEF Leads
  <2>3. ASSUME NEW x \in list, NEW y \in list, Beats(y, x, EffPing(y), EffPing(x))
        PROVE  Earlier(<<EffPing(y), -y.of.score, -y.of.speed, y.of.sessions>> \o Listed(y),
                       <<EffPing(x), -x.of.score, -x.of.speed, x.of.sessions>> \o Listed(x))
    <3>1. x \in Candidate /\ y \in Candidate
      BY <1>0
    <3>2. \/ EffPing(y) < EffPing(x)
          \/ EffPing(y) = EffPing(x) /\ -y.of.score < -x.of.score
          \/ /\ EffPing(y) = EffPing(x) /\ -y.of.score = -x.of.score
             /\ -y.of.speed < -x.of.speed
      <4>1. /\ EffPing(x) \in Nat /\ EffPing(y) \in Nat
            /\ x.of.score \in Nat /\ y.of.score \in Nat /\ x.of.speed \in Nat /\ y.of.speed \in Nat
            /\ EffSpeed(y) > EffSpeed(x) => y.of.speed > x.of.speed
        BY <3>1, Figures, Speeds
      <4> QED
        BY <2>3, <4>1 DEF Beats
    <3> QED
      BY <3>1, <3>2, Weighed, RankedFirst
  <2> QED
    BY <2>1, <2>2, <2>3, Zenon
<1> QED
  BY <1>1, <1>2, <1>3

-----------------------------------------------------------------------------
(* The rotation and the first pass.                                        *)

\* What the first of a list leave aside beats none of them.
LEMMA FirstUnbeaten ==
    ASSUME NEW list \in Lists, NEW n \in Nat, NEW m \in Nat, NEW key \in [list -> IntTuples(n)],
           NEW near \in [list -> Nat],
           \A x, y \in list : Beats(y, x, near[y], near[x]) => Earlier(key[y], key[x]),
           NEW x \in First(m, list, key), NEW y \in list \ First(m, list, key)
    PROVE  ~Beats(y, x, near[y], near[x])
<1>1. IsFiniteSet(list) /\ x \in list
  BY DEF Lists, First
<1> QED
  BY <1>1, FirstIsClosed

\* No node left aside beats a chosen one.
Unbeaten(rot) ==
    /\ rot.at = "activate" =>
         /\ \A x \in rot.chosen : x.id \notin rot.excluded
         /\ \A x \in rot.chosen, y \in rot.list \ rot.chosen :
               ~Beats(y, x, EffLatency(y), EffLatency(x))
    /\ rot.at = "probe" =>
         \A x \in rot.chosen, y \in rot.list \ rot.chosen :
            ~Beats(y, x, Distance(y, rot.smart), Distance(x, rot.smart))

Rotations ==
    {rot \in [at : {"rest", "list", "select", "activate", "probe"}, list : Lists,
              excluded : SUBSET Nodes, chosen : SUBSET Candidate, attempts : Int, smart : BOOLEAN] :
        Unbeaten(rot)}

CInv == nodes \in [Nodes -> NodeFields] /\ rotation \in Rotations

LEMMA Resting == AtRest \in Rotations
<1>1. {} \in Lists
  BY FS_EmptySet DEF Lists
<1> QED
  BY <1>1 DEF AtRest, Rotations, Unbeaten

LEMMA InitCInv == CandidatesInit => CInv
  BY CandidatesAssumption, Resting DEF CandidatesInit, CInv

\* What is read is a list, and a part of a list is one.
LEMMA Listing ==
    ASSUME CInv, NEW states
    PROVE  With(states) \in Lists
<1> DEFINE ids == {n \in Nodes : status[n] \in states}
           f == [n \in ids |-> [id |-> n, of |-> nodes[n]]]
<1>1. IsFiniteSet(ids)
  BY CandidatesAssumption, FS_Subset
<1>2. With(states) \subseteq Candidate
  BY DEF With, Candidate, CInv
<1>3. f \in Surjection(ids, With(states))
  BY DEF With, Surjection
<1> HIDE DEF ids, f
<1>4. IsFiniteSet(With(states))
  BY <1>1, <1>3, FS_Surjection
<1> QED
  BY <1>2, <1>4 DEF Lists

LEMMA Parts == ASSUME NEW list \in Lists, NEW some \in SUBSET list PROVE some \in Lists
  BY FS_Subset DEF Lists

LEMMA SelectKeeps ==
    ASSUME CInv, SelectExcluding
    PROVE  rotation' \in Rotations
<1> DEFINE list == {x \in Permitted(rotation.list, settings, FALSE) : x.id \notin rotation.excluded}
           key == [x \in list |-> SortKey(x, list, settings)]
           near == [x \in list |-> EffLatency(x)]
           chosen == First(1, list, key)
           new == [rotation EXCEPT !.at = "activate", !.list = list, !.chosen = chosen]
<1>1. rotation' = AtRest \/ rotation' = new
  BY DEF SelectExcluding
<1>2. list \in Lists
  <2>1. list \in SUBSET rotation.list
    BY DEF Permitted
  <2>2. rotation.list \in Lists
    BY DEF CInv, Rotations
  <2> QED
    BY <2>1, <2>2, Parts
<1>3. \A x \in list : x \in Candidate /\ x.id \notin rotation.excluded
  BY <1>2 DEF Lists
<1> HIDE DEF list
<1>4. PICK n \in Nat :
        /\ key \in [list -> IntTuples(n)]
        /\ \A x, y \in list : Beats(y, x, near[y], near[x]) => Earlier(key[y], key[x])
  <2>1. PICK n \in Nat :
          /\ \A x \in list : SortKey(x, list, settings) \in IntTuples(n)
          /\ \A x, y \in list : Beats(y, x, EffLatency(y), EffLatency(x)) =>
                Earlier(SortKey(y, list, settings), SortKey(x, list, settings))
    BY <1>2, SortKeys
  <2>2. key \in [list -> IntTuples(n)]
    BY <2>1
  <2>3. \A x \in list : key[x] = SortKey(x, list, settings) /\ near[x] = EffLatency(x)
    OBVIOUS
  <2> HIDE DEF key, near
  <2> QED
    BY <2>1, <2>2, <2>3, Zenon
<1>5. near \in [list -> Nat] /\ \A x \in list : near[x] = EffLatency(x)
  BY <1>3, Figures
<1> HIDE DEF key, near
<1>6. chosen \subseteq list
  BY DEF First
<1>7. \A x \in chosen, y \in list \ chosen : ~Beats(y, x, near[y], near[x])
  BY <1>2, <1>4, <1>5, FirstUnbeaten
<1>8. \A x \in chosen, y \in list \ chosen : ~Beats(y, x, EffLatency(y), EffLatency(x))
  <2> HIDE DEF chosen
  <2> QED
    BY <1>5, <1>6, <1>7, Zenon
<1> HIDE DEF chosen
<1>9. new \in Rotations
  <2>1. /\ new.at = "activate" /\ new.list = list /\ new.chosen = chosen
        /\ new.excluded = rotation.excluded
        /\ new \in [at : {"rest", "list", "select", "activate", "probe"}, list : Lists,
              excluded : SUBSET Nodes, chosen : SUBSET Candidate, attempts : Int, smart : BOOLEAN]
    BY <1>2, <1>3, <1>6 DEF CInv, Rotations
  <2>2. \A x \in chosen : x.id \notin rotation.excluded
    BY <1>3, <1>6
  <2> HIDE DEF new
  <2>3. Unbeaten(new)
    BY <1>8, <2>1, <2>2 DEF Unbeaten
  <2> QED
    BY <2>1, <2>3 DEF Rotations
<1> QED
  BY <1>1, <1>9, Resting

LEMMA PickKeeps ==
    ASSUME CInv, PickFast
    PROVE  rotation' \in Rotations
<1> DEFINE list == Permitted(With({"discovered", "ready"}), settings, TRUE)
           smart == settings.mode = "smart"
           key == [x \in list |-> ProbeKey(x, list, settings)]
           near == [x \in list |-> Distance(x, smart)]
           chosen == First(QuickLimit, list, key)
           new == [AtRest EXCEPT !.at = "probe", !.list = list, !.smart = smart, !.chosen = chosen]
<1>1. rotation' = new
  BY DEF PickFast
<1>2. list \in Lists
  <2>1. list \in SUBSET With({"discovered", "ready"})
    BY DEF Permitted
  <2> QED
    BY <2>1, Listing, Parts
<1>3. \A x \in list : x \in Candidate
  BY <1>2 DEF Lists
<1>4. smart \in BOOLEAN
  OBVIOUS
<1> HIDE DEF list
<1>5. PICK n \in Nat :
        /\ key \in [list -> IntTuples(n)]
        /\ \A x, y \in list : Beats(y, x, near[y], near[x]) => Earlier(key[y], key[x])
  <2>1. PICK n \in Nat :
          /\ \A x \in list : ProbeKey(x, list, settings) \in IntTuples(n)
          /\ \A x, y \in list : Beats(y, x, Distance(y, smart), Distance(x, smart)) =>
                Earlier(ProbeKey(y, list, settings), ProbeKey(x, list, settings))
    BY <1>2, ProbeKeys
  <2>2. key \in [list -> IntTuples(n)]
    BY <2>1
  <2>3. \A x \in list : key[x] = ProbeKey(x, list, settings) /\ near[x] = Distance(x, smart)
    OBVIOUS
  <2> HIDE DEF key, near, smart
  <2> QED
    BY <2>1, <2>2, <2>3, Zenon
<1>6. near \in [list -> Nat] /\ \A x \in list : near[x] = Distance(x, smart)
  <2>1. \A x \in list : Distance(x, smart) \in Nat
    BY <1>3, Figures DEF Distance
  <2> QED
    BY <2>1
<1> HIDE DEF key, near, smart
<1>7. chosen \subseteq list
  BY DEF First
<1>8. \A x \in chosen, y \in list \ chosen : ~Beats(y, x, near[y], near[x])
  BY <1>2, <1>5, <1>6, FirstUnbeaten, CandidatesAssumption
<1>9. \A x \in chosen, y \in list \ chosen : ~Beats(y, x, Distance(y, smart), Distance(x, smart))
  <2> HIDE DEF chosen
  <2> QED
    BY <1>6, <1>7, <1>8, Zenon
<1> HIDE DEF chosen
<1>10. new \in Rotations
  <2>1. /\ new.at = "probe" /\ new.list = list /\ new.chosen = chosen /\ new.smart = smart
        /\ new \in [at : {"rest", "list", "select", "activate", "probe"}, list : Lists,
              excluded : SUBSET Nodes, chosen : SUBSET Candidate, attempts : Int, smart : BOOLEAN]
    <3>1. chosen \in SUBSET Candidate
      BY <1>3, <1>7
    <3>2. AtRest \in Rotations
      BY Resting
    <3> QED
      BY <1>2, <1>4, <3>1, <3>2 DEF Rotations
  <2> HIDE DEF new
  <2>2. Unbeaten(new)
    BY <1>9, <2>1 DEF Unbeaten
  <2> QED
    BY <2>1, <2>2 DEF Rotations
<1> QED
  BY <1>1, <1>10

\* Whoever else acts leaves the rotation alone or ends a step of it.
LEMMA StepCInv == CInv /\ [CandidatesNext]_candidatesVars => CInv'
<1> SUFFICES ASSUME CInv, [CandidatesNext]_candidatesVars PROVE CInv'
  OBVIOUS
<1>1. nodes \in [Nodes -> NodeFields] /\ rotation \in Rotations
  BY DEF CInv
<1>2. ASSUME UNCHANGED nodes, rotation' \in Rotations PROVE CInv'
  BY <1>1, <1>2 DEF CInv
<1>3. ASSUME NEW active \in SUBSET Nodes, Rotate0(active) PROVE CInv'
  <2>1. [AtRest EXCEPT !.at = "list", !.excluded = active] \in Rotations
    BY <1>3, Resting DEF AtRest, Rotations, Unbeaten
  <2> QED
    BY <1>2, <1>3, <2>1 DEF Rotate0, Keep
<1>4. CASE ListReady
  <2>1. With({"ready"}) \in Lists
    BY Listing
  <2> DEFINE list == With({"ready"})
             new == [rotation EXCEPT !.at = "select", !.list = list, !.chosen = {}]
  <2>2. rotation' = new /\ UNCHANGED nodes
    BY <1>4 DEF ListReady, Keep
  <2> HIDE DEF list
  <2>3. new \in Rotations
    BY <1>1, <2>1 DEF Rotations, Unbeaten, list
  <2> QED
    BY <1>2, <2>2, <2>3
<1>5. CASE SelectExcluding
  BY <1>2, <1>5, SelectKeeps DEF SelectExcluding, Keep
<1>6. CASE ActivationFails
  <2> DEFINE excluded == rotation.excluded \cup Chosen
             attempts == rotation.attempts + 1
             new == [rotation EXCEPT !.at = "list", !.attempts = attempts, !.excluded = excluded]
  <2>1. rotation' = AtRest \/ rotation' = new
    BY <1>6 DEF ActivationFails
  <2>0. attempts \in Int
    BY <1>1 DEF Rotations
  <2>2. excluded \in SUBSET Nodes
    BY <1>1 DEF Rotations, Chosen, Candidate
  <2> HIDE DEF excluded, attempts
  <2>3. /\ new \in [at : {"rest", "list", "select", "activate", "probe"}, list : Lists,
              excluded : SUBSET Nodes, chosen : SUBSET Candidate, attempts : Int, smart : BOOLEAN]
        /\ new.at = "list"
    BY <1>1, <2>0, <2>2 DEF Rotations
  <2> HIDE DEF new
  <2>4. new \in Rotations
    BY <2>3 DEF Rotations, Unbeaten
  <2> QED
    BY <1>2, <1>6, <2>1, <2>4, Resting DEF ActivationFails
<1>7. CASE ActivationEnds \/ Probed
  BY <1>2, <1>7, Resting DEF ActivationEnds, Probed, Keep
<1>8. CASE PickFast
  BY <1>2, <1>8, PickKeeps DEF PickFast, Keep
<1>9. ASSUME NEW n \in Nodes, Measured(n) PROVE CInv'
  <2>1. nodes' \in [Nodes -> NodeFields]
    BY <1>1, <1>9, CandidatesAssumption DEF Measured
  <2> QED
    BY <1>1, <1>9, <2>1 DEF CInv, Measured
<1>10. CASE SaveSettings \/ UNCHANGED candidatesVars
  BY <1>1, <1>10 DEF CInv, SaveSettings, candidatesVars
<1>11. \A active \in {{}} \cup {{n} : n \in Nodes} : active \in SUBSET Nodes
  OBVIOUS
<1> QED
  BY <1>3, <1>4, <1>5, <1>6, <1>7, <1>8, <1>9, <1>10, <1>11 DEF CandidatesNext

\* pool.SortCandidates, probeLess and the smart order, for every finite set of
\* nodes and whatever integer figures: no node left aside beats, in all a mode may
\* weigh, the node a rotation tries next or one the first pass probes, whoever
\* edits nodes and settings meanwhile; and no rotation tries a node it excluded.
THEOREM BestChosen == CandidatesSpec => []UndominatedChosen
<1>1. CInv => UndominatedChosen
  <2> SUFFICES ASSUME CInv PROVE UndominatedChosen
    OBVIOUS
  <2>1. /\ Unbeaten(rotation) /\ \A x \in rotation.chosen : x \in Candidate
        /\ \A x \in rotation.list : x \in Candidate
    BY DEF CInv, Rotations, Lists
  <2>2. ASSUME rotation.at = "activate", NEW x \in rotation.chosen,
               NEW y \in rotation.list \ rotation.chosen,
               Dominates(y, x, LAMBDA z : IF z.of.latency = 0 THEN Unknown ELSE z.of.latency)
        PROVE  FALSE
    <3>1. /\ EffLatency(x) = (IF x.of.latency = 0 THEN Unknown ELSE x.of.latency)
          /\ EffLatency(y) = (IF y.of.latency = 0 THEN Unknown ELSE y.of.latency)
      BY <2>1, Figures
    <3>2. Beats(y, x, EffLatency(y), EffLatency(x))
      BY <2>2, <3>1 DEF Dominates, Beats
    <3> QED
      BY <2>1, <2>2, <3>2 DEF Unbeaten
  <2>3. ASSUME rotation.at = "probe", NEW x \in rotation.chosen,
               NEW y \in rotation.list \ rotation.chosen,
               Dominates(y, x, LAMBDA z : IF rotation.smart THEN SmartLatency(z, TRUE) ELSE EffPing(z))
        PROVE  FALSE
    <3>1. Beats(y, x, Distance(y, rotation.smart), Distance(x, rotation.smart))
      BY <2>3 DEF Dominates, Beats, Distance
    <3> QED
      BY <2>1, <2>3, <3>1 DEF Unbeaten
  <2>4. rotation.at = "activate" => Chosen \cap rotation.excluded = {}
    BY <2>1 DEF Unbeaten, Chosen
  <2> QED
    BY <2>2, <2>3, <2>4 DEF UndominatedChosen
<1> QED
  BY <1>1, InitCInv, StepCInv, PTL DEF CandidatesSpec

-----------------------------------------------------------------------------
(* The types of the candidates.                                            *)

\* A rotation chooses from its list, and gives up before it has tried
\* MaxAttempts nodes.
CTypes ==
    /\ nodes \in [Nodes -> Profiles] /\ status \in [Nodes -> {"discovered", "ready", "unavailable"}]
    /\ settings \in [mode : Modes, ipType : {"all", "residential", "hosting"}, picked : SUBSET Nodes]
    /\ edits \in 0..MaxEdits
    /\ rotation.chosen \subseteq rotation.list /\ rotation.attempts \in 0..MaxAttempts - 1

LEMMA InitCTypes == CandidatesInit => CTypes
<1> SUFFICES ASSUME CandidatesInit PROVE CTypes
  OBVIOUS
<1>1. rotation.chosen = {} /\ rotation.attempts = 0
  BY DEF CandidatesInit, AtRest
<1>2. status \in [Nodes -> {"discovered", "ready", "unavailable"}]
  BY DEF CandidatesInit
<1>3. settings \in [mode : Modes, ipType : {"all", "residential", "hosting"}, picked : SUBSET Nodes]
  BY DEF CandidatesInit
<1> QED
  BY <1>1, <1>2, <1>3, CandidatesAssumption DEF CandidatesInit, CTypes

\* Only the rotation's own locals change.
LEMMA RotationTyped ==
    ASSUME CTypes, UNCHANGED <<nodes, settings, edits>>,
           status' \in [Nodes -> {"discovered", "ready", "unavailable"}],
           rotation'.chosen \subseteq rotation'.list, rotation'.attempts \in 0..MaxAttempts - 1
    PROVE  CTypes'
  BY DEF CTypes

LEMMA StepCTypes == CInv /\ CTypes /\ [CandidatesNext]_candidatesVars => CTypes'
<1> SUFFICES ASSUME CInv, CTypes, [CandidatesNext]_candidatesVars PROVE CTypes'
  OBVIOUS
<1> DEFINE Fields == [at : {"rest", "list", "select", "activate", "probe"}, list : Lists,
                      excluded : SUBSET Nodes, chosen : SUBSET Candidate, attempts : Int,
                      smart : BOOLEAN]
<1>1. rotation \in Fields /\ AtRest \in Fields
  BY Resting DEF CInv, Rotations
<1>2. /\ AtRest.chosen = {} /\ AtRest.list = {} /\ AtRest.attempts = 0
      /\ 0 \in 0..MaxAttempts - 1
  BY CandidatesAssumption DEF AtRest
<1>3. status \in [Nodes -> {"discovered", "ready", "unavailable"}]
  BY DEF CTypes
<1>4. ASSUME NEW active, Rotate0(active) PROVE CTypes'
  <2>1. LET new == [AtRest EXCEPT !.at = "list", !.excluded = active]
        IN new.chosen = {} /\ new.attempts = 0
    BY DEF AtRest
  <2> QED
    BY <1>2, <1>3, <1>4, <2>1, RotationTyped DEF Rotate0, Keep
<1>5. CASE ListReady
  <2>1. \A list : LET new == [rotation EXCEPT !.at = "select", !.list = list, !.chosen = {}]
                  IN new.chosen = {} /\ new.attempts = rotation.attempts
    BY <1>1
  <2> QED
    BY <1>3, <1>5, <2>1, RotationTyped DEF ListReady, Keep, CTypes
<1>6. CASE SelectExcluding
  <2> DEFINE list == {x \in Permitted(rotation.list, settings, FALSE) : x.id \notin rotation.excluded}
             chosen == First(1, list, [x \in list |-> SortKey(x, list, settings)])
             new == [rotation EXCEPT !.at = "activate", !.list = list, !.chosen = chosen]
  <2>1. chosen \subseteq list
    BY DEF First
  <2>2. rotation' = AtRest \/ rotation' = new
    BY <1>6 DEF SelectExcluding
  <2> HIDE DEF list, chosen
  <2>3. new.chosen = chosen /\ new.list = list /\ new.attempts = rotation.attempts
    BY <1>1
  <2> HIDE DEF new
  <2> QED
    BY <1>2, <1>3, <1>6, <2>1, <2>2, <2>3, RotationTyped DEF SelectExcluding, Keep, CTypes
<1>7. CASE ActivationFails
  <2> DEFINE excluded == rotation.excluded \cup Chosen
             attempts == rotation.attempts + 1
             new == [rotation EXCEPT !.at = "list", !.attempts = attempts, !.excluded = excluded]
  <2>1. rotation' = AtRest \/ (attempts # MaxAttempts /\ rotation' = new)
    BY <1>7 DEF ActivationFails
  <2>2. attempts # MaxAttempts => attempts \in 0..MaxAttempts - 1
    BY CandidatesAssumption DEF CTypes
  <2>3. status' \in [Nodes -> {"discovered", "ready", "unavailable"}]
    BY <1>3, <1>7 DEF ActivationFails
  <2> HIDE DEF excluded, attempts
  <2>4. new.chosen = rotation.chosen /\ new.list = rotation.list /\ new.attempts = attempts
    BY <1>1
  <2> HIDE DEF new
  <2> QED
    BY <1>2, <1>7, <2>1, <2>2, <2>3, <2>4, RotationTyped DEF ActivationFails, CTypes
<1>8. CASE ActivationEnds
  BY <1>2, <1>3, <1>8, RotationTyped DEF ActivationEnds, Keep
<1>9. CASE PickFast
  <2> DEFINE list == Permitted(With({"discovered", "ready"}), settings, TRUE)
             chosen == First(QuickLimit, list, [x \in list |-> ProbeKey(x, list, settings)])
             smart == settings.mode = "smart"
             new == [AtRest EXCEPT !.at = "probe", !.list = list, !.smart = smart, !.chosen = chosen]
  <2>1. chosen \subseteq list /\ rotation' = new
    BY <1>9 DEF First, PickFast
  <2> HIDE DEF list, chosen, smart
  <2>2. new.chosen = chosen /\ new.list = list /\ new.attempts = 0
    BY DEF AtRest
  <2> HIDE DEF new
  <2> QED
    BY <1>2, <1>3, <1>9, <2>1, <2>2, RotationTyped DEF PickFast, Keep
<1>10. CASE Probed
  <2>1. status' \in [Nodes -> {"discovered", "ready", "unavailable"}]
    BY <1>3, <1>10 DEF Probed
  <2> QED
    BY <1>2, <1>10, <2>1, RotationTyped DEF Probed
<1>11. ASSUME NEW n \in Nodes, Measured(n) PROVE CTypes'
  <2>1. nodes' \in [Nodes -> Profiles] /\ status' \in [Nodes -> {"discovered", "ready", "unavailable"}]
    BY <1>3, <1>11 DEF Measured, CTypes
  <2> QED
    BY <1>11, <2>1, CandidatesAssumption DEF Measured, CTypes
<1>12. CASE SaveSettings
  <2>1. settings' \in [mode : Modes, ipType : {"all", "residential", "hosting"}, picked : SUBSET Nodes]
    BY <1>12 DEF SaveSettings, CTypes
  <2> QED
    BY <1>12, <2>1, CandidatesAssumption DEF SaveSettings, CTypes
<1>13. CASE UNCHANGED candidatesVars
  BY <1>13 DEF candidatesVars, CTypes
<1> QED
  BY <1>4, <1>5, <1>6, <1>7, <1>8, <1>9, <1>10, <1>11, <1>12, <1>13 DEF CandidatesNext

LEMMA CandidatesTyped == CInv /\ CTypes => CandidatesTypeOK
<1> SUFFICES ASSUME CInv, CTypes PROVE CandidatesTypeOK
  OBVIOUS
<1>1. /\ rotation.at \in {"rest", "list", "select", "activate", "probe"}
      /\ rotation.excluded \subseteq Nodes
  BY DEF CInv, Rotations
<1>2. settings.mode \in Modes /\ rotation.attempts \in 0..MaxAttempts
  BY CandidatesAssumption DEF CTypes
<1> QED
  BY <1>1, <1>2 DEF CTypes, CandidatesTypeOK

-----------------------------------------------------------------------------
(* The five models side by side, as they are run.                          *)

accessVars == <<part, adminVars, authVars, limiterVars, listenerVars, candidatesVars>>

AccessInv == /\ RInv /\ Kinded /\ Served
             /\ AuthInv /\ LInv /\ ListenerInv
             /\ CInv /\ CTypes

LEMMA InitAccess == Init => AccessInv
  BY InitRInv, InitTypes, InitAuthInv, InitLInv, InitListenerInv, InitCInv, InitCTypes
  DEF Init, AccessInv

LEMMA StepAccess == AccessInv /\ [Next]_accessVars => AccessInv'
<1> SUFFICES ASSUME AccessInv, [Next]_accessVars PROVE AccessInv'
  OBVIOUS
<1>1. [AdminNext]_adminVars
  BY DEF Next, AdminPart, AuthPart, LoginPart, ListenerPart, CandidatesPart, accessVars
<1>2. [AuthNext]_authVars
  BY DEF Next, AdminPart, AuthPart, LoginPart, ListenerPart, CandidatesPart, accessVars
<1>3. [LimiterNext]_limiterVars
  BY DEF Next, AdminPart, AuthPart, LoginPart, ListenerPart, CandidatesPart, accessVars
<1>4. [ListenerNext]_listenerVars
  BY DEF Next, AdminPart, AuthPart, LoginPart, ListenerPart, CandidatesPart, accessVars
<1>5. [CandidatesNext]_candidatesVars
  BY DEF Next, AdminPart, AuthPart, LoginPart, ListenerPart, CandidatesPart, accessVars
<1>6. RInv' /\ Kinded' /\ Served'
  BY <1>1, StepRInv, StepKinded, StepServed DEF AccessInv
<1>7. AuthInv' /\ LInv' /\ ListenerInv'
  BY <1>2, <1>3, <1>4, StepAuthInv, StepLInv, StepListenerInv DEF AccessInv
<1>8. CInv' /\ CTypes'
  BY <1>5, StepCInv, StepCTypes DEF AccessInv
<1> QED
  BY <1>6, <1>7, <1>8 DEF AccessInv

\* Every variable of the five models of access and choice keeps its type when
\* they run side by side, whichever of them acts.
THEOREM AccessTypesCorrect == Spec => []AccessTypeOK
<1>1. AccessInv => AccessTypeOK
  BY AdminTyped, AuthTyped, LimiterTyped, ListenerTyped, CandidatesTyped DEF AccessInv, AccessTypeOK
<1> QED
  BY <1>1, InitAccess, StepAccess, PTL DEF Spec, accessVars
=============================================================================

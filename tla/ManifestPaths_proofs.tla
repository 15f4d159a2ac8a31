------------------------ MODULE ManifestPaths_proofs ------------------------
(***************************************************************************)
(* Theorems about the repair of a manifest's paths, for every list of      *)
(* paths of any names, and every limit on names and paths.                 *)
(***************************************************************************)
EXTENDS ManifestPaths, FiniteSetTheorems, SequenceTheorems, NaturalsInduction,
        WellFoundedInduction, TLAPS

-----------------------------------------------------------------------------
(* Induction on a step of a pass, and the ends of finite sets.             *)

\* A set that has 0 and, with each number, the next one, up to n.
LEMMA UpTo ==
    ASSUME NEW n \in Nat, NEW T, 0 \in T, \A i \in 0 .. n - 1 : i \in T => i + 1 \in T
    PROVE  0 .. n \subseteq T
<1> SUFFICES ASSUME NEW m \in 0 .. n, m \notin T PROVE FALSE
  OBVIOUS
<1> DEFINE Out == {i \in Nat : i <= n /\ i \notin T}
<1>1. Out \subseteq Nat /\ Out # {}
  OBVIOUS
<1>2. PICK x \in Out : \A y \in Out : ~(<<y, x>> \in OpToRel(<, Nat))
  BY <1>1, NatLessThanWellFounded, WFMin
<1>3. \A y \in Out : ~(y < x)
  BY <1>2 DEF OpToRel
<1>4. x # 0 /\ x - 1 \in 0 .. n - 1 /\ x - 1 \notin Out
  BY <1>3
<1> QED BY <1>4

\* The values after each of the steps h[1] .. h[n] from x0, and that they exist.
Stepping(n, X, x0, h) == n \in Nat /\ x0 \in X /\ h \in [1 .. n -> [X -> X]]

Values(f, n, X, x0, h) ==
    f \in [0 .. n -> X] /\ f[0] = x0 /\ \A i \in 1 .. n : f[i] = h[i][f[i - 1]]

LEMMA Steps ==
    ASSUME NEW n, NEW X, NEW x0, NEW h, Stepping(n, X, x0, h)
    PROVE  \E f : Values(f, n, X, x0, h)
<1>0. n \in Nat /\ x0 \in X /\ h \in [1 .. n -> [X -> X]]
  BY DEF Stepping
<1> DEFINE Good(f, m) == Values(f, m, X, x0, h)
           T == {m \in 0 .. n : \E f : Good(f, m)}
<1>1. 0 \in T
  <2>1. PICK f : f = [i \in 0 .. 0 |-> x0]
    OBVIOUS
  <2>2. Good(f, 0)
    BY <1>0, <2>1 DEF Values
  <2> HIDE DEF Good
  <2> QED BY <1>0, <2>2
<1>2. ASSUME NEW m \in 0 .. n - 1, m \in T PROVE m + 1 \in T
  <2>1. PICK f : Good(f, m)
    BY <1>2
  <2>0. m \in Nat /\ m + 1 \in 1 .. n
    BY <1>0
  <2>2. PICK g : g = [i \in 0 .. m + 1 |-> IF i <= m THEN f[i] ELSE h[m + 1][f[m]]]
    OBVIOUS
  <2>3. Good(g, m + 1)
    <3>1. h[m + 1] \in [X -> X] /\ f[m] \in X
      BY <1>0, <2>0, <2>1 DEF Values
    <3>2. h[m + 1][f[m]] \in X
      BY <3>1
    <3>3. g \in [0 .. m + 1 -> X]
      BY <2>0, <2>1, <2>2, <3>2 DEF Values
    <3>4. ASSUME NEW i \in 1 .. m + 1 PROVE g[i] = h[i][g[i - 1]]
      <4>1. CASE i = m + 1
        BY <2>0, <2>2, <4>1
      <4>2. CASE i <= m
        BY <2>0, <2>1, <2>2, <4>2 DEF Values
      <4> QED BY <2>0, <4>1, <4>2
    <3>5. g[0] = x0
      BY <2>0, <2>1, <2>2 DEF Values
    <3> QED BY <3>3, <3>4, <3>5 DEF Values
  <2> HIDE DEF Good
  <2> QED BY <1>0, <2>0, <2>3
<1>3. n \in T
  <2> HIDE DEF T
  <2>1. 0 .. n \subseteq T
    BY <1>0, <1>1, <1>2, UpTo
  <2> QED BY <1>0, <2>1
<1>4. PICK f : Good(f, n)
  BY <1>3
<1> QED BY <1>4

LEMMA MinIn ==
    ASSUME NEW S, S \subseteq Nat, S # {} PROVE Min(S) \in S /\ \A y \in S : Min(S) <= y
<1>1. PICK x \in S : \A y \in S : ~(<<y, x>> \in OpToRel(<, Nat))
  BY NatLessThanWellFounded, WFMin
<1>2. \A y \in S : ~(y < x)
  BY <1>1 DEF OpToRel
<1>3. \E z \in S : \A y \in S : z =< y
  BY <1>2
<1> QED BY <1>3 DEF Min

LEMMA MaxIn ==
    ASSUME NEW n \in Nat, NEW S, S \subseteq 0 .. n, S # {}
    PROVE  Max(S) \in S /\ \A y \in S : Max(S) >= y
<1> DEFINE R == {k \in Nat : n - k \in S}
<1>1. R \subseteq Nat /\ R # {}
  <2>1. PICK y \in S : TRUE
    OBVIOUS
  <2>2. n - y \in Nat /\ n - (n - y) = y
    BY <2>1
  <2> QED BY <2>1, <2>2
<1>2. Min(R) \in R /\ \A y \in R : Min(R) <= y
  <2> HIDE DEF R
  <2> QED BY <1>1, MinIn
<1>3. \E z \in S : \A y \in S : z >= y
  <2> DEFINE z == n - Min(R)
  <2>1. z \in S
    BY <1>2
  <2>2. ASSUME NEW y \in S PROVE z >= y
    <3>1. n - y \in Nat /\ n - (n - y) = y
      OBVIOUS
    <3>2. n - y \in R
      BY <3>1
    <3>3. Min(R) <= n - y /\ Min(R) \in Nat
      BY <1>2, <3>2
    <3> QED BY <3>1, <3>3
  <2> QED BY <2>1, <2>2
<1> QED BY <1>3 DEF Max

-----------------------------------------------------------------------------
(* The passes over a name.                                                 *)

TotalUpTo(sizes, f) ==
    /\ f \in [0 .. Len(sizes) -> Nat] /\ f[0] = 0
    /\ \A i \in 1 .. Len(sizes) : f[i] = f[i - 1] + sizes[i]

LEMMA TotalOf ==
    ASSUME NEW sizes \in Seq(Nat)
    PROVE  \E f : TotalUpTo(sizes, f) /\ Total(sizes) = f[Len(sizes)]
<1> DEFINE n == Len(sizes)
<1>0. n \in Nat /\ \A i \in 1 .. n : sizes[i] \in Nat
  OBVIOUS
<1> HIDE DEF n
<1>1. PICK h : h = [i \in 1 .. n |-> [x \in Nat |-> x + sizes[i]]]
  OBVIOUS
<1>2. PICK f : Values(f, n, Nat, 0, h)
  <2>1. h \in [1 .. n -> [Nat -> Nat]]
    <3>1. ASSUME NEW i \in 1 .. n PROVE [x \in Nat |-> x + sizes[i]] \in [Nat -> Nat]
      BY <1>0
    <3> QED BY <1>1, <3>1
  <2>2. Stepping(n, Nat, 0, h)
    BY <1>0, <2>1 DEF Stepping
  <2> QED BY <2>2, Steps
<1>3. f = [i \in 0 .. n |-> IF i = 0 THEN 0 ELSE f[i - 1] + sizes[i]]
  <2>1. ASSUME NEW i \in 0 .. n, i # 0 PROVE h[i][f[i - 1]] = f[i - 1] + sizes[i]
    <3>1. i \in 1 .. n /\ f[i - 1] \in Nat
      BY <1>0, <1>2, <2>1 DEF Values
    <3> QED BY <1>1, <3>1
  <2>2. ASSUME NEW i \in 0 .. n PROVE f[i] = IF i = 0 THEN 0 ELSE f[i - 1] + sizes[i]
    <3>1. CASE i = 0
      BY <1>2, <3>1 DEF Values
    <3>2. CASE i # 0
      <4>1. i \in 1 .. n
        BY <1>0, <3>2
      <4>2. f[i] = h[i][f[i - 1]]
        BY <1>2, <4>1 DEF Values
      <4> QED BY <2>1, <3>2, <4>2
    <3> QED BY <3>1, <3>2
  <2>3. f \in [0 .. n -> Nat]
    BY <1>2 DEF Values
  <2> QED BY <2>2, <2>3
<1> DEFINE e == CHOOSE g : g = [i \in 0 .. n |-> IF i = 0 THEN 0 ELSE g[i - 1] + sizes[i]]
<1>4. e = [i \in 0 .. n |-> IF i = 0 THEN 0 ELSE e[i - 1] + sizes[i]]
  BY <1>3
<1>5. Total(sizes) = e[n]
  BY DEF Total, n
<1> HIDE DEF e
<1>6. e \in [0 .. n -> Nat]
  <2> DEFINE T == {i \in 0 .. n : e[i] \in Nat}
  <2>0. ASSUME NEW i \in 0 .. n PROVE e[i] = IF i = 0 THEN 0 ELSE e[i - 1] + sizes[i]
    BY <1>4
  <2>1. 0 \in T
    BY <1>0, <2>0
  <2>2. ASSUME NEW i \in 0 .. n - 1, i \in T PROVE i + 1 \in T
    <3>1. i + 1 \in 0 .. n /\ i + 1 # 0 /\ i + 1 \in 1 .. n /\ (i + 1) - 1 = i
      BY <1>0
    <3>2. e[i + 1] = e[i] + sizes[i + 1]
      BY <2>0, <3>1
    <3> QED BY <1>0, <2>2, <3>1, <3>2
  <2>3. 0 .. n \subseteq T
    <3> HIDE DEF T
    <3> QED BY <1>0, <2>1, <2>2, UpTo
  <2> QED BY <1>4, <2>3
<1>7. e[0] = 0 /\ \A i \in 1 .. n : e[i] = e[i - 1] + sizes[i]
  BY <1>0, <1>4
<1>8. TotalUpTo(sizes, e)
  BY <1>6, <1>7 DEF n, TotalUpTo
<1> QED BY <1>5, <1>8 DEF n

\* What is kept of the first i elements.
KeptUpTo(s, x, S, f) ==
    /\ f \in [0 .. Len(s) -> Seq(S)] /\ f[0] = <<>>
    /\ \A i \in 1 .. Len(s) : f[i] = IF s[i] = x THEN f[i - 1] ELSE Append(f[i - 1], s[i])

LEMMA WithoutOf ==
    ASSUME NEW S, NEW s \in Seq(S), NEW x
    PROVE  \E f : KeptUpTo(s, x, S, f) /\ Without(s, x) = f[Len(s)]
<1> DEFINE n == Len(s)
           Step(i, v) == IF s[i] = x THEN v ELSE Append(v, s[i])
<1>0. n \in Nat /\ \A i \in 1 .. n : s[i] \in S
  OBVIOUS
<1>s. ASSUME NEW i \in 1 .. n, NEW v \in Seq(S) PROVE Step(i, v) \in Seq(S)
  BY <1>0
<1> HIDE DEF n
<1>1. PICK h : h = [i \in 1 .. n |-> [v \in Seq(S) |-> Step(i, v)]]
  OBVIOUS
<1>e. <<>> \in Seq(S)
  OBVIOUS
<1>2. PICK f : Values(f, n, Seq(S), <<>>, h)
  <2>1. h \in [1 .. n -> [Seq(S) -> Seq(S)]]
    <3>1. ASSUME NEW i \in 1 .. n PROVE [v \in Seq(S) |-> Step(i, v)] \in [Seq(S) -> Seq(S)]
      BY <1>s
    <3> HIDE DEF Step
    <3> QED BY <1>1, <3>1
  <2>2. Stepping(n, Seq(S), <<>>, h)
    BY <1>0, <1>e, <2>1 DEF Stepping
  <2> QED BY <2>2, Steps
<1>3. f = [i \in 0 .. n |-> IF i = 0 THEN <<>> ELSE Step(i, f[i - 1])]
  <2> HIDE DEF Step
  <2>1. ASSUME NEW i \in 0 .. n, i # 0 PROVE h[i][f[i - 1]] = Step(i, f[i - 1])
    <3>1. i \in 1 .. n /\ i - 1 \in 0 .. n
      BY <1>0, <2>1
    <3>2. f[i - 1] \in Seq(S)
      BY <1>2, <3>1 DEF Values
    <3> QED BY <1>1, <3>1, <3>2
  <2>2. ASSUME NEW i \in 0 .. n PROVE f[i] = IF i = 0 THEN <<>> ELSE Step(i, f[i - 1])
    <3>1. CASE i = 0
      BY <1>2, <3>1 DEF Values
    <3>2. CASE i # 0
      <4>1. i \in 1 .. n
        BY <1>0, <3>2
      <4>2. f[i] = h[i][f[i - 1]]
        BY <1>2, <4>1 DEF Values
      <4> QED BY <2>1, <3>2, <4>2
    <3> QED BY <3>1, <3>2
  <2>3. f \in [0 .. n -> Seq(S)]
    BY <1>2 DEF Values
  <2> QED BY <2>2, <2>3
<1> DEFINE e == CHOOSE g : g = [i \in 0 .. n |->
                    IF i = 0 THEN <<>>
                    ELSE IF s[i] = x THEN g[i - 1] ELSE Append(g[i - 1], s[i])]
<1>4. e = [i \in 0 .. n |-> IF i = 0 THEN <<>> ELSE Step(i, e[i - 1])]
  BY <1>3
<1>5. Without(s, x) = e[n]
  BY DEF Without, n
<1> HIDE DEF e
<1>6. e \in [0 .. n -> Seq(S)]
  <2> DEFINE T == {i \in 0 .. n : e[i] \in Seq(S)}
  <2> HIDE DEF Step
  <2>0. ASSUME NEW i \in 0 .. n PROVE e[i] = IF i = 0 THEN <<>> ELSE Step(i, e[i - 1])
    BY <1>4
  <2>1. 0 \in T
    <3>1. e[0] = <<>>
      BY <1>0, <2>0
    <3>2. 0 \in 0 .. n
      BY <1>0
    <3> HIDE DEF Step
    <3> QED BY <1>e, <3>1, <3>2
  <2>2. ASSUME NEW i \in 0 .. n - 1, i \in T PROVE i + 1 \in T
    <3>1. i + 1 \in 0 .. n /\ i + 1 # 0 /\ i + 1 \in 1 .. n /\ (i + 1) - 1 = i
      BY <1>0
    <3>2. e[i + 1] = Step(i + 1, e[i])
      BY <2>0, <3>1
    <3>3. Step(i + 1, e[i]) \in Seq(S)
      BY <1>s, <2>2, <3>1
    <3> QED BY <3>1, <3>2, <3>3
  <2>3. 0 .. n \subseteq T
    <3> HIDE DEF T
    <3> QED BY <1>0, <2>1, <2>2, UpTo
  <2> QED BY <1>4, <2>3
<1>7. e[0] = <<>> /\ \A i \in 1 .. n : e[i] = Step(i, e[i - 1])
  <2> HIDE DEF Step
  <2> QED BY <1>0, <1>4
<1>8. KeptUpTo(s, x, S, e)
  BY <1>6, <1>7 DEF n, KeptUpTo
<1> QED BY <1>5, <1>8 DEF n

LEMMA TotalIs ==
    ASSUME NEW sizes \in Seq(Nat)
    PROVE  /\ Total(sizes) \in Nat
           /\ sizes = <<>> => Total(sizes) = 0
           /\ Len(sizes) > 0 => Total(sizes) >= sizes[Len(sizes)]
           /\ Len(sizes) = 1 => Total(sizes) = sizes[1]
<1>1. PICK f : TotalUpTo(sizes, f) /\ Total(sizes) = f[Len(sizes)]
  BY TotalOf
<1>2. Len(sizes) \in Nat /\ \A i \in 1 .. Len(sizes) : sizes[i] \in Nat
  OBVIOUS
<1>3. \A i \in 0 .. Len(sizes) : f[i] \in Nat
  BY <1>1 DEF TotalUpTo
<1>4. f[0] = 0 /\ \A i \in 1 .. Len(sizes) : f[i] = f[i - 1] + sizes[i]
  BY <1>1 DEF TotalUpTo
<1>5. ASSUME Len(sizes) > 0 PROVE f[Len(sizes)] >= sizes[Len(sizes)]
  <2>1. Len(sizes) \in 1 .. Len(sizes) /\ Len(sizes) - 1 \in 0 .. Len(sizes)
    BY <1>2, <1>5
  <2> QED BY <1>2, <1>3, <1>4, <2>1, SMTT(30)
<1> QED BY <1>1, <1>2, <1>3, <1>4, <1>5

LEMMA TotalConcat ==
    ASSUME NEW s \in Seq(Nat), NEW t \in Seq(Nat)
    PROVE  Total(s \o t) = Total(s) + Total(t)
<1>1. PICK f : TotalUpTo(s, f) /\ Total(s) = f[Len(s)]
  BY TotalOf
<1>2. PICK g : TotalUpTo(t, g) /\ Total(t) = g[Len(t)]
  BY TotalOf
<1>3. s \o t \in Seq(Nat) /\ Len(s \o t) = Len(s) + Len(t)
  OBVIOUS
<1>4. PICK h : TotalUpTo(s \o t, h) /\ Total(s \o t) = h[Len(s \o t)]
  BY <1>3, TotalOf
<1>n. Len(s) \in Nat /\ Len(t) \in Nat
  OBVIOUS
<1>5. \A i \in 0 .. Len(s) : h[i] = f[i]
  <2> DEFINE T == {i \in 0 .. Len(s) : h[i] = f[i]}
  <2>1. 0 \in T
    BY <1>1, <1>4, <1>n DEF TotalUpTo
  <2>2. ASSUME NEW i \in 0 .. Len(s) - 1, i \in T PROVE i + 1 \in T
    <3>1. i + 1 \in 1 .. Len(s) /\ i + 1 \in 1 .. Len(s \o t) /\ (i + 1) - 1 = i
      BY <1>3, <1>n
    <3>2. (s \o t)[i + 1] = s[i + 1]
      BY <3>1, <1>n, ConcatProperties
    <3>3. h[i + 1] = h[i] + (s \o t)[i + 1] /\ f[i + 1] = f[i] + s[i + 1]
      BY <1>1, <1>4, <3>1 DEF TotalUpTo
    <3> QED BY <2>2, <3>1, <3>2, <3>3
  <2> HIDE DEF T
  <2>3. 0 .. Len(s) \subseteq T
    BY <1>n, <2>1, <2>2, UpTo
  <2> QED BY <2>3 DEF T
<1>6. \A i \in 0 .. Len(t) : h[Len(s) + i] = f[Len(s)] + g[i]
  <2> DEFINE T == {i \in 0 .. Len(t) : h[Len(s) + i] = f[Len(s)] + g[i]}
  <2>0. \A i \in 0 .. Len(t) : g[i] \in Nat /\ f[Len(s)] \in Nat
    BY <1>1, <1>2, <1>n DEF TotalUpTo
  <2>1. 0 \in T
    <3>1. g[0] = 0 /\ h[Len(s)] = f[Len(s)] /\ f[Len(s)] \in Nat
      BY <1>2, <1>5, <1>n, <2>0 DEF TotalUpTo
    <3> QED BY <1>n, <3>1
  <2>2. ASSUME NEW i \in 0 .. Len(t) - 1, i \in T PROVE i + 1 \in T
    <3>0. i \in Nat /\ Len(s) + (i + 1) - 1 = Len(s) + i /\ i \in 0 .. Len(t)
      BY <1>n
    <3>1. i + 1 \in 1 .. Len(t) /\ Len(s) + (i + 1) \in 1 .. Len(s \o t) /\ (i + 1) - 1 = i
      BY <1>3, <1>n
    <3>2. (s \o t)[Len(s) + (i + 1)] = t[i + 1]
      BY <3>1, <1>3, <1>n, ConcatProperties
    <3>3. h[Len(s) + (i + 1)] = h[Len(s) + i] + t[i + 1]
      <4>1. h[Len(s) + (i + 1)] = h[Len(s) + (i + 1) - 1] + (s \o t)[Len(s) + (i + 1)]
        <5>1. PICK j \in 1 .. Len(s \o t) : j = Len(s) + (i + 1)
          BY <3>1
        <5>2. h[j] = h[j - 1] + (s \o t)[j]
          BY <1>4 DEF TotalUpTo
        <5> QED BY <5>1, <5>2
      <4> QED BY <3>0, <3>2, <4>1
    <3>4. g[i + 1] = g[i] + t[i + 1] /\ t[i + 1] \in Nat
      BY <1>2, <3>1 DEF TotalUpTo
    <3> QED BY <2>0, <2>2, <3>0, <3>1, <3>3, <3>4
  <2> HIDE DEF T
  <2>3. 0 .. Len(t) \subseteq T
    BY <1>n, <2>1, <2>2, UpTo
  <2> QED BY <2>3 DEF T
<1> QED BY <1>1, <1>2, <1>3, <1>4, <1>6, <1>n

-----------------------------------------------------------------------------
(* The sizes of names and paths.                                           *)

SymbolSizes(name) == [i \in DOMAIN name |-> 1 + name[i].width]
NameSizes(path) == [i \in DOMAIN path |-> 1 + Size(path[i])]

LEMMA SymbolSizesOf ==
    ASSUME NEW name \in Seq(Symbol)
    PROVE  /\ SymbolSizes(name) \in Seq(Nat) /\ Len(SymbolSizes(name)) = Len(name)
           /\ \A i \in 1 .. Len(name) : SymbolSizes(name)[i] = 1 + name[i].width
           /\ \A i \in 1 .. Len(name) : name[i] \in Symbol /\ name[i].width \in Nat
           /\ Size(name) = Total(SymbolSizes(name))
<1>1. \A i \in 1 .. Len(name) : name[i] \in Symbol /\ name[i].width \in Nat
  <2>1. \A i \in 1 .. Len(name) : name[i] \in Symbol
    BY ElementOfSeq
  <2>2. \A symbol \in Symbol : symbol.width \in Nat
    BY DEF Symbol
  <2> QED BY <2>1, <2>2
<1>2. DOMAIN name = 1 .. Len(name) /\ Len(name) \in Nat
  OBVIOUS
<1>3. [i \in 1 .. Len(name) |-> 1 + name[i].width] \in [1 .. Len(name) -> Nat]
  BY <1>1
<1>4. SymbolSizes(name) \in [1 .. Len(name) -> Nat]
  BY <1>2, <1>3 DEF SymbolSizes
<1>5. SymbolSizes(name) \in Seq(Nat) /\ Len(SymbolSizes(name)) = Len(name)
  BY <1>2, <1>4
<1> QED BY <1>1, <1>2, <1>5 DEF SymbolSizes, Size

LEMMA SizeIs ==
    ASSUME NEW name \in Seq(Symbol)
    PROVE  Size(name) \in Nat /\ (name = <<>> => Size(name) = 0) /\ (name # <<>> => Size(name) >= 1)
<1> DEFINE s == SymbolSizes(name)
<1>1. s \in Seq(Nat) /\ Len(s) = Len(name) /\ Size(name) = Total(s)
  BY SymbolSizesOf
<1>2. name # <<>> => Len(name) > 0 /\ s[Len(name)] = 1 + name[Len(name)].width /\ s[Len(name)] \in Nat /\ name[Len(name)].width \in Nat
  <2>1. name # <<>> => Len(name) > 0 /\ Len(name) \in 1 .. Len(name)
    OBVIOUS
  <2> QED BY <1>1, <2>1, SymbolSizesOf
<1>3. name = <<>> => s = <<>>
  BY <1>1
<1> HIDE DEF s
<1>4. Total(s) \in Nat /\ (s = <<>> => Total(s) = 0) /\ (Len(s) > 0 => Total(s) >= s[Len(s)])
  BY <1>1, TotalIs
<1> QED BY <1>1, <1>2, <1>3, <1>4

LEMMA SizeOne ==
    ASSUME NEW symbol \in Symbol
    PROVE  <<symbol>> \in Seq(Symbol) /\ Size(<<symbol>>) = 1 + symbol.width
<1> DEFINE one == <<symbol>>
<1>1. one \in Seq(Symbol) /\ Len(one) = 1 /\ one[1] = symbol
  OBVIOUS
<1> HIDE DEF one
<1> DEFINE s == SymbolSizes(one)
<1>2. s \in Seq(Nat) /\ Len(s) = 1 /\ s[1] = 1 + symbol.width /\ Size(one) = Total(s)
  BY <1>1, SymbolSizesOf
<1> HIDE DEF s
<1>3. Total(s) = s[1]
  BY <1>2, TotalIs
<1> QED BY <1>1, <1>2, <1>3 DEF one

LEMMA SizeConcat ==
    ASSUME NEW x \in Seq(Symbol), NEW y \in Seq(Symbol)
    PROVE  Size(x \o y) = Size(x) + Size(y)
<1> DEFINE s == SymbolSizes(x)
           t == SymbolSizes(y)
           u == SymbolSizes(x \o y)
<1>0. x \o y \in Seq(Symbol) /\ Len(x \o y) = Len(x) + Len(y) /\ Len(x) \in Nat /\ Len(y) \in Nat
  OBVIOUS
<1>1. s \in Seq(Nat) /\ Len(s) = Len(x) /\ Size(x) = Total(s)
  BY SymbolSizesOf
<1>2. t \in Seq(Nat) /\ Len(t) = Len(y) /\ Size(y) = Total(t)
  BY SymbolSizesOf
<1>3. u \in Seq(Nat) /\ Len(u) = Len(x \o y) /\ Size(x \o y) = Total(u)
  BY <1>0, SymbolSizesOf
<1>4. s \o t \in Seq(Nat) /\ Len(s \o t) = Len(s) + Len(t)
  <2> HIDE DEF s, t
  <2> QED BY <1>1, <1>2, ConcatProperties
<1>5. ASSUME NEW i \in 1 .. Len(u) PROVE u[i] = (s \o t)[i]
  <2>1. u[i] = 1 + (x \o y)[i].width
    BY <1>0, <1>3, SymbolSizesOf
  <2>2. (s \o t)[i] = IF i <= Len(s) THEN s[i] ELSE t[i - Len(s)]
    <3> HIDE DEF s, t, u
    <3> QED BY <1>0, <1>1, <1>2, <1>3, ConcatProperties, SMTT(30)
  <2>3. (x \o y)[i] = IF i <= Len(x) THEN x[i] ELSE y[i - Len(x)]
    BY <1>0, <1>3, ConcatProperties
  <2>4. CASE i <= Len(x)
    <3>1. i \in 1 .. Len(x)
      BY <1>0, <1>3, <2>4
    <3> QED BY <1>1, <2>1, <2>2, <2>3, <2>4, <3>1, SymbolSizesOf
  <2>5. CASE ~(i <= Len(x))
    <3>1. i - Len(x) \in 1 .. Len(y)
      BY <1>0, <1>3, <2>5
    <3> QED BY <1>1, <2>1, <2>2, <2>3, <2>5, <3>1, SymbolSizesOf
  <2> QED BY <2>4, <2>5
<1> HIDE DEF s, t, u
<1>6. u = s \o t
  BY <1>0, <1>1, <1>2, <1>3, <1>4, <1>5, SeqEqual
<1> QED BY <1>1, <1>2, <1>3, <1>6, TotalConcat

-----------------------------------------------------------------------------
(* What is left of a name or a path without some element.                  *)

Lacks(s, x) == \A k \in 1 .. Len(s) : s[k] # x

LEMMA WithoutIs ==
    ASSUME NEW S, NEW s \in Seq(S), NEW x
    PROVE  /\ Without(s, x) \in Seq(S) /\ Lacks(Without(s, x), x)
           /\ Lacks(s, x) => Without(s, x) = s
<1>1. PICK f : KeptUpTo(s, x, S, f) /\ Without(s, x) = f[Len(s)]
  BY WithoutOf
<1>2. /\ f[0] = <<>> /\ \A i \in 0 .. Len(s) : f[i] \in Seq(S)
      /\ \A i \in 1 .. Len(s) : f[i] = IF s[i] = x THEN f[i - 1] ELSE Append(f[i - 1], s[i])
  BY <1>1 DEF KeptUpTo
<1>n. Len(s) \in Nat /\ \A i \in 1 .. Len(s) : s[i] \in S
  OBVIOUS
<1>3. ASSUME NEW i \in 0 .. Len(s) - 1
      PROVE  f[i + 1] = (IF s[i + 1] = x THEN f[i] ELSE Append(f[i], s[i + 1])) /\ f[i] \in Seq(S)
             /\ i + 1 \in 0 .. Len(s) /\ i \in 0 .. Len(s) /\ i + 1 \in 1 .. Len(s)
  <2>1. i + 1 \in 1 .. Len(s) /\ (i + 1) - 1 = i /\ i \in 0 .. Len(s)
    BY <1>n
  <2> QED BY <1>2, <2>1
<1>4. \A i \in 0 .. Len(s) : Lacks(f[i], x)
  <2> DEFINE T == {i \in 0 .. Len(s) : Lacks(f[i], x)}
  <2>1. 0 \in T
    BY <1>2, <1>n DEF Lacks
  <2>2. ASSUME NEW i \in 0 .. Len(s) - 1, i \in T PROVE i + 1 \in T
    <3>1. CASE s[i + 1] = x
      BY <1>3, <2>2, <3>1
    <3>2. CASE s[i + 1] # x
      <4>1. f[i + 1] = Append(f[i], s[i + 1]) /\ f[i] \in Seq(S) /\ s[i + 1] \in S
        BY <1>3, <1>n, <3>2
      <4>2. Lacks(Append(f[i], s[i + 1]), x)
        BY <2>2, <3>2, <4>1, AppendProperties DEF Lacks
      <4> QED BY <1>3, <4>1, <4>2
    <3> QED BY <3>1, <3>2
  <2> HIDE DEF T
  <2>3. 0 .. Len(s) \subseteq T
    BY <1>n, <2>1, <2>2, UpTo
  <2> QED BY <2>3 DEF T
<1>5. ASSUME Lacks(s, x) PROVE f[Len(s)] = s
  <2> DEFINE T == {i \in 0 .. Len(s) : Len(f[i]) = i /\ \A k \in 1 .. i : f[i][k] = s[k]}
  <2>1. 0 \in T
    BY <1>2, <1>n
  <2>2. ASSUME NEW i \in 0 .. Len(s) - 1, i \in T PROVE i + 1 \in T
    <3>1. f[i + 1] = Append(f[i], s[i + 1]) /\ f[i] \in Seq(S) /\ s[i + 1] \in S /\ i + 1 \in 0 .. Len(s)
      BY <1>3, <1>5, <1>n DEF Lacks
    <3>2. Len(f[i]) = i /\ \A k \in 1 .. i : f[i][k] = s[k]
      BY <2>2
    <3>3. Len(f[i + 1]) = i + 1
      BY <3>1, <3>2, AppendProperties
    <3>4. ASSUME NEW k \in 1 .. i + 1 PROVE f[i + 1][k] = s[k]
      <4>1. CASE k = i + 1
        BY <3>1, <3>2, <4>1, AppendProperties
      <4>2. CASE k # i + 1
        <5>1. k \in 1 .. i
          BY <1>n, <4>2
        <5> QED BY <3>1, <3>2, <5>1, AppendProperties
      <4> QED BY <4>1, <4>2
    <3> QED BY <3>1, <3>3, <3>4
  <2>3. 0 .. Len(s) \subseteq T
    <3> HIDE DEF T
    <3> QED BY <1>n, <2>1, <2>2, UpTo
  <2>4. Len(f[Len(s)]) = Len(s) /\ f[Len(s)] \in Seq(S) /\ \A k \in 1 .. Len(s) : f[Len(s)][k] = s[k]
    BY <1>2, <1>n, <2>3
  <2> QED BY <2>4, SeqEqual
<1>6. Len(s) \in 0 .. Len(s)
  BY <1>n
<1> QED BY <1>1, <1>2, <1>4, <1>5, <1>6

\* What portable_component drops makes no name longer.
LEMMA PortableIs ==
    ASSUME NEW name \in Seq(Symbol)
    PROVE  /\ Portable(name) \in Seq(Symbol) /\ Lacks(Portable(name), Dropped)
           /\ Lacks(name, Dropped) => Portable(name) = name
           /\ Size(Portable(name)) <= Size(name)
<1>0. /\ Portable(name) \in Seq(Symbol) /\ Lacks(Portable(name), Dropped)
      /\ Lacks(name, Dropped) => Portable(name) = name
  BY WithoutIs DEF Portable
<1>1. PICK f : KeptUpTo(name, Dropped, Symbol, f) /\ Portable(name) = f[Len(name)]
  BY WithoutOf DEF Portable
<1> DEFINE s == SymbolSizes(name)
<1>2. s \in Seq(Nat) /\ Len(s) = Len(name) /\ Size(name) = Total(s)
  BY SymbolSizesOf
<1>3. \A i \in 1 .. Len(name) : s[i] = 1 + name[i].width /\ name[i] \in Symbol /\ name[i].width \in Nat
  BY SymbolSizesOf
<1> HIDE DEF s
<1>4. PICK g : TotalUpTo(s, g) /\ Total(s) = g[Len(s)]
  BY <1>2, TotalOf
<1>n. Len(name) \in Nat
  OBVIOUS
<1>5. \A i \in 0 .. Len(name) : Size(f[i]) <= g[i]
  <2> DEFINE T == {i \in 0 .. Len(name) : Size(f[i]) <= g[i]}
  <2>1. 0 \in T
    <3>1. f[0] = <<>> /\ g[0] = 0 /\ <<>> \in Seq(Symbol)
      BY <1>1, <1>4 DEF KeptUpTo, TotalUpTo
    <3>2. Size(<<>>) = 0
      BY <3>1, SizeIs
    <3> QED BY <1>n, <3>1, <3>2
  <2>2. ASSUME NEW i \in 0 .. Len(name) - 1, i \in T PROVE i + 1 \in T
    <3>1. i + 1 \in 1 .. Len(name) /\ i + 1 \in 0 .. Len(name) /\ (i + 1) - 1 = i /\ i \in 0 .. Len(name)
      BY <1>n
    <3>2. f[i] \in Seq(Symbol) /\ f[i + 1] = IF name[i + 1] = Dropped THEN f[i] ELSE Append(f[i], name[i + 1])
      BY <1>1, <3>1 DEF KeptUpTo
    <3>3. g[i + 1] = g[i] + s[i + 1] /\ g[i] \in Nat
      BY <1>2, <1>4, <3>1 DEF TotalUpTo
    <3>4. s[i + 1] = 1 + name[i + 1].width /\ name[i + 1] \in Symbol /\ name[i + 1].width \in Nat
      BY <1>3, <3>1
    <3>5. Size(f[i]) \in Nat
      BY <3>2, SizeIs
    <3>6. CASE name[i + 1] = Dropped
      BY <2>2, <3>1, <3>2, <3>3, <3>4, <3>5, <3>6
    <3>7. CASE name[i + 1] # Dropped
      <4>1. f[i + 1] = f[i] \o <<name[i + 1]>>
        <5>1. f[i + 1] = Append(f[i], name[i + 1])
          BY <3>2, <3>7
        <5> QED BY <3>2, <3>4, <5>1, AppendIsConcat
      <4>2. <<name[i + 1]>> \in Seq(Symbol) /\ Size(<<name[i + 1]>>) = 1 + name[i + 1].width
        BY <3>4, SizeOne
      <4>3. Size(f[i + 1]) = Size(f[i]) + (1 + name[i + 1].width)
        BY <3>2, <4>1, <4>2, SizeConcat
      <4> QED BY <2>2, <3>1, <3>3, <3>4, <3>5, <4>3
    <3> QED BY <3>6, <3>7
  <2> HIDE DEF T
  <2>3. 0 .. Len(name) \subseteq T
    BY <1>n, <2>1, <2>2, UpTo
  <2> QED BY <2>3 DEF T
<1>6. Len(name) \in 0 .. Len(name)
  BY <1>n
<1> QED BY <1>0, <1>1, <1>2, <1>4, <1>5, <1>6

-----------------------------------------------------------------------------
(* A name fitted into its room, and a name with a number in it.            *)

\* The parts of a name: what stands before its last extension and the rest, or
\* the whole of it.
IsSplit(name, stem, ext) ==
    /\ stem \in Seq(Symbol) /\ ext \in Seq(Symbol) /\ Len(stem) <= Len(name)
    /\ \A k \in 1 .. Len(stem) : stem[k] = name[k]
    /\ \A k \in 1 .. Len(ext) : \E j \in 1 .. Len(name) : ext[k] = name[j]
    /\ ext = <<>> => stem = name
    /\ ext # <<>> => ext[1] = Extension
    /\ \A k \in 2 .. Len(ext) : ext[k] # Extension

LEMMA SplitIs ==
    ASSUME NEW name \in Seq(Symbol), NEW suffix, NEW max
    PROVE  IsSplit(name, SplitAt(name, suffix, max).stem, SplitAt(name, suffix, max).ext)
<1> DEFINE dots == {i \in DOMAIN name : name[i] = Extension}
           dot  == Max(dots)
           tail == SubSeq(name, dot, Len(name))
           fine == dots # {} /\ dot > 1 /\ Size(tail) + Size(suffix) < max
<1>1. SplitAt(name, suffix, max) = IF fine THEN [stem |-> Cut(name, dot - 1), ext |-> tail]
                                           ELSE [stem |-> name, ext |-> <<>>]
  BY DEF SplitAt
<1>n. Len(name) \in Nat /\ \A i \in 1 .. Len(name) : name[i] \in Symbol
  OBVIOUS
<1>2. CASE ~fine
  <2>1. SplitAt(name, suffix, max).stem = name /\ SplitAt(name, suffix, max).ext = <<>>
    <3> HIDE DEF fine
    <3> QED BY <1>1, <1>2
  <2>2. IsSplit(name, name, <<>>)
    BY <1>n DEF IsSplit
  <2> QED BY <2>1, <2>2
<1>3. CASE fine
  <2>1. SplitAt(name, suffix, max).stem = Cut(name, dot - 1) /\ SplitAt(name, suffix, max).ext = tail
    <3> HIDE DEF fine, dot, tail
    <3> QED BY <1>1, <1>3
  <2>2. dots \subseteq 0 .. Len(name) /\ dots # {} /\ dot > 1
    BY <1>3, <1>n
  <2>3. dot \in dots /\ \A y \in dots : dot >= y
    <3> HIDE DEF dots
    <3> QED BY <1>n, <2>2, MaxIn
  <2>4. dot \in 1 .. Len(name) /\ dot \in Nat /\ name[dot] = Extension
        /\ \A k \in 1 .. Len(name) : k > dot => name[k] # Extension
    <3> HIDE DEF dot
    <3>1. dot \in 1 .. Len(name) /\ dot \in Nat /\ name[dot] = Extension
      BY <2>3
    <3>2. ASSUME NEW k \in 1 .. Len(name), k > dot PROVE name[k] # Extension
      <4>1. k \notin dots
        <5> HIDE DEF dots
        <5> QED BY <2>3, <3>1, <3>2
      <4> QED BY <4>1
    <3> QED BY <3>1, <3>2
  <2> HIDE DEF dots, dot
  <2>5. /\ Cut(name, dot - 1) \in Seq(Symbol) /\ Len(Cut(name, dot - 1)) = dot - 1
        /\ \A k \in 1 .. dot - 1 : Cut(name, dot - 1)[k] = name[k]
    BY <1>n, <2>2, <2>4, SubSeqProperties DEF Cut
  <2>6. /\ tail \in Seq(Symbol) /\ Len(tail) = Len(name) - dot + 1
        /\ \A k \in 1 .. Len(name) - dot + 1 : tail[k] = name[dot + k - 1]
    BY <1>n, <2>4, SubSeqProperties
  <2> HIDE DEF tail
  <2>7. tail # <<>> /\ tail[1] = Extension
    <3>1. Len(tail) # 0 /\ 1 \in 1 .. Len(name) - dot + 1 /\ dot + 1 - 1 = dot
      BY <1>n, <2>4, <2>6
    <3> QED BY <2>4, <2>6, <3>1
  <2>8. ASSUME NEW k \in 1 .. Len(tail)
        PROVE  /\ dot + k - 1 \in 1 .. Len(name) /\ tail[k] = name[dot + k - 1]
               /\ k # 1 => tail[k] # Extension
    <3>1. dot + k - 1 \in 1 .. Len(name) /\ k \in 1 .. Len(name) - dot + 1 /\ (k # 1 => dot + k - 1 > dot)
      BY <1>n, <2>4, <2>6
    <3> QED BY <2>4, <2>6, <3>1
  <2>9. IsSplit(name, Cut(name, dot - 1), tail)
    <3>1. \A k \in 1 .. Len(tail) : \E j \in 1 .. Len(name) : tail[k] = name[j]
      BY <2>8
    <3>2. \A k \in 2 .. Len(tail) : tail[k] # Extension
      BY <2>8, <2>6, <1>n
    <3>3. Len(Cut(name, dot - 1)) <= Len(name)
      BY <1>n, <2>4, <2>5
    <3> QED BY <2>5, <2>6, <2>7, <3>1, <3>2, <3>3 DEF IsSplit
  <2> QED BY <2>1, <2>9
<1> QED BY <1>2, <1>3

\* What Fit tries for each number of symbols of the stem.
Candidate(stem, keep, suffix, ext) == (Cut(stem, keep) \o suffix) \o ext

LEMMA CandidateIs ==
    ASSUME NEW stem \in Seq(Symbol), NEW keep \in 0 .. Len(stem),
           NEW suffix \in Seq(Symbol), NEW ext \in Seq(Symbol)
    PROVE  /\ Cut(stem, keep) \in Seq(Symbol) /\ Len(Cut(stem, keep)) = keep
           /\ \A k \in 1 .. keep : Cut(stem, keep)[k] = stem[k]
           /\ Candidate(stem, keep, suffix, ext) \in Seq(Symbol)
           /\ Size(Candidate(stem, keep, suffix, ext)) =
                 Size(Cut(stem, keep)) + Size(suffix) + Size(ext)
<1> DEFINE cut == Cut(stem, keep)
<1>n. Len(stem) \in Nat /\ keep \in Nat /\ \A i \in 1 .. Len(stem) : stem[i] \in Symbol
  OBVIOUS
<1>1. cut \in Seq(Symbol) /\ Len(cut) = keep /\ \A k \in 1 .. keep : cut[k] = stem[k]
  <2>1. \A i \in 1 .. keep : stem[i] \in Symbol
    BY <1>n
  <2>2. /\ SubSeq(stem, 1, keep) \in Seq(Symbol)
        /\ Len(SubSeq(stem, 1, keep)) = (IF 1 <= keep THEN keep - 1 + 1 ELSE 0)
        /\ \A i \in 1 .. keep - 1 + 1 : SubSeq(stem, 1, keep)[i] = stem[1 + i - 1]
    BY <1>n, <2>1, SubSeqProperties
  <2> QED BY <1>n, <2>2 DEF Cut
<1> HIDE DEF cut
<1>2. cut \o suffix \in Seq(Symbol) /\ (cut \o suffix) \o ext \in Seq(Symbol)
  BY <1>1, ConcatProperties
<1>3. Size((cut \o suffix) \o ext) = (Size(cut) + Size(suffix)) + Size(ext)
  BY <1>1, <1>2, SizeConcat, ZenonT(30)
<1> QED BY <1>1, <1>2, <1>3 DEF Candidate, cut

LEMMA FitIs ==
    ASSUME NEW name \in Seq(Symbol), NEW suffix \in Seq(Symbol), NEW max \in Nat
    PROVE  /\ Fit(name, suffix, max) \in Seq(Symbol) /\ Lacks(Fit(name, suffix, max), Dropped)
           /\ Size(Fit(name, suffix, max)) <= max
<1> DEFINE parts == SplitAt(name, suffix, max)
           candidate(keep) == Portable(Candidate(parts.stem, keep, suffix, parts.ext))
           fits == {keep \in 0 .. Len(parts.stem) :
                      /\ Size(Cut(parts.stem, keep)) + Size(suffix) + Size(parts.ext) <= max
                      /\ candidate(keep) # <<>>}
<1>1. Fit(name, suffix, max) = IF fits = {} THEN <<>> ELSE candidate(Max(fits))
  BY DEF Fit, Candidate
<1>2. IsSplit(name, parts.stem, parts.ext)
  BY SplitIs
<1> HIDE DEF parts
<1>3. parts.stem \in Seq(Symbol) /\ parts.ext \in Seq(Symbol) /\ Len(parts.stem) \in Nat
  BY <1>2 DEF IsSplit
<1>4. CASE fits = {}
  <2>1. Fit(name, suffix, max) = <<>> /\ <<>> \in Seq(Symbol) /\ Lacks(<<>>, Dropped)
    BY <1>1, <1>4 DEF Lacks
  <2>2. Size(<<>>) = 0
    BY <2>1, SizeIs
  <2> QED BY <2>1, <2>2
<1>5. CASE fits # {}
  <2> DEFINE keep == Max(fits)
  <2>1. fits \subseteq 0 .. Len(parts.stem)
    OBVIOUS
  <2>2. keep \in fits
    <3> HIDE DEF fits
    <3> QED BY <1>3, <1>5, <2>1, MaxIn
  <2>3. keep \in 0 .. Len(parts.stem)
        /\ Size(Cut(parts.stem, keep)) + Size(suffix) + Size(parts.ext) <= max
    <3> HIDE DEF keep
    <3> QED BY <2>2
  <2>4. Fit(name, suffix, max) = candidate(keep)
    <3> HIDE DEF fits
    <3> QED BY <1>1, <1>5
  <2> HIDE DEF keep, fits
  <2> DEFINE c == Candidate(parts.stem, keep, suffix, parts.ext)
  <2>5. c \in Seq(Symbol) /\ Size(c) = Size(Cut(parts.stem, keep)) + Size(suffix) + Size(parts.ext)
    BY <1>3, <2>3, CandidateIs
  <2> HIDE DEF c
  <2>6. /\ Portable(c) \in Seq(Symbol) /\ Lacks(Portable(c), Dropped)
        /\ Size(Portable(c)) <= Size(c)
    BY <2>5, PortableIs
  <2>7. Fit(name, suffix, max) = Portable(c)
    BY <2>4 DEF c
  <2>8. Size(Portable(c)) \in Nat /\ Size(c) \in Nat
    BY <2>5, <2>6, SizeIs
  <2> QED BY <2>3, <2>5, <2>6, <2>7, <2>8
<1> QED BY <1>4, <1>5

\* The name f is the first k symbols of `name`, the symbol s and `ext`.
Shown(name, s, ext, k, f) ==
    /\ f \in Seq(Symbol) /\ k \in 0 .. Len(name) /\ Len(f) = k + 1 + Len(ext)
    /\ \A j \in 1 .. k : f[j] = name[j]
    /\ f[k + 1] = s
    /\ \A j \in 1 .. Len(ext) : f[k + 1 + j] = ext[j]

IsNumber(s) == s \in Symbol /\ s.is = "#"

\* A name of which only the numbers are left out takes all that fits: numbers of
\* one width cut it at one place.
LEMMA FitNumber ==
    ASSUME NEW name \in Seq(Symbol), Lacks(name, Dropped), NEW max \in Nat,
           NEW s, IsNumber(s), NEW t, IsNumber(t), s.width = t.width
    PROVE  LET ext == SplitAt(name, <<s>>, max).ext IN
           /\ SplitAt(name, <<t>>, max).ext = ext
           /\ \/ Fit(name, <<s>>, max) = <<>> /\ Fit(name, <<t>>, max) = <<>>
              \/ \E k : Shown(name, s, ext, k, Fit(name, <<s>>, max))
                        /\ Shown(name, t, ext, k, Fit(name, <<t>>, max))
<1> DEFINE parts == SplitAt(name, <<s>>, max)
           stem == parts.stem
           ext == parts.ext
           small(keep) == Size(Cut(stem, keep)) + (1 + s.width) + Size(ext) <= max
           fits == {keep \in 0 .. Len(stem) : small(keep)}
<1>1. <<s>> \in Seq(Symbol) /\ <<t>> \in Seq(Symbol) /\ Size(<<s>>) = 1 + s.width /\ Size(<<t>>) = 1 + s.width
  BY SizeOne DEF IsNumber
<1>2. SplitAt(name, <<t>>, max) = parts
  BY <1>1 DEF SplitAt
<1>3. IsSplit(name, stem, ext)
  BY SplitIs
<1> HIDE DEF parts
<1>4. stem \in Seq(Symbol) /\ ext \in Seq(Symbol) /\ Len(stem) \in Nat /\ Len(ext) \in Nat
  BY <1>3 DEF IsSplit
<1>5. Lacks(ext, Dropped) /\ Lacks(stem, Dropped)
  BY <1>3 DEF IsSplit, Lacks
<1> HIDE DEF stem, ext
<1>6. ASSUME NEW x, IsNumber(x), NEW keep \in 0 .. Len(stem)
      PROVE  LET c == Candidate(stem, keep, <<x>>, ext) IN
             /\ Portable(c) = c /\ c # <<>> /\ c \in Seq(Symbol) /\ Len(c) = keep + 1 + Len(ext)
             /\ \A j \in 1 .. keep : c[j] = stem[j]
             /\ c[keep + 1] = x
             /\ \A j \in 1 .. Len(ext) : c[keep + 1 + j] = ext[j]
  <2> DEFINE cut == Cut(stem, keep)
             one == <<x>>
             c == Candidate(stem, keep, one, ext)
  <2>0. one \in Seq(Symbol) /\ Len(one) = 1 /\ one[1] = x /\ x # Dropped
    BY <1>6 DEF IsNumber, Dropped, Letter
  <2> HIDE DEF one
  <2>1. cut \in Seq(Symbol) /\ Len(cut) = keep /\ \A k \in 1 .. keep : cut[k] = stem[k]
    BY <1>4, <2>0, CandidateIs
  <2>2. c \in Seq(Symbol) /\ c = (cut \o one) \o ext
    BY <1>4, <2>0, CandidateIs DEF Candidate
  <2> HIDE DEF cut, c
  <2>n. keep \in Nat
    BY <1>4
  <2>3. /\ cut \o one \in Seq(Symbol) /\ Len(cut \o one) = keep + 1
        /\ \A j \in 1 .. keep + 1 : (cut \o one)[j] = IF j <= keep THEN cut[j] ELSE one[j - keep]
    <3>1. /\ cut \o one \in Seq(Symbol) /\ Len(cut \o one) = Len(cut) + Len(one)
          /\ \A j \in 1 .. Len(cut) + Len(one) :
                (cut \o one)[j] = IF j <= Len(cut) THEN cut[j] ELSE one[j - Len(cut)]
      BY <2>0, <2>1, ConcatProperties
    <3>2. Len(cut) = keep /\ Len(one) = 1
      BY <2>0, <2>1
    <3> HIDE DEF one
    <3> QED BY <3>1, <3>2
  <2>4. (cut \o one)[keep + 1] = x /\ \A j \in 1 .. keep : (cut \o one)[j] = stem[j]
    <3>1. keep + 1 \in 1 .. keep + 1 /\ ~(keep + 1 <= keep) /\ (keep + 1) - keep = 1
      BY <2>n
    <3>2. (cut \o one)[keep + 1] = x
      BY <2>0, <2>3, <3>1
    <3>3. ASSUME NEW j \in 1 .. keep PROVE (cut \o one)[j] = stem[j]
      BY <2>1, <2>3, <2>n
    <3> QED BY <3>2, <3>3
  <2> DEFINE front == cut \o one
  <2>5. front \in Seq(Symbol) /\ Len(front) = keep + 1 /\ front[keep + 1] = x
        /\ (\A j \in 1 .. keep : front[j] = stem[j]) /\ c = front \o ext
    BY <2>2, <2>3, <2>4
  <2> HIDE DEF front
  <2>6. /\ Len(c) = keep + 1 + Len(ext)
        /\ \A j \in 1 .. keep + 1 + Len(ext) :
              c[j] = IF j <= keep + 1 THEN front[j] ELSE ext[j - (keep + 1)]
    <3>1. /\ Len(front \o ext) = Len(front) + Len(ext)
          /\ \A j \in 1 .. Len(front) + Len(ext) :
                (front \o ext)[j] = IF j <= Len(front) THEN front[j] ELSE ext[j - Len(front)]
      BY <1>4, <2>5, ConcatProperties
    <3>2. Len(front) = keep + 1 /\ c = front \o ext
      BY <2>5
    <3> QED BY <3>1, <3>2
  <2>7. c[keep + 1] = x
    BY <1>4, <2>n, <2>5, <2>6
  <2>8. ASSUME NEW j \in 1 .. keep PROVE c[j] = stem[j]
    BY <1>4, <2>n, <2>5, <2>6
  <2>9. ASSUME NEW j \in 1 .. Len(ext) PROVE c[keep + 1 + j] = ext[j]
    <3>1. keep + 1 + j \in 1 .. keep + 1 + Len(ext) /\ ~(keep + 1 + j <= keep + 1) /\ (keep + 1 + j) - (keep + 1) = j
      BY <1>4, <2>n
    <3> QED BY <2>6, <3>1
  <2>10. Lacks(c, Dropped)
    <3> SUFFICES ASSUME NEW j \in 1 .. Len(c) PROVE c[j] # Dropped
      BY DEF Lacks
    <3>1. CASE j <= keep
      <4>1. j \in 1 .. keep /\ j \in 1 .. Len(stem)
        BY <1>4, <2>n, <2>6, <3>1
      <4> QED BY <1>5, <2>8, <4>1 DEF Lacks
    <3>2. CASE j = keep + 1
      BY <2>0, <2>7, <3>2
    <3>3. CASE j > keep + 1
      <4> DEFINE d == j - (keep + 1)
      <4>1. d \in 1 .. Len(ext) /\ keep + 1 + d = j
        BY <1>4, <2>n, <2>6, <3>3
      <4> HIDE DEF d
      <4>2. c[j] = ext[d]
        BY <2>9, <4>1
      <4> QED BY <1>5, <4>1, <4>2 DEF Lacks
    <3> QED BY <1>4, <2>n, <2>6, <3>1, <3>2, <3>3
  <2>11. Portable(c) = c
    BY <2>2, <2>10, PortableIs
  <2>12. c # <<>>
    BY <1>4, <2>n, <2>6
  <2> QED BY <2>2, <2>6, <2>7, <2>8, <2>9, <2>11, <2>12 DEF c, one
<1>7. ASSUME NEW x, IsNumber(x), x.width = s.width, SplitAt(name, <<x>>, max) = parts
      PROVE  /\ fits = {} => Fit(name, <<x>>, max) = <<>>
             /\ fits # {} => Shown(name, x, ext, Max(fits), Fit(name, <<x>>, max))
  <2> DEFINE candidate(keep) == Portable(Candidate(stem, keep, <<x>>, ext))
             mine == {keep \in 0 .. Len(stem) :
                        /\ Size(Cut(stem, keep)) + Size(<<x>>) + Size(ext) <= max
                        /\ candidate(keep) # <<>>}
  <2>1. Fit(name, <<x>>, max) = IF mine = {} THEN <<>> ELSE candidate(Max(mine))
    BY <1>7 DEF Fit, Candidate, stem, ext
  <2>2. Size(<<x>>) = 1 + s.width
    BY <1>7, SizeOne DEF IsNumber
  <2>3. mine = fits
    <3>1. \A keep \in 0 .. Len(stem) : candidate(keep) # <<>>
      BY <1>6, <1>7
    <3> HIDE DEF candidate
    <3> QED BY <2>2, <3>1
  <2> HIDE DEF mine
  <2>4. ASSUME fits # {} PROVE Shown(name, x, ext, Max(fits), Fit(name, <<x>>, max))
    <3> DEFINE keep == Max(fits)
               c == Candidate(stem, keep, <<x>>, ext)
    <3>1. keep \in 0 .. Len(stem)
      <4>1. fits \subseteq 0 .. Len(stem)
        OBVIOUS
      <4> HIDE DEF fits
      <4> QED BY <1>4, <2>4, <4>1, MaxIn
    <3>2. Fit(name, <<x>>, max) = Portable(c)
      <4> HIDE DEF fits
      <4> QED BY <2>1, <2>3, <2>4
    <3> HIDE DEF keep
    <3>3. /\ Portable(c) = c /\ c \in Seq(Symbol) /\ Len(c) = keep + 1 + Len(ext)
          /\ \A j \in 1 .. keep : c[j] = stem[j]
          /\ c[keep + 1] = x
          /\ \A j \in 1 .. Len(ext) : c[keep + 1 + j] = ext[j]
      BY <1>6, <1>7, <3>1
    <3> HIDE DEF c
    <3>4. keep \in 0 .. Len(name) /\ \A j \in 1 .. keep : c[j] = name[j]
      <4>1. Len(stem) <= Len(name) /\ (\A k \in 1 .. Len(stem) : stem[k] = name[k]) /\ Len(name) \in Nat
        BY <1>3 DEF IsSplit
      <4>2. keep \in 0 .. Len(name) /\ keep \in Nat /\ keep <= Len(stem)
        BY <1>4, <3>1, <4>1
      <4>3. ASSUME NEW j \in 1 .. keep PROVE c[j] = name[j]
        <5>1. j \in 1 .. Len(stem)
          BY <1>4, <4>2
        <5> QED BY <3>3, <4>1, <5>1
      <4> QED BY <4>2, <4>3
    <3>5. Shown(name, x, ext, keep, c)
      BY <3>3, <3>4 DEF Shown
    <3> QED BY <3>2, <3>3, <3>5 DEF keep
  <2>5. ASSUME fits = {} PROVE Fit(name, <<x>>, max) = <<>>
    <3> HIDE DEF fits
    <3> QED BY <2>1, <2>3, <2>5
  <2> QED BY <2>4, <2>5
<1> HIDE DEF fits
<1>8. /\ fits = {} => Fit(name, <<s>>, max) = <<>> /\ Fit(name, <<t>>, max) = <<>>
      /\ fits # {} => /\ Shown(name, s, ext, Max(fits), Fit(name, <<s>>, max))
                      /\ Shown(name, t, ext, Max(fits), Fit(name, <<t>>, max))
  <2>1. SplitAt(name, <<s>>, max) = parts
    BY DEF parts
  <2> QED BY <1>2, <1>7, <2>1
<1>9. SplitAt(name, <<s>>, max).ext = ext /\ SplitAt(name, <<t>>, max).ext = ext
  BY <1>2 DEF parts, ext
<1> HIDE DEF ext
<1> QED BY <1>8, <1>9

-----------------------------------------------------------------------------
(* Folded names and paths.                                                 *)

LEMMA FoldSymbolIs ==
    ASSUME NEW x \in Symbol
    PROVE  /\ FoldSymbol(x) \in Symbol /\ FoldSymbol(x).width = x.width
           /\ x.is = "#" => FoldSymbol(x) = x
           /\ FoldSymbol(x).is = "#" => FoldSymbol(x) = x
           /\ FoldSymbol(x) = Extension <=> x = Extension
<1>1. CASE x = Letter("A")
  <2>1. FoldSymbol(x) = Letter("a") /\ x.is = "A" /\ x.width = 0
    BY <1>1 DEF FoldSymbol, Letter
  <2>2. /\ Letter("a") \in Symbol /\ Letter("a").is = "a" /\ Letter("a").width = 0
        /\ Extension.is = ".x"
    <3>1. Letter("a") \in Symbol
      BY ConstantsAssumption DEF Letter, Symbol
    <3>2. Letter("a").is = "a" /\ Letter("a").width = 0
      BY DEF Letter
    <3>3. Extension.is = ".x"
      BY DEF Letter, Extension
    <3> QED BY <3>1, <3>2, <3>3
  <2>3. "a" # "#" /\ "A" # "#" /\ "a" # ".x" /\ "A" # ".x"
    OBVIOUS
  <2> QED BY <2>1, <2>2, <2>3
<1>2. CASE x # Letter("A")
  BY <1>2 DEF FoldSymbol
<1> QED BY <1>1, <1>2

LEMMA FoldNameIs ==
    ASSUME NEW name \in Seq(Symbol)
    PROVE  /\ FoldName(name) \in Seq(Symbol) /\ Len(FoldName(name)) = Len(name)
           /\ \A j \in 1 .. Len(name) : FoldName(name)[j] = FoldSymbol(name[j])
           /\ Size(FoldName(name)) = Size(name)
<1>1. DOMAIN name = 1 .. Len(name) /\ Len(name) \in Nat /\ \A j \in 1 .. Len(name) : name[j] \in Symbol
  OBVIOUS
<1>2. \A j \in 1 .. Len(name) : FoldSymbol(name[j]) \in Symbol /\ FoldSymbol(name[j]).width = name[j].width
  BY <1>1, FoldSymbolIs
<1>3. FoldName(name) = [j \in 1 .. Len(name) |-> FoldSymbol(name[j])]
  BY <1>1 DEF FoldName
<1>4. FoldName(name) \in [1 .. Len(name) -> Symbol]
  BY <1>2, <1>3
<1>5. FoldName(name) \in Seq(Symbol) /\ Len(FoldName(name)) = Len(name)
  BY <1>1, <1>4
<1>6. SymbolSizes(FoldName(name)) = SymbolSizes(name)
  <2>1. DOMAIN FoldName(name) = DOMAIN name
    BY <1>1, <1>3
  <2>2. \A j \in DOMAIN name : FoldName(name)[j].width = name[j].width
    BY <1>1, <1>2, <1>3
  <2> QED BY <2>1, <2>2 DEF SymbolSizes
<1>7. Size(FoldName(name)) = Size(name)
  BY <1>6 DEF Size, SymbolSizes
<1> QED BY <1>3, <1>5, <1>7

LEMMA FoldNameEq ==
    ASSUME NEW f \in Seq(Symbol), NEW g \in Seq(Symbol)
    PROVE  FoldName(f) = FoldName(g) <=>
             /\ Len(f) = Len(g)
             /\ \A j \in 1 .. Len(f) : FoldSymbol(f[j]) = FoldSymbol(g[j])
<1>1. ASSUME FoldName(f) = FoldName(g)
      PROVE  Len(f) = Len(g) /\ \A j \in 1 .. Len(f) : FoldSymbol(f[j]) = FoldSymbol(g[j])
  <2>1. Len(f) = Len(g)
    BY <1>1, FoldNameIs
  <2> QED BY <1>1, <2>1, FoldNameIs
<1>2. ASSUME Len(f) = Len(g), \A j \in 1 .. Len(f) : FoldSymbol(f[j]) = FoldSymbol(g[j])
      PROVE  FoldName(f) = FoldName(g)
  <2>1. FoldName(f) \in Seq(Symbol) /\ FoldName(g) \in Seq(Symbol) /\ Len(FoldName(f)) = Len(f) /\ Len(FoldName(g)) = Len(f)
    BY <1>2, FoldNameIs
  <2>2. \A j \in 1 .. Len(f) : FoldName(f)[j] = FoldName(g)[j]
    BY <1>2, FoldNameIs
  <2> QED BY <2>1, <2>2, SeqEqual
<1> QED BY <1>1, <1>2

LEMMA FoldPathIs ==
    ASSUME NEW path \in Path
    PROVE  /\ FoldPath(path) \in Path /\ Len(FoldPath(path)) = Len(path)
           /\ \A k \in 1 .. Len(path) : FoldPath(path)[k] = FoldName(path[k])
           /\ FoldPath(path) = <<>> <=> path = <<>>
           /\ NameSizes(FoldPath(path)) = NameSizes(path)
<1>1. /\ DOMAIN path = 1 .. Len(path) /\ Len(path) \in Nat
      /\ \A k \in 1 .. Len(path) : path[k] \in Seq(Symbol)
  BY DEF Path
<1>2. \A k \in 1 .. Len(path) : FoldName(path[k]) \in Seq(Symbol) /\ Size(FoldName(path[k])) = Size(path[k])
  BY <1>1, FoldNameIs
<1>3. FoldPath(path) = [k \in 1 .. Len(path) |-> FoldName(path[k])]
  BY <1>1 DEF FoldPath
<1>4. FoldPath(path) \in [1 .. Len(path) -> Seq(Symbol)]
  BY <1>2, <1>3
<1>5. FoldPath(path) \in Path /\ Len(FoldPath(path)) = Len(path)
  BY <1>1, <1>4, SMTT(30) DEF Path
<1>6. NameSizes(FoldPath(path)) = NameSizes(path)
  <2>1. DOMAIN FoldPath(path) = DOMAIN path
    BY <1>1, <1>3
  <2>2. \A k \in DOMAIN path : Size(FoldPath(path)[k]) = Size(path[k])
    BY <1>1, <1>2, <1>3
  <2> QED BY <2>1, <2>2 DEF NameSizes
<1>7. FoldPath(path) = <<>> <=> path = <<>>
  BY <1>5 DEF Path
<1> QED BY <1>3, <1>5, <1>6, <1>7

LEMMA FoldPathEq ==
    ASSUME NEW p \in Path, NEW q \in Path
    PROVE  FoldPath(p) = FoldPath(q) <=>
             /\ Len(p) = Len(q)
             /\ \A k \in 1 .. Len(p) : FoldName(p[k]) = FoldName(q[k])
<1>1. ASSUME FoldPath(p) = FoldPath(q)
      PROVE  Len(p) = Len(q) /\ \A k \in 1 .. Len(p) : FoldName(p[k]) = FoldName(q[k])
  <2>1. Len(p) = Len(q)
    BY <1>1, FoldPathIs
  <2> QED BY <1>1, <2>1, FoldPathIs
<1>2. ASSUME Len(p) = Len(q), \A k \in 1 .. Len(p) : FoldName(p[k]) = FoldName(q[k])
      PROVE  FoldPath(p) = FoldPath(q)
  <2>1. FoldPath(p) \in Seq(Seq(Symbol)) /\ FoldPath(q) \in Seq(Seq(Symbol))
        /\ Len(FoldPath(p)) = Len(p) /\ Len(FoldPath(q)) = Len(p)
    BY <1>2, FoldPathIs DEF Path
  <2>2. \A k \in 1 .. Len(p) : FoldPath(p)[k] = FoldPath(q)[k]
    BY <1>2, FoldPathIs
  <2> QED BY <2>1, <2>2, SeqEqual
<1> QED BY <1>1, <1>2

\* What stands after a number in a name: nothing, or the last extension.
IsTail(ext) ==
    /\ ext \in Seq(Symbol) /\ (ext # <<>> => ext[1] = Extension)
    /\ \A k \in 2 .. Len(ext) : ext[k] # Extension

\* No number in `name` passes for one that stands before `ext`.
Marked(name, ext) ==
    \/ \A k \in 1 .. Len(name) - 1 : name[k].is = "#" => name[k + 1] # Extension
    \/ ext # <<>>

Place(x, s, d, k, f) ==
    x \in Seq(Symbol) /\ IsNumber(s) /\ IsTail(d) /\ Marked(x, d) /\ Shown(x, s, d, k, f)

LEMMA PlaceNotBefore ==
    ASSUME NEW x, NEW s, NEW d, NEW k, NEW f, Place(x, s, d, k, f),
           NEW y, NEW t, NEW e, NEW l, NEW g, Place(y, t, e, l, g),
           FoldName(f) = FoldName(g)
    PROVE  k >= l
<1> SUFFICES ASSUME ~(k >= l) PROVE FALSE
  OBVIOUS
<1>1. /\ f \in Seq(Symbol) /\ k \in Nat /\ Len(f) = k + 1 + Len(d) /\ f[k + 1] = s
      /\ \A j \in 1 .. Len(d) : f[k + 1 + j] = d[j]
      /\ d \in Seq(Symbol) /\ (d # <<>> => d[1] = Extension)
      /\ (\A j \in 2 .. Len(d) : d[j] # Extension) /\ IsNumber(s)
  BY DEF Place, Shown, IsTail
<1>2. /\ g \in Seq(Symbol) /\ l \in Nat /\ Len(g) = l + 1 + Len(e) /\ g[l + 1] = t
      /\ \A j \in 1 .. l : g[j] = y[j]
      /\ \A j \in 1 .. Len(e) : g[l + 1 + j] = e[j]
      /\ e \in Seq(Symbol) /\ (e # <<>> => e[1] = Extension) /\ l <= Len(y)
      /\ Marked(y, e) /\ y \in Seq(Symbol) /\ IsNumber(t)
  BY DEF Place, Shown, IsTail
<1>3. Len(f) = Len(g) /\ \A j \in 1 .. Len(f) : FoldSymbol(f[j]) = FoldSymbol(g[j])
  BY <1>1, <1>2, FoldNameEq
<1>n. Len(d) \in Nat /\ Len(e) \in Nat /\ Len(y) \in Nat /\ k \in Nat /\ l \in Nat /\ k < l
  BY <1>1, <1>2, SMTT(30)
<1>s. \A j \in 1 .. Len(f) : f[j] \in Symbol /\ g[j] \in Symbol
  BY <1>1, <1>2, <1>3, ElementOfSeq
<1>4. Len(d) > Len(e) /\ d # <<>> /\ 1 \in 1 .. Len(d) /\ k + 1 + 1 \in 1 .. Len(f)
  <2>1. k + 1 + Len(d) = l + 1 + Len(e)
    BY <1>1, <1>2, <1>3
  <2>2. Len(d) > Len(e) /\ Len(d) > 0
    BY <1>n, <2>1
  <2>3. d # <<>> /\ 1 \in 1 .. Len(d)
    BY <1>n, <2>2
  <2> QED BY <1>1, <1>n, <2>2, <2>3
<1>5. f[k + 1 + 1] = Extension
  BY <1>1, <1>4
<1>6. g[k + 1 + 1] = Extension
  BY <1>3, <1>4, <1>5, <1>s, FoldSymbolIs
<1>7. g[k + 1].is = "#"
  <2>1. k + 1 \in 1 .. Len(f)
    BY <1>1, <1>n
  <2>2. FoldSymbol(s) = s /\ s.is = "#"
    BY <1>1, FoldSymbolIs DEF IsNumber
  <2>3. FoldSymbol(g[k + 1]) = s
    BY <1>1, <1>3, <2>1, <2>2
  <2> QED BY <1>s, <2>1, <2>2, <2>3, FoldSymbolIs
<1>8. CASE k + 1 + 1 <= l
  <2>1. k + 1 \in 1 .. l /\ k + 1 + 1 \in 1 .. l /\ k + 1 \in 1 .. Len(y) - 1
    BY <1>1, <1>2, <1>n, <1>8
  <2>2. y[k + 1].is = "#" /\ y[k + 1 + 1] = Extension
    BY <1>2, <1>6, <1>7, <2>1
  <2>3. e # <<>>
    BY <1>2, <2>1, <2>2 DEF Marked
  <2>4. 1 \in 1 .. Len(e) /\ l + 1 + 1 \in 1 .. Len(f)
    BY <1>2, <1>3, <1>n, <2>3
  <2>5. g[l + 1 + 1] = Extension
    BY <1>2, <2>3, <2>4
  <2>6. f[l + 1 + 1] = Extension
    BY <1>3, <1>s, <2>4, <2>5, FoldSymbolIs
  <2>7. l + 1 - k \in 2 .. Len(d) /\ l + 1 - k \in 1 .. Len(d) /\ k + 1 + (l + 1 - k) = l + 1 + 1
    <3>1. k + 1 + Len(d) = l + 1 + Len(e)
      BY <1>1, <1>2, <1>3
    <3>2. Len(e) >= 1
      BY <1>n, <2>4
    <3> QED BY <1>n, <3>1, <3>2
  <2>8. f[k + 1 + (l + 1 - k)] = d[l + 1 - k]
    BY <1>1, <2>7
  <2> QED BY <1>1, <2>6, <2>7, <2>8
<1>9. CASE k + 1 + 1 = l + 1
  <2>1. g[k + 1 + 1] = t /\ t.is = "#"
    BY <1>2, <1>9 DEF IsNumber
  <2> QED BY <1>6, <2>1 DEF Extension, Letter
<1> QED BY <1>1, <1>2, <1>n, <1>8, <1>9

LEMMA PlaceSame ==
    ASSUME NEW x, NEW s, NEW d, NEW k, NEW f, Place(x, s, d, k, f),
           NEW y, NEW t, NEW e, NEW l, NEW g, Place(y, t, e, l, g),
           FoldName(f) = FoldName(g)
    PROVE  k = l /\ s = t
<1>1. k \in Nat /\ l \in Nat /\ Len(f) = k + 1 + Len(d) /\ f[k + 1] = s /\ g[l + 1] = t
      /\ f \in Seq(Symbol) /\ g \in Seq(Symbol) /\ Len(d) \in Nat /\ IsNumber(s) /\ IsNumber(t)
  BY DEF Place, Shown, IsTail
<1>2. k >= l /\ l >= k
  BY PlaceNotBefore
<1>3. k = l
  BY <1>1, <1>2
<1>4. FoldSymbol(f[k + 1]) = FoldSymbol(g[k + 1])
  <2>1. k + 1 \in 1 .. Len(f)
    BY <1>1
  <2> QED BY <1>1, <2>1, FoldNameEq
<1>5. FoldSymbol(s) = s /\ FoldSymbol(t) = t
  BY <1>1, FoldSymbolIs DEF IsNumber
<1> QED BY <1>1, <1>3, <1>4, <1>5

\* Names that show one number at one place show every other there alike.
LEMMA PlaceOther ==
    ASSUME NEW x, NEW s, NEW d, NEW k, NEW f, Shown(x, s, d, k, f),
           NEW y, NEW t, NEW e, NEW g, Shown(y, t, e, k, g), FoldName(f) = FoldName(g),
           d \in Seq(Symbol), e \in Seq(Symbol),
           NEW u, NEW v, Shown(x, u, d, k, v), NEW w, Shown(y, u, e, k, w)
    PROVE  FoldName(v) = FoldName(w)
<1>1. /\ f \in Seq(Symbol) /\ k \in Nat /\ Len(f) = k + 1 + Len(d)
      /\ \A j \in 1 .. k : f[j] = x[j]
      /\ \A j \in 1 .. Len(d) : f[k + 1 + j] = d[j]
  BY DEF Shown
<1>v. /\ v \in Seq(Symbol) /\ Len(v) = k + 1 + Len(d) /\ v[k + 1] = u
      /\ \A j \in 1 .. k : v[j] = x[j]
      /\ \A j \in 1 .. Len(d) : v[k + 1 + j] = d[j]
  BY DEF Shown
<1>2. /\ g \in Seq(Symbol) /\ Len(g) = k + 1 + Len(e)
      /\ \A j \in 1 .. k : g[j] = y[j]
      /\ \A j \in 1 .. Len(e) : g[k + 1 + j] = e[j]
  BY DEF Shown
<1>w. /\ w \in Seq(Symbol) /\ Len(w) = k + 1 + Len(e) /\ w[k + 1] = u
      /\ \A j \in 1 .. k : w[j] = y[j]
      /\ \A j \in 1 .. Len(e) : w[k + 1 + j] = e[j]
  BY DEF Shown
<1>3. Len(f) = Len(g) /\ \A j \in 1 .. Len(f) : FoldSymbol(f[j]) = FoldSymbol(g[j])
  BY <1>1, <1>v, <1>2, <1>w, FoldNameEq
<1>n. Len(d) \in Nat /\ Len(e) \in Nat /\ Len(d) = Len(e)
  BY <1>1, <1>v, <1>2, <1>w, <1>3
<1>4. ASSUME NEW j \in 1 .. Len(v) PROVE FoldSymbol(v[j]) = FoldSymbol(w[j])
  <2>1. CASE j \in 1 .. k
    <3>1. v[j] = f[j] /\ w[j] = g[j] /\ j \in 1 .. Len(f)
      BY <1>1, <1>v, <1>2, <1>w, <1>n, <2>1
    <3> QED BY <1>3, <3>1
  <2>2. CASE j = k + 1
    BY <1>1, <1>v, <1>2, <1>w, <2>2
  <2>3. CASE j > k + 1
    <3> DEFINE i == j - (k + 1)
    <3>1. i \in 1 .. Len(d) /\ i \in 1 .. Len(e) /\ k + 1 + i = j /\ j \in 1 .. Len(f)
      <4>1. k \in Nat /\ Len(v) = k + 1 + Len(d) /\ Len(f) = Len(v) /\ j \in 1 .. Len(v)
        BY <1>1, <1>v
      <4> QED BY <1>n, <2>3, <4>1
    <3> HIDE DEF i
    <3>2. v[j] = f[j] /\ w[j] = g[j]
      BY <1>1, <1>v, <1>2, <1>w, <3>1
    <3> QED BY <1>3, <3>1, <3>2
  <2> QED BY <1>1, <1>n, <2>1, <2>2, <2>3
<1>5. Len(v) = Len(w)
  BY <1>1, <1>v, <1>2, <1>w, <1>n
<1> QED BY <1>1, <1>v, <1>2, <1>w, <1>4, <1>5, FoldNameEq

-----------------------------------------------------------------------------
(* The sizes of paths and the room of a file.                              *)

Base == [dir : Path, file : Seq(Symbol)]

\* A file name that fits below a base's directories.
IsFile(base, f) ==
    f \in Seq(Symbol) /\ f # <<>> /\ Lacks(f, Dropped) /\ Size(f) <= Room(base.dir)

\* A base as RepairOne makes it.
IsBase(base) ==
    /\ base \in Base /\ Lacks(base.file, Dropped)
    /\ base.file # <<>> => IsFile(base, base.file)
    /\ \A k \in 1 .. Len(base.dir) : base.dir[k] # <<>> /\ Lacks(base.dir[k], Dropped)

LEMMA Limits == ComponentMax \in Nat /\ PathMax \in Nat
  BY ConstantsAssumption

LEMMA NameSizesOf ==
    ASSUME NEW path \in Path
    PROVE  /\ NameSizes(path) \in Seq(Nat) /\ Len(NameSizes(path)) = Len(path)
           /\ \A k \in 1 .. Len(path) : NameSizes(path)[k] = 1 + Size(path[k])
           /\ PathSize(path) = Total(NameSizes(path)) - 1 /\ Total(NameSizes(path)) \in Nat
<1>1. /\ DOMAIN path = 1 .. Len(path) /\ Len(path) \in Nat
      /\ \A k \in 1 .. Len(path) : path[k] \in Seq(Symbol)
  BY DEF Path
<1>2. \A k \in 1 .. Len(path) : Size(path[k]) \in Nat
  BY <1>1, SizeIs
<1>3. NameSizes(path) = [k \in 1 .. Len(path) |-> 1 + Size(path[k])]
  BY <1>1 DEF NameSizes
<1>4. NameSizes(path) \in [1 .. Len(path) -> Nat]
  BY <1>2, <1>3
<1>5. NameSizes(path) \in Seq(Nat) /\ Len(NameSizes(path)) = Len(path)
  BY <1>1, <1>4
<1>6. Total(NameSizes(path)) \in Nat
  BY <1>5, TotalIs
<1>7. PathSize(path) = Total(NameSizes(path)) - 1
  BY DEF PathSize, NameSizes
<1> QED BY <1>3, <1>5, <1>6, <1>7

LEMMA RoomIs ==
    ASSUME NEW dir \in Path
    PROVE  /\ Room(dir) \in Nat /\ Room(dir) <= ComponentMax
           /\ Room(dir) > 0 => Total(NameSizes(dir)) + Room(dir) <= PathMax
<1> DEFINE sum == Total(NameSizes(dir))
           above == IF dir = <<>> THEN 0 ELSE PathSize(dir) + 1
           left == IF PathMax > above THEN PathMax - above ELSE 0
<1>1. sum \in Nat /\ PathSize(dir) = sum - 1 /\ NameSizes(dir) \in Seq(Nat) /\ Len(NameSizes(dir)) = Len(dir)
  BY NameSizesOf
<1>2. dir = <<>> => sum = 0
  <2>1. dir = <<>> => NameSizes(dir) = <<>>
    BY <1>1
  <2> QED BY <1>1, <2>1, TotalIs
<1> HIDE DEF sum
<1>3. above = sum
  BY <1>1, <1>2
<1>4. Room(dir) = Min({ComponentMax, left})
  BY DEF Room
<1> HIDE DEF above
<1>5. left \in Nat /\ (left > 0 => sum + left = PathMax)
  BY <1>1, <1>3, Limits
<1> HIDE DEF left
<1>6. /\ Min({ComponentMax, left}) \in {ComponentMax, left}
      /\ \A y \in {ComponentMax, left} : Min({ComponentMax, left}) <= y
  <2>1. {ComponentMax, left} \subseteq Nat /\ {ComponentMax, left} # {}
    BY <1>5, Limits
  <2> QED BY <2>1, MinIn
<1>7. Room(dir) \in Nat /\ Room(dir) <= ComponentMax /\ Room(dir) <= left
  BY <1>4, <1>5, <1>6, Limits
<1> QED BY <1>1, <1>5, <1>7, Limits DEF sum

LEMMA PathWithIs ==
    ASSUME NEW base, base.dir \in Path, NEW f \in Seq(Symbol)
    PROVE  /\ PathWith(base, f) \in Path /\ PathWith(base, f) # <<>>
           /\ Len(PathWith(base, f)) = Len(base.dir) + 1
           /\ \A k \in 1 .. Len(base.dir) : PathWith(base, f)[k] = base.dir[k]
           /\ PathWith(base, f)[Len(base.dir) + 1] = f
           /\ PathSize(PathWith(base, f)) = Total(NameSizes(base.dir)) + Size(f)
<1> DEFINE dir == base.dir
           p == PathWith(base, f)
<1>0. dir \in Path /\ dir \in Seq(Seq(Symbol)) /\ p = Append(dir, f)
  BY DEF PathWith, Path
<1> HIDE DEF dir, p
<1>1. /\ p \in Seq(Seq(Symbol)) /\ p # <<>> /\ Len(p) = Len(dir) + 1
      /\ \A k \in 1 .. Len(dir) : p[k] = dir[k]
      /\ p[Len(dir) + 1] = f
  BY <1>0, AppendProperties
<1>n. Len(dir) \in Nat /\ Size(f) \in Nat
  BY <1>0, SizeIs
<1>2. p \in Path
  BY <1>1 DEF Path
<1> DEFINE s == NameSizes(dir)
           u == NameSizes(p)
           t == <<1 + Size(f)>>
<1>3. s \in Seq(Nat) /\ Len(s) = Len(dir) /\ Total(s) \in Nat /\ \A k \in 1 .. Len(dir) : s[k] = 1 + Size(dir[k])
  BY <1>0, NameSizesOf
<1>4. u \in Seq(Nat) /\ Len(u) = Len(dir) + 1 /\ PathSize(p) = Total(u) - 1
      /\ \A k \in 1 .. Len(dir) + 1 : u[k] = 1 + Size(p[k])
  BY <1>1, <1>2, NameSizesOf
<1>5. t \in Seq(Nat) /\ Len(t) = 1 /\ t[1] = 1 + Size(f)
  BY <1>n
<1> HIDE DEF s, t, u
<1>6. Total(t) = 1 + Size(f)
  BY <1>5, TotalIs
<1>7. u = s \o t
  <2>1. s \o t \in Seq(Nat) /\ Len(s \o t) = Len(s) + Len(t)
        /\ \A k \in 1 .. Len(s) + Len(t) : (s \o t)[k] = IF k <= Len(s) THEN s[k] ELSE t[k - Len(s)]
    <3>1. s \in Seq(Nat) /\ t \in Seq(Nat)
      BY <1>3, <1>5
    <3> QED BY <3>1, ConcatProperties
  <2>2. ASSUME NEW k \in 1 .. Len(dir) + 1 PROVE u[k] = (s \o t)[k]
    <3>1. CASE k = Len(dir) + 1
      <4>1. (s \o t)[k] = t[1]
        BY <1>n, <1>3, <1>5, <2>1, <3>1
      <4>2. u[k] = 1 + Size(p[k]) /\ p[k] = f
        BY <1>1, <1>4, <3>1
      <4> QED BY <1>5, <4>1, <4>2
    <3>2. CASE k # Len(dir) + 1
      <4>1. k \in 1 .. Len(dir) /\ k <= Len(s) /\ k \in 1 .. Len(s) + Len(t)
        BY <1>n, <1>3, <1>5, <3>2
      <4>2. (s \o t)[k] = s[k]
        BY <2>1, <4>1
      <4>3. u[k] = 1 + Size(p[k]) /\ p[k] = dir[k] /\ s[k] = 1 + Size(dir[k])
        BY <1>1, <1>3, <1>4, <4>1
      <4> QED BY <4>2, <4>3
    <3> QED BY <3>1, <3>2
  <2> QED BY <1>3, <1>4, <1>5, <2>1, <2>2, SeqEqual, SMTT(30)
<1>8. PathSize(p) = Total(s) + Size(f)
  <2>1. Total(u) = Total(s) + Total(t)
    BY <1>3, <1>5, <1>7, TotalConcat
  <2> QED BY <1>3, <1>4, <1>6, <1>n, <2>1
<1> QED BY <1>1, <1>2, <1>8 DEF p, dir, s

\* A file that fits below its directories makes a valid path, unless one of them is
\* too long.
LEMMA ValidFile ==
    ASSUME NEW base, IsBase(base), NEW f, IsFile(base, f),
           \A k \in 1 .. Len(base.dir) : Size(base.dir[k]) <= ComponentMax
    PROVE  ValidPath(PathWith(base, f))
<1> DEFINE p == PathWith(base, f)
           n == Len(base.dir)
<1>0. base.dir \in Path /\ base.dir \in Seq(Seq(Symbol)) /\ f \in Seq(Symbol) /\ n \in Nat
  BY DEF IsBase, Base, Path, IsFile
<1>1. /\ p \in Path /\ p # <<>> /\ Len(p) = n + 1
      /\ \A k \in 1 .. n : p[k] = base.dir[k]
      /\ p[n + 1] = f
      /\ PathSize(p) = Total(NameSizes(base.dir)) + Size(f)
  BY <1>0, PathWithIs
<1> HIDE DEF p
<1>2. /\ Room(base.dir) \in Nat /\ Room(base.dir) <= ComponentMax
      /\ Room(base.dir) > 0 => Total(NameSizes(base.dir)) + Room(base.dir) <= PathMax
  BY <1>0, RoomIs
<1>3. Size(f) \in Nat /\ Size(f) >= 1 /\ Size(f) <= Room(base.dir)
  BY <1>0, SizeIs DEF IsFile
<1>4. Total(NameSizes(base.dir)) \in Nat
  BY <1>0, NameSizesOf
<1>5. PathSize(p) <= PathMax
  BY <1>1, <1>2, <1>3, <1>4, Limits
<1>6. ASSUME NEW k \in DOMAIN p
      PROVE  p[k] # <<>> /\ Portable(p[k]) = p[k] /\ Size(p[k]) <= ComponentMax
  <2>1. k \in 1 .. n + 1
    BY <1>1 DEF Path
  <2>2. CASE k = n + 1
    <3>1. p[k] = f /\ f # <<>> /\ Lacks(f, Dropped) /\ f \in Seq(Symbol)
      BY <1>1, <2>2 DEF IsFile
    <3>2. Portable(f) = f
      BY <3>1, PortableIs
    <3> QED BY <1>2, <1>3, <3>1, <3>2, Limits
  <2>3. CASE k # n + 1
    <3>1. k \in 1 .. n
      BY <1>0, <2>1, <2>3
    <3>2. p[k] = base.dir[k] /\ p[k] \in Seq(Symbol)
      BY <1>0, <1>1, <3>1
    <3>3. p[k] # <<>> /\ Lacks(p[k], Dropped) /\ Size(p[k]) <= ComponentMax
      BY <3>1, <3>2 DEF IsBase
    <3>4. Portable(p[k]) = p[k]
      BY <3>2, <3>3, PortableIs
    <3> QED BY <3>3, <3>4
  <2> QED BY <2>2, <2>3
<1> QED BY <1>1, <1>5, <1>6 DEF ValidPath, p

LEMMA RepairOneIs ==
    ASSUME NEW path \in Path
    PROVE  IsBase(RepairOne(path))
<1> DEFINE parts == Without(path, <<>>)
           n == IF parts = <<>> THEN 0 ELSE Len(parts) - 1
           dirAt(i) == IF Portable(parts[i]) = <<>> THEN Placeholder ELSE Portable(parts[i])
           dir == [i \in 1 .. n |-> dirAt(i)]
           fitted == IF parts = <<>> THEN <<>> ELSE Fit(Last(parts), <<>>, Room(dir))
           file == IF fitted = <<>> /\ Room(dir) >= Size(Placeholder) THEN Placeholder ELSE fitted
<1>1. RepairOne(path) = [dir |-> dir, file |-> file]
  BY DEF RepairOne
<1>2. parts \in Seq(Seq(Symbol)) /\ Lacks(parts, <<>>)
  BY WithoutIs DEF Path
<1>3. Placeholder \in Seq(Symbol) /\ Placeholder # <<>> /\ Lacks(Placeholder, Dropped)
  <2>1. Letter("_") \in Symbol
    BY ConstantsAssumption DEF Letter, Symbol
  <2>2. Letter("_") # Dropped
    BY DEF Letter, Dropped
  <2> DEFINE line == Letter("_")
  <2> HIDE DEF line
  <2>3. Placeholder = <<line>>
    BY DEF Placeholder, line
  <2>4. Placeholder \in Seq(Symbol)
    BY <2>1, <2>3, SizeOne DEF line
  <2>5. Len(Placeholder) = 1 /\ Placeholder[1] = line
    BY <2>3
  <2>6. Placeholder # <<>>
    BY <2>4, <2>5
  <2>7. Lacks(Placeholder, Dropped)
    <3>1. ASSUME NEW k \in 1 .. Len(Placeholder) PROVE Placeholder[k] # Dropped
      <4>1. k = 1
        BY <2>5
      <4> QED BY <2>2, <2>5, <4>1 DEF line
    <3> QED BY <3>1 DEF Lacks
  <2> QED BY <2>4, <2>6, <2>7
<1> HIDE DEF parts
<1>4. n \in Nat /\ \A i \in 1 .. n : parts[i] \in Seq(Symbol)
  BY <1>2
<1> HIDE DEF n
<1>5. ASSUME NEW i \in 1 .. n PROVE dirAt(i) \in Seq(Symbol) /\ dirAt(i) # <<>> /\ Lacks(dirAt(i), Dropped)
  <2>1. Portable(parts[i]) \in Seq(Symbol) /\ Lacks(Portable(parts[i]), Dropped)
    BY <1>4, PortableIs
  <2> QED BY <1>3, <2>1
<1> HIDE DEF dirAt
<1>6. dir \in Seq(Seq(Symbol)) /\ Len(dir) = n /\ \A i \in 1 .. n : dir[i] = dirAt(i)
  <2>1. dir \in [1 .. n -> Seq(Symbol)]
    BY <1>5
  <2> QED BY <1>4, <2>1
<1>7. dir \in Path /\ \A i \in 1 .. Len(dir) : dir[i] # <<>> /\ Lacks(dir[i], Dropped)
  BY <1>5, <1>6 DEF Path
<1> HIDE DEF dir
<1>8. Room(dir) \in Nat
  BY <1>7, RoomIs
<1>9. fitted \in Seq(Symbol) /\ Lacks(fitted, Dropped) /\ (fitted # <<>> => Size(fitted) <= Room(dir))
  <2>1. CASE parts = <<>>
    <3>1. fitted = <<>>
      BY <2>1
    <3> HIDE DEF fitted
    <3> QED BY <3>1 DEF Lacks
  <2>2. CASE parts # <<>>
    <3>1. Last(parts) \in Seq(Symbol)
      BY <1>2, <2>2 DEF Last
    <3>2. <<>> \in Seq(Symbol)
      OBVIOUS
    <3>3. fitted = Fit(Last(parts), <<>>, Room(dir))
      BY <2>2
    <3> HIDE DEF fitted
    <3> QED BY <1>8, <3>1, <3>2, <3>3, FitIs
  <2> QED BY <2>1, <2>2
<1> HIDE DEF fitted
<1>10. file \in Seq(Symbol) /\ Lacks(file, Dropped) /\ (file # <<>> => Size(file) <= Room(dir))
  <2>1. Size(Placeholder) \in Nat
    BY <1>3, SizeIs
  <2> QED BY <1>3, <1>8, <1>9, <2>1
<1> HIDE DEF file
<1> DEFINE base == [dir |-> dir, file |-> file]
<1>11. base.dir = dir /\ base.file = file /\ base \in Base
  BY <1>7, <1>10 DEF Base
<1> HIDE DEF base
<1>12. IsBase(base)
  BY <1>7, <1>10, <1>11 DEF IsBase, IsFile
<1> QED BY <1>1, <1>12 DEF base

-----------------------------------------------------------------------------
(* Numbered paths.                                                         *)

Ext(base, s) == SplitAt(base.file, <<s>>, Room(base.dir)).ext

\* The number s shows where it stands in the numbered name of `base`.
Shows(base, s) == Marked(base.file, Ext(base, s))

LEMMA NumberedIs ==
    ASSUME NEW base, IsBase(base), NEW s, IsNumber(s)
    PROVE  /\ Numbered(base, <<s>>) \in Path
           /\ Numbered(base, <<s>>) # <<>> =>
                \E f : /\ IsFile(base, f) /\ f = Fit(base.file, <<s>>, Room(base.dir))
                       /\ Numbered(base, <<s>>) = PathWith(base, f)
<1> DEFINE f == Fit(base.file, <<s>>, Room(base.dir))
<1>1. base.dir \in Path /\ base.file \in Seq(Symbol)
  BY DEF IsBase, Base
<1>2. <<s>> \in Seq(Symbol)
  BY SizeOne DEF IsNumber
<1>3. Room(base.dir) \in Nat
  BY <1>1, RoomIs
<1>4. f \in Seq(Symbol) /\ Lacks(f, Dropped) /\ Size(f) <= Room(base.dir)
  BY <1>1, <1>2, <1>3, FitIs
<1>5. Numbered(base, <<s>>) = IF f = <<>> THEN <<>> ELSE PathWith(base, f)
  BY DEF Numbered
<1> HIDE DEF f
<1>6. PathWith(base, f) \in Path
  BY <1>1, <1>4, PathWithIs
<1>7. <<>> \in Path
  BY DEF Path
<1> QED BY <1>4, <1>5, <1>6, <1>7 DEF IsFile, f

LEMMA NumberedOther ==
    ASSUME NEW base, IsBase(base), NEW s, IsNumber(s), NEW t, IsNumber(t), s.width = t.width
    PROVE  Numbered(base, <<s>>) = <<>> <=> Numbered(base, <<t>>) = <<>>
<1>1. base.dir \in Path /\ base.file \in Seq(Symbol) /\ Lacks(base.file, Dropped)
  BY DEF IsBase, Base
<1>2. Room(base.dir) \in Nat
  BY <1>1, RoomIs
<1>3. Fit(base.file, <<s>>, Room(base.dir)) = <<>> <=> Fit(base.file, <<t>>, Room(base.dir)) = <<>>
  <2> DEFINE F(x) == Fit(base.file, <<x>>, Room(base.dir))
             ext == Ext(base, s)
  <2>1. \/ F(s) = <<>> /\ F(t) = <<>>
        \/ \E k : Shown(base.file, s, ext, k, F(s)) /\ Shown(base.file, t, ext, k, F(t))
    BY <1>1, <1>2, FitNumber DEF Ext
  <2>2. ext \in Seq(Symbol)
    BY <1>1, SplitIs DEF Ext, IsSplit
  <2> HIDE DEF F, ext
  <2>3. ASSUME NEW k, NEW x, Shown(base.file, x, ext, k, F(x)) PROVE F(x) # <<>>
    <3>1. Len(F(x)) = k + 1 + Len(ext) /\ k \in Nat /\ Len(ext) \in Nat /\ F(x) \in Seq(Symbol)
      BY <1>1, <2>2, <2>3 DEF Shown
    <3> QED BY <3>1
  <2> QED BY <2>1, <2>3 DEF F
<1> DEFINE f == Fit(base.file, <<s>>, Room(base.dir))
           g == Fit(base.file, <<t>>, Room(base.dir))
<1>4. /\ Numbered(base, <<s>>) = IF f = <<>> THEN <<>> ELSE PathWith(base, f)
      /\ Numbered(base, <<t>>) = IF g = <<>> THEN <<>> ELSE PathWith(base, g)
  BY DEF Numbered
<1>5. f # <<>> => PathWith(base, f) # <<>>
  <2>1. f \in Seq(Symbol)
    BY <1>1, <1>2, FitIs, SizeOne DEF IsNumber
  <2> QED BY <1>1, <2>1, PathWithIs
<1>6. g # <<>> => PathWith(base, g) # <<>>
  <2>1. g \in Seq(Symbol)
    BY <1>1, <1>2, FitIs, SizeOne DEF IsNumber
  <2> QED BY <1>1, <2>1, PathWithIs
<1> HIDE DEF f, g
<1> QED BY <1>3, <1>4, <1>5, <1>6 DEF f, g

LEMMA PathWithFold ==
    ASSUME NEW b, b.dir \in Path, NEW c, c.dir \in Path, NEW f \in Seq(Symbol), NEW g \in Seq(Symbol)
    PROVE  FoldPath(PathWith(b, f)) = FoldPath(PathWith(c, g)) <=>
             FoldPath(b.dir) = FoldPath(c.dir) /\ FoldName(f) = FoldName(g)
<1> DEFINE p == PathWith(b, f)
           q == PathWith(c, g)
           n == Len(b.dir)
<1>1. p \in Path /\ Len(p) = n + 1 /\ p[n + 1] = f /\ \A k \in 1 .. n : p[k] = b.dir[k]
  BY PathWithIs
<1>2. q \in Path /\ Len(q) = Len(c.dir) + 1 /\ q[Len(c.dir) + 1] = g /\ \A k \in 1 .. Len(c.dir) : q[k] = c.dir[k]
  BY PathWithIs
<1>n. n \in Nat /\ Len(c.dir) \in Nat
  BY DEF Path
<1> HIDE DEF p, q, n
<1>3. FoldPath(p) = FoldPath(q) <=> Len(p) = Len(q) /\ \A k \in 1 .. Len(p) : FoldName(p[k]) = FoldName(q[k])
  BY <1>1, <1>2, FoldPathEq
<1>4. FoldPath(b.dir) = FoldPath(c.dir) <=>
        n = Len(c.dir) /\ \A k \in 1 .. n : FoldName(b.dir[k]) = FoldName(c.dir[k])
  BY FoldPathEq DEF n
<1>5. ASSUME FoldPath(p) = FoldPath(q) PROVE FoldPath(b.dir) = FoldPath(c.dir) /\ FoldName(f) = FoldName(g)
  <2>1. n = Len(c.dir) /\ \A k \in 1 .. n + 1 : FoldName(p[k]) = FoldName(q[k])
    BY <1>1, <1>2, <1>3, <1>5, <1>n
  <2>2. ASSUME NEW k \in 1 .. n PROVE FoldName(b.dir[k]) = FoldName(c.dir[k])
    <3>1. k \in 1 .. n + 1 /\ k \in 1 .. Len(c.dir)
      BY <1>n, <2>1
    <3> QED BY <1>1, <1>2, <2>1, <3>1
  <2>3. n + 1 \in 1 .. n + 1
    BY <1>n
  <2> QED BY <1>1, <1>2, <1>4, <2>1, <2>2, <2>3
<1>6. ASSUME FoldPath(b.dir) = FoldPath(c.dir), FoldName(f) = FoldName(g) PROVE FoldPath(p) = FoldPath(q)
  <2>1. n = Len(c.dir) /\ \A k \in 1 .. n : FoldName(b.dir[k]) = FoldName(c.dir[k])
    BY <1>4, <1>6
  <2>2. ASSUME NEW k \in 1 .. n + 1 PROVE FoldName(p[k]) = FoldName(q[k])
    <3>1. CASE k = n + 1
      BY <1>1, <1>2, <1>6, <2>1, <3>1
    <3>2. CASE k # n + 1
      <4>1. k \in 1 .. n /\ k \in 1 .. Len(c.dir)
        BY <1>n, <2>1, <3>2
      <4> QED BY <1>1, <1>2, <2>1, <4>1
    <3> QED BY <3>1, <3>2
  <2> QED BY <1>1, <1>2, <1>3, <2>1, <2>2
<1> QED BY <1>5, <1>6 DEF p, q

Collide(b, s, c, t) ==
    /\ IsBase(b) /\ IsBase(c) /\ IsNumber(s) /\ IsNumber(t) /\ Shows(b, s) /\ Shows(c, t)
    /\ Numbered(b, <<s>>) # <<>>
    /\ FoldPath(Numbered(b, <<s>>)) = FoldPath(Numbered(c, <<t>>))

\* Two numbered paths that collide have one number, and with every other number of
\* its width they collide as well.
LEMMA Apart ==
    ASSUME NEW b, NEW s, NEW c, NEW t, Collide(b, s, c, t)
    PROVE  /\ s = t
           /\ \A u : IsNumber(u) /\ u.width = s.width =>
                       FoldPath(Numbered(b, <<u>>)) = FoldPath(Numbered(c, <<u>>))
<1>0. /\ IsBase(b) /\ IsBase(c) /\ IsNumber(s) /\ IsNumber(t) /\ Shows(b, s) /\ Shows(c, t)
      /\ Numbered(b, <<s>>) # <<>>
      /\ FoldPath(Numbered(b, <<s>>)) = FoldPath(Numbered(c, <<t>>))
  BY DEF Collide
<1> DEFINE F(x) == Fit(b.file, <<x>>, Room(b.dir))
           G(x) == Fit(c.file, <<x>>, Room(c.dir))
           d == Ext(b, s)
           e == Ext(c, t)
<1>1. /\ b.dir \in Path /\ b.file \in Seq(Symbol) /\ Lacks(b.file, Dropped) /\ Room(b.dir) \in Nat
      /\ c.dir \in Path /\ c.file \in Seq(Symbol) /\ Lacks(c.file, Dropped) /\ Room(c.dir) \in Nat
  BY <1>0, RoomIs DEF IsBase, Base
<1>2. IsTail(d) /\ IsTail(e) /\ Marked(b.file, d) /\ Marked(c.file, e)
  <2>1. IsTail(d)
    BY <1>1, SplitIs DEF Ext, IsSplit, IsTail
  <2>2. IsTail(e)
    BY <1>1, SplitIs DEF Ext, IsSplit, IsTail
  <2> QED BY <1>0, <2>1, <2>2 DEF Shows
<1>3. ASSUME NEW u, IsNumber(u), u.width = s.width
      PROVE  \/ F(s) = <<>> /\ F(u) = <<>>
             \/ \E k : Shown(b.file, s, d, k, F(s)) /\ Shown(b.file, u, d, k, F(u))
  BY <1>0, <1>1, <1>3, FitNumber DEF Ext
<1>4. ASSUME NEW u, IsNumber(u), u.width = t.width
      PROVE  \/ G(t) = <<>> /\ G(u) = <<>>
             \/ \E k : Shown(c.file, t, e, k, G(t)) /\ Shown(c.file, u, e, k, G(u))
  BY <1>0, <1>1, <1>4, FitNumber DEF Ext
<1>5. ASSUME NEW x, IsNumber(x)
      PROVE  /\ F(x) \in Seq(Symbol)
             /\ Numbered(b, <<x>>) = (IF F(x) = <<>> THEN <<>> ELSE PathWith(b, F(x)))
             /\ G(x) \in Seq(Symbol)
             /\ Numbered(c, <<x>>) = (IF G(x) = <<>> THEN <<>> ELSE PathWith(c, G(x)))
  <2>1. <<x>> \in Seq(Symbol)
    BY <1>5, SizeOne DEF IsNumber
  <2> QED BY <1>1, <2>1, FitIs DEF Numbered
<1> HIDE DEF F, G, d, e
<1>6. F(s) # <<>> /\ G(t) # <<>>
  <2>1. Numbered(b, <<s>>) \in Path /\ Numbered(c, <<t>>) \in Path
    BY <1>0, NumberedIs
  <2>2. Numbered(c, <<t>>) # <<>>
    BY <1>0, <2>1, FoldPathIs
  <2> QED BY <1>0, <1>5, <2>2
<1>7. FoldPath(b.dir) = FoldPath(c.dir) /\ FoldName(F(s)) = FoldName(G(t))
  BY <1>0, <1>1, <1>5, <1>6, PathWithFold
<1>8. s = t
  <2>1. PICK k : Shown(b.file, s, d, k, F(s))
    BY <1>0, <1>3, <1>6
  <2>2. PICK l : Shown(c.file, t, e, l, G(t))
    BY <1>0, <1>4, <1>6
  <2>3. Place(b.file, s, d, k, F(s)) /\ Place(c.file, t, e, l, G(t))
    BY <1>0, <1>1, <1>2, <2>1, <2>2 DEF Place
  <2> QED BY <1>7, <2>3, PlaceSame
<1>9. ASSUME NEW u, IsNumber(u), u.width = s.width
      PROVE  FoldPath(Numbered(b, <<u>>)) = FoldPath(Numbered(c, <<u>>))
  <2>1. PICK k : Shown(b.file, s, d, k, F(s)) /\ Shown(b.file, u, d, k, F(u))
    BY <1>0, <1>3, <1>6, <1>9
  <2>2. PICK l : Shown(c.file, t, e, l, G(t)) /\ Shown(c.file, u, e, l, G(u))
    BY <1>0, <1>4, <1>6, <1>8, <1>9
  <2>3. Place(b.file, s, d, k, F(s)) /\ Place(c.file, t, e, l, G(t))
    BY <1>0, <1>1, <1>2, <2>1, <2>2 DEF Place
  <2>4. k = l
    BY <1>7, <2>3, PlaceSame
  <2>5. FoldName(F(u)) = FoldName(G(u))
    <3>1. d \in Seq(Symbol) /\ e \in Seq(Symbol)
      BY <1>2 DEF IsTail
    <3> QED BY <1>7, <2>1, <2>2, <2>4, <3>1, PlaceOther
  <2>6. F(u) # <<>> /\ G(u) # <<>>
    <3>1. d \in Seq(Symbol) /\ e \in Seq(Symbol)
      BY <1>2 DEF IsTail
    <3>2. F(u) \in Seq(Symbol) /\ Len(F(u)) = k + 1 + Len(d) /\ k \in Nat
      BY <2>1 DEF Shown
    <3>3. G(u) \in Seq(Symbol) /\ Len(G(u)) = l + 1 + Len(e) /\ l \in Nat
      BY <2>2 DEF Shown
    <3>4. F(u) # <<>>
      BY <3>1, <3>2
    <3>5. G(u) # <<>>
      BY <3>1, <3>3
    <3> QED BY <3>4, <3>5
  <2> QED BY <1>1, <1>5, <1>7, <1>9, <2>5, <2>6, PathWithFold
<1> QED BY <1>8, <1>9

-----------------------------------------------------------------------------
(* Numbers and their widths.                                               *)

NumberSign(m) == [is |-> "#", n |-> m, width |-> Width(m)]
ZeroSign(m)   == [is |-> "#", n |-> 0, width |-> Width(m)]

EndsUpTo(m) == {e \in WidthEnds : e <= m}

LEMMA EndsFinite ==
    ASSUME NEW m \in Nat
    PROVE  /\ IsFiniteSet(EndsUpTo(m)) /\ Cardinality(EndsUpTo(m)) \in Nat
           /\ Width(m) = 1 + Cardinality(EndsUpTo(m)) /\ Width(m) \in Nat
<1>1. EndsUpTo(m) \in SUBSET Nat /\ \A e \in EndsUpTo(m) : e <= m
  BY ConstantsAssumption DEF EndsUpTo
<1>2. IsFiniteSet(EndsUpTo(m))
  BY <1>1, FS_BoundedSetOfNaturals
<1>3. Cardinality(EndsUpTo(m)) \in Nat
  BY <1>2, FS_CardinalityType
<1>4. Width(m) = 1 + Cardinality(EndsUpTo(m))
  BY DEF Width, EndsUpTo
<1> QED BY <1>2, <1>3, <1>4

LEMMA Signs ==
    ASSUME NEW m \in Nat
    PROVE  /\ Number(m) = <<NumberSign(m)>> /\ Zeros(m) = <<ZeroSign(m)>>
           /\ IsNumber(NumberSign(m)) /\ IsNumber(ZeroSign(m))
           /\ NumberSign(m).width = Width(m) /\ ZeroSign(m).width = Width(m) /\ NumberSign(m).n = m
<1>1. Width(m) \in Nat /\ "#" \in Characters
  BY EndsFinite, ConstantsAssumption
<1>2. NumberSign(m) \in Symbol /\ ZeroSign(m) \in Symbol
  BY <1>1 DEF NumberSign, ZeroSign, Symbol
<1> QED BY <1>2 DEF Number, Zeros, NumberSign, ZeroSign, IsNumber

LEMMA WidthSame ==
    ASSUME NEW m \in Nat, NEW k \in Nat, m <= k
    PROVE  Width(m) = Width(k) <=> \A e \in WidthEnds : ~(m < e /\ e <= k)
<1>1. WidthEnds \subseteq Nat
  BY ConstantsAssumption
<1>2. EndsUpTo(m) \in SUBSET EndsUpTo(k)
  <2>1. ASSUME NEW e \in WidthEnds, e <= m PROVE e <= k
    <3>1. e \in Nat
      BY <1>1
    <3> QED BY <2>1, <3>1
  <2> QED BY <2>1 DEF EndsUpTo
<1>3. /\ IsFiniteSet(EndsUpTo(k))
      /\ Width(m) = 1 + Cardinality(EndsUpTo(m)) /\ Width(k) = 1 + Cardinality(EndsUpTo(k))
      /\ Cardinality(EndsUpTo(m)) \in Nat /\ Cardinality(EndsUpTo(k)) \in Nat
  BY EndsFinite
<1>4. Cardinality(EndsUpTo(k)) = Cardinality(EndsUpTo(m)) => EndsUpTo(k) = EndsUpTo(m)
  BY <1>2, <1>3, FS_Subset
<1>5. Width(m) = Width(k) <=> EndsUpTo(k) = EndsUpTo(m)
  BY <1>3, <1>4
<1>6. EndsUpTo(k) = EndsUpTo(m) <=> \A e \in WidthEnds : ~(m < e /\ e <= k)
  <2>1. EndsUpTo(k) = EndsUpTo(m) <=> \A e \in WidthEnds : e <= k => e <= m
    BY <1>2 DEF EndsUpTo
  <2>2. \A e \in WidthEnds : (e <= k => e <= m) <=> ~(m < e /\ e <= k)
    <3>1. \A e \in Nat : (e <= k => e <= m) <=> ~(m < e /\ e <= k)
      OBVIOUS
    <3> QED BY <1>1, <3>1
  <2> QED BY <2>1, <2>2
<1> QED BY <1>5, <1>6

LEMMA WidthEndIs ==
    ASSUME NEW m \in Nat, NEW last \in Nat, m <= last
    PROVE  /\ WidthEnd(m, last) \in Nat /\ m < WidthEnd(m, last) /\ WidthEnd(m, last) <= last + 1
           /\ \A k \in m .. WidthEnd(m, last) - 1 : Width(k) = Width(m)
           /\ WidthEnd(m, last) = last + 1 \/ WidthEnd(m, last) \in WidthEnds
           /\ \A e \in WidthEnds : e > m => WidthEnd(m, last) <= e
<1> DEFINE S == {e \in WidthEnds : e > m} \cup {last + 1}
           end == WidthEnd(m, last)
<1>1. WidthEnds \subseteq Nat
  BY ConstantsAssumption
<1>2. S \subseteq Nat /\ S # {}
  <2>1. last + 1 \in Nat
    OBVIOUS
  <2>2. {e \in WidthEnds : e > m} \subseteq Nat
    BY <1>1
  <2> QED BY <2>1, <2>2
<1>3. end = Min(S)
  BY DEF WidthEnd
<1>4. end \in S /\ \A y \in S : end <= y
  <2> HIDE DEF S, end
  <2> QED BY <1>2, <1>3, MinIn
<1> HIDE DEF end
<1>5. end \in Nat /\ m < end /\ end <= last + 1 /\ (end = last + 1 \/ end \in WidthEnds)
      /\ \A e \in WidthEnds : e > m => end <= e
  BY <1>1, <1>4
<1>6. ASSUME NEW k \in m .. end - 1 PROVE Width(k) = Width(m)
  <2>1. k \in Nat /\ m <= k /\ k < end
    BY <1>5
  <2>2. \A e \in WidthEnds : ~(m < e /\ e <= k)
    BY <1>1, <1>5, <2>1
  <2> QED BY <2>1, <2>2, WidthSame
<1> QED BY <1>5, <1>6 DEF end

LEMMA FamilyIs ==
    ASSUME NEW base, IsBase(base), NEW m \in Nat
    PROVE  /\ Family(base, m) = FoldPath(Numbered(base, <<ZeroSign(m)>>)) /\ Family(base, m) \in Path
           /\ Family(base, m) # <<>> <=> Numbered(base, <<ZeroSign(m)>>) # <<>>
           /\ \A k \in Nat : Width(k) = Width(m) =>
                (Family(base, m) = <<>> <=> Numbered(base, Number(k)) = <<>>)
<1>1. Family(base, m) = FoldPath(Numbered(base, <<ZeroSign(m)>>))
  BY Signs DEF Family
<1>2. Numbered(base, <<ZeroSign(m)>>) \in Path
  BY Signs, NumberedIs
<1>3. Family(base, m) \in Path /\ (Family(base, m) # <<>> <=> Numbered(base, <<ZeroSign(m)>>) # <<>>)
  BY <1>1, <1>2, FoldPathIs
<1>4. ASSUME NEW k \in Nat, Width(k) = Width(m)
      PROVE  Family(base, m) = <<>> <=> Numbered(base, Number(k)) = <<>>
  <2>1. /\ Number(k) = <<NumberSign(k)>> /\ IsNumber(NumberSign(k)) /\ IsNumber(ZeroSign(m))
        /\ NumberSign(k).width = ZeroSign(m).width
    BY <1>4, Signs
  <2>2. Numbered(base, <<NumberSign(k)>>) = <<>> <=> Numbered(base, <<ZeroSign(m)>>) = <<>>
    BY <2>1, NumberedOther
  <2> QED BY <1>3, <2>1, <2>2
<1> QED BY <1>1, <1>3, <1>4

\* Every number of the range shows in the numbered names of `base`.
ShowsUpTo(base, top) ==
    \/ \A k \in 1 .. Len(base.file) - 1 : base.file[k].is = "#" => base.file[k + 1] # Extension
    \/ \A m \in 2 .. top : SplitAt(base.file, Number(m), Room(base.dir)).ext # <<>>

LEMMA ShowsAll ==
    ASSUME NEW base, IsBase(base), NEW top \in Nat, ShowsUpTo(base, top), NEW m \in 2 .. top
    PROVE  Shows(base, NumberSign(m)) /\ Shows(base, ZeroSign(m))
<1>0. m \in Nat
  OBVIOUS
<1>1. /\ Number(m) = <<NumberSign(m)>> /\ IsNumber(NumberSign(m)) /\ IsNumber(ZeroSign(m))
      /\ NumberSign(m).width = ZeroSign(m).width
  BY <1>0, Signs
<1>2. base.dir \in Path /\ base.file \in Seq(Symbol) /\ Lacks(base.file, Dropped)
  BY DEF IsBase, Base
<1>3. Room(base.dir) \in Nat
  BY <1>2, RoomIs
<1>4. Ext(base, ZeroSign(m)) = Ext(base, NumberSign(m))
  BY <1>1, <1>2, <1>3, FitNumber DEF Ext
<1>5. Marked(base.file, Ext(base, NumberSign(m)))
  BY <1>1 DEF ShowsUpTo, Marked, Ext
<1> QED BY <1>4, <1>5 DEF Shows

LEMMA NumbersApart ==
    ASSUME NEW base, IsBase(base), NEW top \in Nat, ShowsUpTo(base, top),
           NEW m \in 2 .. top, NEW k \in 2 .. top, Numbered(base, Number(m)) # <<>>,
           FoldPath(Numbered(base, Number(m))) = FoldPath(Numbered(base, Number(k)))
    PROVE  m = k
<1>0. m \in Nat /\ k \in Nat
  OBVIOUS
<1>1. /\ Number(m) = <<NumberSign(m)>> /\ IsNumber(NumberSign(m)) /\ NumberSign(m).n = m
      /\ Number(k) = <<NumberSign(k)>> /\ IsNumber(NumberSign(k)) /\ NumberSign(k).n = k
  BY <1>0, Signs
<1>2. Shows(base, NumberSign(m)) /\ Shows(base, NumberSign(k))
  BY ShowsAll
<1>3. NumberSign(m) = NumberSign(k)
  <2>1. Collide(base, NumberSign(m), base, NumberSign(k))
    BY <1>1, <1>2 DEF Collide
  <2> QED BY <2>1, Apart
<1> QED BY <1>1, <1>3

OneFamily(b, m, c, k, top) ==
    /\ IsBase(b) /\ IsBase(c) /\ top \in Nat /\ ShowsUpTo(b, top) /\ ShowsUpTo(c, top)
    /\ m \in 2 .. top /\ k \in 2 .. top /\ Family(b, m) = Family(c, k) /\ Family(b, m) # <<>>

\* The names of one family, of numbers of one width, are those of any of its entries.
LEMMA FamiliesAgree ==
    ASSUME NEW b, NEW m, NEW c, NEW k, NEW top, OneFamily(b, m, c, k, top)
    PROVE  /\ Width(m) = Width(k)
           /\ \A j \in Nat : Width(j) = Width(m) =>
                FoldPath(Numbered(b, Number(j))) = FoldPath(Numbered(c, Number(j)))
<1>0. /\ m \in Nat /\ k \in Nat /\ IsBase(b) /\ IsBase(c)
      /\ Family(b, m) = Family(c, k) /\ Family(b, m) # <<>>
  BY DEF OneFamily
<1> DEFINE s == ZeroSign(m)
           t == ZeroSign(k)
<1>1. IsNumber(s) /\ IsNumber(t) /\ s.width = Width(m) /\ t.width = Width(k)
  BY <1>0, Signs
<1>2. Shows(b, s) /\ Shows(c, t)
  BY ShowsAll DEF OneFamily
<1>3. Numbered(b, <<s>>) # <<>> /\ FoldPath(Numbered(b, <<s>>)) = FoldPath(Numbered(c, <<t>>))
  BY <1>0, FamilyIs
<1> HIDE DEF s, t
<1>4. /\ s = t
      /\ \A u : IsNumber(u) /\ u.width = s.width =>
                  FoldPath(Numbered(b, <<u>>)) = FoldPath(Numbered(c, <<u>>))
  <2>1. Collide(b, s, c, t)
    BY <1>0, <1>1, <1>2, <1>3 DEF Collide
  <2> QED BY <2>1, Apart
<1>5. ASSUME NEW j \in Nat, Width(j) = Width(m)
      PROVE  FoldPath(Numbered(b, Number(j))) = FoldPath(Numbered(c, Number(j)))
  <2>1. Number(j) = <<NumberSign(j)>> /\ IsNumber(NumberSign(j)) /\ NumberSign(j).width = s.width
    BY <1>1, <1>5, Signs
  <2> QED BY <1>4, <2>1
<1> QED BY <1>1, <1>4, <1>5

-----------------------------------------------------------------------------
(* The invariant.                                                          *)

TypeInv ==
    /\ given \in Inputs
    /\ pc \in {"repair", "keep", "number", "embed", "built", "refused"}
    /\ repaired \in [Entries -> Path \cup {NoPath}]
    /\ number \in Nat /\ number >= 2
    /\ \A family \in DOMAIN resume : resume[family] \in Nat

\* What no list has before its paths are kept.
Untouched == taken = {} /\ clashes = {} /\ number = 2 /\ resume = <<>> /\ errors = {}

BasesInv == bases \in [WithPath -> Base] /\ \A i \in WithPath : IsBase(bases[i])

Done == {i \in WithPath : repaired[i] # NoPath}
Folded(i) == FoldPath(repaired[i])

\* The paths given out are those in `taken`, one to an entry, and no directories.
NamesInv ==
    /\ \A i \in Entries \ WithPath : repaired[i] = NoPath
    /\ \A i \in Done : \E f : IsFile(bases[i], f) /\ repaired[i] = PathWith(bases[i], f)
    /\ taken = {Folded(i) : i \in Done}
    /\ \A i \in Done : Folded(i) \notin Dirs
    /\ \A i, j \in Done : i # j => Folded(i) # Folded(j)

\* The entries that clash are gone through in their order.
ClashesInv ==
    /\ clashes \subseteq Clashing
    /\ \A i \in WithPath \ Clashing : repaired[i] = Own(i)
    /\ \A i \in clashes : repaired[i] = NoPath
    /\ \A i \in Clashing \ clashes :
          (repaired[i] = NoPath => i \in errors) /\ \A j \in clashes : i < j
    /\ errors \subseteq Clashing \ clashes
    /\ pc \in {"embed", "built"} => errors = {} /\ clashes = {}

Reached == taken \cup Dirs
LastNumber == 2 + Cardinality(taken) + Cardinality(Dirs)
Top == 2 + Len(given) + Cardinality(Dirs)

\* The name that number m gives entry i is taken.
NoneFree(i, m) ==
    /\ Numbered(bases[i], Number(m)) # <<>>
    /\ FoldPath(Numbered(bases[i], Number(m))) \in Reached

StartsWidth(m) == m = 2 \/ m \in WidthEnds

AllShow == \A j \in Clashing : ShowsNumber(j)

\* What the search of the first clash has behind it is taken.
SearchInv ==
    clashes # {} =>
      /\ number > LastNumber \/ StartsWidth(number)
      /\ \A m \in 2 .. number - 1 : NoneFree(Min(clashes), m)

\* What a family's search, of entry i from m, has behind it is taken.
Behind(i, m, family) ==
    /\ i \in Clashing /\ m \in 2 .. Top /\ StartsWidth(m)
    /\ family = Family(bases[i], m) /\ family # <<>>
    /\ \A k \in m .. resume[family] - 1 : Width(k) = Width(m) /\ NoneFree(i, k)

ResumeInv == \A family \in DOMAIN resume : \E i, m : Behind(i, m, family)

NumberedInv == \A i \in Clashing \cap Done : LowestFree(i)

BuiltInv ==
    /\ built # {} => pc = "built"
    /\ \A entry \in built : entry.original = given[entry.source]

Inv ==
    /\ TypeInv
    /\ pc \in {"repair", "keep"} => Untouched
    /\ pc # "repair" => BasesInv
    /\ pc = "keep" => \A i \in WithPath : bases[i].file # <<>>
    /\ pc \in {"number", "embed", "built"} =>
          /\ NamesInv
          /\ ClashesInv
          /\ AllShow => SearchInv /\ ResumeInv /\ NumberedInv
    /\ RefusedForRoom
    /\ BuiltInv

LEMMA EntriesAre ==
    ASSUME given \in Inputs
    PROVE  /\ given \in Seq(Path \cup {NoPath}) /\ Len(given) \in Nat /\ Entries = 1 .. Len(given)
           /\ WithPath \subseteq Entries /\ WithPath \subseteq Nat /\ Clashing \subseteq WithPath
           /\ \A i \in WithPath : given[i] \in Path
           /\ NoPath \notin Path /\ IsFiniteSet(Entries) /\ Cardinality(Entries) = Len(given)
<1>1. given \in Seq(Path \cup {NoPath}) /\ NoPath \notin Path
  BY ConstantsAssumption
<1>2. Len(given) \in Nat /\ Entries = 1 .. Len(given) /\ \A i \in Entries : given[i] \in Path \cup {NoPath}
  BY <1>1 DEF Entries
<1>3. WithPath \subseteq Entries /\ Clashing \subseteq WithPath /\ \A i \in WithPath : given[i] # NoPath
  BY DEF WithPath, Clashing
<1>4. IsFiniteSet(Entries) /\ Cardinality(Entries) = Len(given)
  <2>1. IsFiniteSet(1 .. Len(given)) /\ Cardinality(1 .. Len(given)) = IF 1 > Len(given) THEN 0 ELSE Len(given) - 1 + 1
    BY <1>2, FS_Interval
  <2> QED BY <1>2, <2>1
<1>5. WithPath \subseteq Nat
  BY <1>2, <1>3
<1>6. \A i \in WithPath : given[i] \in Path
  BY <1>2, <1>3
<1> QED BY <1>1, <1>2, <1>3, <1>4, <1>5, <1>6

LEMMA PrefixesFinite ==
    ASSUME NEW dir \in Path
    PROVE  IsFiniteSet(DirectoryPrefixes(dir))
<1>1. DOMAIN dir = 1 .. Len(dir) /\ Len(dir) \in Nat
  BY DEF Path
<1>2. IsFiniteSet(DOMAIN dir)
  BY <1>1, FS_Interval
<1> DEFINE f == [k \in DOMAIN dir |-> SubSeq(dir, 1, k)]
<1>3. f \in Surjection(DOMAIN dir, DirectoryPrefixes(dir))
  BY DEF Surjection, DirectoryPrefixes
<1> QED BY <1>2, <1>3, FS_Surjection

LEMMA DirsFinite ==
    ASSUME given \in Inputs, BasesInv
    PROVE  /\ IsFiniteSet(Dirs) /\ Cardinality(Dirs) \in Nat /\ Top \in Nat
           /\ \A i \in WithPath : \A dir \in DirectoryPrefixes(bases[i].dir) : FoldPath(dir) \in Dirs
<1> DEFINE upTo(k) == UNION {DirectoryPrefixes(bases[i].dir) : i \in {i \in WithPath : i <= k}}
           n == Len(given)
           T == {k \in 0 .. n : IsFiniteSet(upTo(k))}
<1>1. n \in Nat /\ \A i \in WithPath : i \in 1 .. n
  BY EntriesAre
<1>2. 0 \in T
  <2>1. upTo(0) = {}
    BY <1>1
  <2>2. IsFiniteSet(upTo(0))
    BY <2>1, FS_EmptySet
  <2> HIDE DEF upTo
  <2> QED BY <1>1, <2>2
<1>3. ASSUME NEW k \in 0 .. n - 1, k \in T PROVE k + 1 \in T
  <2>0. k + 1 \in 0 .. n /\ IsFiniteSet(upTo(k)) /\ k \in Nat
    BY <1>1, <1>3
  <2>1. CASE k + 1 \in WithPath
    <3>1. upTo(k + 1) = upTo(k) \cup DirectoryPrefixes(bases[k + 1].dir)
      <4>1. {i \in WithPath : i <= k + 1} = {i \in WithPath : i <= k} \cup {k + 1}
        BY <1>1, <2>0, <2>1
      <4> QED BY <4>1
    <3>2. bases[k + 1].dir \in Path
      BY <2>1 DEF BasesInv, IsBase, Base
    <3>3. IsFiniteSet(DirectoryPrefixes(bases[k + 1].dir))
      BY <3>2, PrefixesFinite
    <3> HIDE DEF upTo
    <3>4. IsFiniteSet(upTo(k) \cup DirectoryPrefixes(bases[k + 1].dir))
      BY <2>0, <3>3, FS_Union
    <3> QED BY <2>0, <3>1, <3>4
  <2>2. CASE k + 1 \notin WithPath
    <3>1. upTo(k + 1) = upTo(k)
      <4>1. {i \in WithPath : i <= k + 1} = {i \in WithPath : i <= k}
        BY <1>1, <2>0, <2>2
      <4> QED BY <4>1
    <3> HIDE DEF upTo
    <3> QED BY <2>0, <3>1
  <2> QED BY <2>1, <2>2
<1>4. IsFiniteSet(upTo(n))
  <2>1. n \in T
    <3> HIDE DEF T, n
    <3>1. 0 .. n \subseteq T
      BY <1>1, <1>2, <1>3, UpTo
    <3> QED BY <1>1, <3>1
  <2> HIDE DEF upTo
  <2> QED BY <2>1
<1> DEFINE dirs == UNION {DirectoryPrefixes(bases[i].dir) : i \in WithPath}
<1>5. dirs = upTo(n)
  <2>1. {i \in WithPath : i <= n} = WithPath
    BY <1>1
  <2> QED BY <2>1
<1>6. IsFiniteSet(dirs)
  <2> HIDE DEF dirs, upTo
  <2> QED BY <1>4, <1>5
<1>7. Dirs = {FoldPath(dir) : dir \in dirs}
  BY DEF Dirs
<1> DEFINE f == [dir \in dirs |-> FoldPath(dir)]
<1>8. IsFiniteSet(Dirs)
  <2> HIDE DEF dirs
  <2>1. f \in Surjection(dirs, Dirs)
    BY <1>7 DEF Surjection
  <2> QED BY <1>6, <2>1, FS_Surjection
<1>9. Cardinality(Dirs) \in Nat
  BY <1>8, FS_CardinalityType
<1>10. Top \in Nat
  BY <1>1, <1>9 DEF Top
<1> QED BY <1>7, <1>8, <1>9, <1>10

\* What depends on the given paths alone.
LEMMA StaticSame ==
    ASSUME UNCHANGED <<given, bases>>
    PROVE  /\ Entries' = Entries /\ WithPath' = WithPath /\ Dirs' = Dirs /\ Clashing' = Clashing
           /\ AllShow' = AllShow /\ BasesInv' = BasesInv /\ Top' = Top
           /\ \A i : Own(i)' = Own(i) /\ ShowsNumber(i)' = ShowsNumber(i)
<1>1. Entries' = Entries /\ WithPath' = WithPath
  BY DEF Entries, WithPath
<1>2. Dirs' = Dirs
  BY <1>1 DEF Dirs
<1>3. \A i : Own(i)' = Own(i)
  BY DEF Own
<1>4. Clashing' = Clashing
  BY <1>1, <1>2, <1>3 DEF Clashing, Key
<1>5. \A i : ShowsNumber(i)' = ShowsNumber(i)
  BY <1>2 DEF ShowsNumber
<1>6. AllShow' = AllShow
  BY <1>4, <1>5 DEF AllShow
<1>7. BasesInv' = BasesInv
  BY <1>1 DEF BasesInv
<1>8. Top' = Top
  BY <1>2 DEF Top
<1> QED BY <1>1, <1>2, <1>3, <1>4, <1>5, <1>6, <1>7, <1>8

\* What clash i may not take, and the numbers that are enough for it, depend on the
\* paths given out alone.
LEMMA NamesSame ==
    ASSUME UNCHANGED <<given, bases, repaired, taken>>
    PROVE  /\ Done' = Done /\ NamesInv' = NamesInv /\ NumberedInv' = NumberedInv
           /\ \A i : Unfree(i)' = Unfree(i) /\ Enough(i)' = Enough(i)
           /\ Reached' = Reached /\ LastNumber' = LastNumber
           /\ \A i, m : NoneFree(i, m)' = NoneFree(i, m)
<1>1. /\ Entries' = Entries /\ WithPath' = WithPath /\ Dirs' = Dirs /\ Clashing' = Clashing
  BY StaticSame
<1>2. Done' = Done
  BY <1>1 DEF Done
<1>3. \A i : Unfree(i)' = Unfree(i)
  BY <1>1 DEF Unfree
<1>4. \A i : Enough(i)' = Enough(i)
  BY <1>3 DEF Enough
<1>5. \A i : LowestFree(i)' = LowestFree(i)
  BY <1>3, <1>4 DEF LowestFree
<1>6. NumberedInv' = NumberedInv
  BY <1>1, <1>2, <1>5 DEF NumberedInv
<1>7. \A i : Folded(i)' = Folded(i)
  BY DEF Folded
<1>8. NamesInv' = NamesInv
  BY <1>1, <1>2, <1>7 DEF NamesInv
<1>9. Reached' = Reached /\ LastNumber' = LastNumber
  BY <1>1 DEF Reached, LastNumber
<1>10. \A i, m : NoneFree(i, m)' = NoneFree(i, m)
  BY <1>9 DEF NoneFree
<1> QED BY <1>2, <1>3, <1>4, <1>6, <1>8, <1>9, <1>10

LEMMA ResumeSame ==
    ASSUME UNCHANGED <<given, bases, repaired, taken, resume>>
    PROVE  ResumeInv' = ResumeInv
<1>1. Clashing' = Clashing /\ Top' = Top /\ \A i, m : NoneFree(i, m)' = NoneFree(i, m)
  BY StaticSame, NamesSame
<1>2. \A i, m, family : Behind(i, m, family)' = Behind(i, m, family)
  BY <1>1 DEF Behind
<1> QED BY <1>2 DEF ResumeInv

-----------------------------------------------------------------------------
(* Every step but the numbering.                                           *)

LEMMA InitInv == Init => Inv
<1> SUFFICES ASSUME Init PROVE Inv
  OBVIOUS
<1>1. given \in Inputs /\ pc = "repair" /\ number = 2 /\ errors = {} /\ built = {} /\ Untouched
  BY DEF Init, Untouched
<1>2. TypeInv
  BY <1>1 DEF Init, TypeInv
<1>3. RefusedForRoom /\ BuiltInv
  BY <1>1 DEF RefusedForRoom, BuiltInv
<1> QED BY <1>1, <1>2, <1>3 DEF Inv

LEMMA RepairEachInv == Inv /\ RepairEach => Inv'
<1> SUFFICES ASSUME Inv, RepairEach PROVE Inv'
  OBVIOUS
<1> DEFINE own    == [i \in WithPath |-> RepairOne(given[i])]
           failed == {i \in WithPath : own[i].file = <<>>}
<1>1. /\ pc = "repair" /\ bases' = own /\ errors' = failed
      /\ pc' = (IF failed = {} THEN "keep" ELSE "refused")
      /\ UNCHANGED <<given, repaired, taken, clashes, number, resume, built>>
  BY DEF RepairEach
<1>2. given \in Inputs /\ Untouched /\ TypeInv /\ BuiltInv /\ built = {}
  BY <1>1 DEF Inv, TypeInv, BuiltInv
<1>3. Entries' = Entries /\ WithPath' = WithPath
  BY <1>1 DEF Entries, WithPath
<1>4. TypeInv'
  BY <1>1, <1>2, <1>3 DEF TypeInv
<1>5. ASSUME NEW i \in WithPath PROVE IsBase(own[i]) /\ own[i] \in Base
  <2>1. given[i] \in Path
    BY <1>2, EntriesAre
  <2>2. IsBase(RepairOne(given[i]))
    BY <2>1, RepairOneIs
  <2> QED BY <2>2 DEF IsBase
<1>6. BasesInv'
  <2>1. own \in [WithPath -> Base]
    BY <1>5
  <2> HIDE DEF own
  <2> QED BY <1>1, <1>3, <1>5, <2>1 DEF BasesInv
<1>7. pc' = "keep" => Untouched' /\ \A i \in WithPath' : bases'[i].file # <<>>
  <2> HIDE DEF own
  <2> QED BY <1>1, <1>2, <1>3 DEF Untouched
<1>8. RefusedForRoom'
  <2>1. \A i \in errors' : bases'[i].file = <<>>
    <3> HIDE DEF own
    <3> QED BY <1>1
  <2> QED BY <2>1 DEF RefusedForRoom, LacksRoom
<1>9. BuiltInv'
  BY <1>1, <1>2 DEF BuiltInv
<1>10. pc' \in {"keep", "refused"}
  BY <1>1
<1> QED BY <1>4, <1>6, <1>7, <1>8, <1>9, <1>10 DEF Inv

LEMMA KeepDistinctInv == Inv /\ KeepDistinct => Inv'
<1> SUFFICES ASSUME Inv, KeepDistinct PROVE Inv'
  OBVIOUS
<1> DEFINE kept == {i \in WithPath : /\ Key(i) \notin Dirs
                                     /\ \A j \in WithPath : Key(j) = Key(i) => i <= j}
<1>1. /\ pc = "keep" /\ pc' = "number"
      /\ repaired' = [i \in Entries |-> IF i \in kept THEN Own(i) ELSE NoPath]
      /\ taken' = {Key(i) : i \in kept}
      /\ clashes' = WithPath \ kept
      /\ UNCHANGED <<given, bases, number, resume, errors, built>>
  BY DEF KeepDistinct
<1>2. given \in Inputs /\ Untouched /\ TypeInv /\ BuiltInv /\ built = {} /\ BasesInv
      /\ \A i \in WithPath : bases[i].file # <<>>
  BY <1>1 DEF Inv, TypeInv, BuiltInv
<1>3. /\ Entries = 1 .. Len(given) /\ WithPath \subseteq Entries /\ WithPath \subseteq Nat
      /\ Clashing \subseteq WithPath /\ NoPath \notin Path
  BY <1>2, EntriesAre
<1>4. /\ Entries' = Entries /\ WithPath' = WithPath /\ Dirs' = Dirs /\ Clashing' = Clashing
      /\ BasesInv' /\ \A i : Own(i)' = Own(i)
  BY <1>1, <1>2, StaticSame
<1>5. kept = WithPath \ Clashing
  <2>1. ASSUME NEW i \in WithPath PROVE i \in kept <=> i \notin Clashing
    <3>1. \A j \in WithPath : (Key(j) = Key(i) => i <= j) <=> ~(j < i /\ Key(j) = Key(i))
      BY <1>3
    <3> QED BY <3>1 DEF Clashing
  <2> QED BY <2>1
<1>6. ASSUME NEW i \in kept, NEW j \in kept, Key(i) = Key(j) PROVE i = j
  <2>1. i <= j /\ j <= i /\ i \in Nat /\ j \in Nat
    BY <1>3, <1>6
  <2> QED BY <2>1
<1>7. \A i \in kept : Key(i) \notin Dirs
  OBVIOUS
<1> HIDE DEF kept
<1>8. ASSUME NEW i \in WithPath
      PROVE  IsFile(bases[i], bases[i].file) /\ Own(i) = PathWith(bases[i], bases[i].file) /\ Own(i) \in Path
  <2>1. IsBase(bases[i]) /\ bases[i].file # <<>>
    BY <1>2 DEF BasesInv
  <2>2. bases[i].dir \in Path /\ bases[i].file \in Seq(Symbol) /\ IsFile(bases[i], bases[i].file)
    BY <2>1 DEF IsBase, Base
  <2>3. PathWith(bases[i], bases[i].file) \in Path
    BY <2>2, PathWithIs
  <2> QED BY <2>2, <2>3 DEF Own
<1>9. TypeInv'
  <2>1. repaired' \in [Entries -> Path \cup {NoPath}]
    BY <1>1, <1>3, <1>5, <1>8
  <2> QED BY <1>1, <1>2, <1>4, <2>1 DEF TypeInv
<1>10. Done' = kept /\ \A i \in kept : repaired'[i] = Own(i) /\ Folded(i)' = Key(i)
  <2>1. ASSUME NEW i \in kept PROVE repaired'[i] = Own(i) /\ repaired'[i] # NoPath /\ i \in WithPath
    BY <1>1, <1>3, <1>5, <1>8
  <2>2. ASSUME NEW i \in WithPath \ kept PROVE repaired'[i] = NoPath
    BY <1>1, <1>3, <2>2
  <2>3. Done' = kept
    BY <1>4, <2>1, <2>2 DEF Done
  <2> QED BY <2>1, <2>3 DEF Folded, Key
<1>11. NamesInv'
  <2>1. \A i \in (Entries \ WithPath)' : repaired'[i] = NoPath
    BY <1>1, <1>4, <1>5
  <2>2. \A i \in Done' : \E f : IsFile(bases'[i], f) /\ repaired'[i] = PathWith(bases'[i], f)
    BY <1>1, <1>5, <1>8, <1>10
  <2>3. taken' = {Folded(i)' : i \in Done'}
    BY <1>1, <1>10
  <2>4. \A i \in Done' : Folded(i)' \notin Dirs'
    BY <1>4, <1>7, <1>10
  <2>5. \A i, j \in Done' : i # j => Folded(i)' # Folded(j)'
    BY <1>6, <1>10
  <2> QED BY <2>1, <2>2, <2>3, <2>4, <2>5 DEF NamesInv
<1>12. ClashesInv'
  <2>1. clashes' = Clashing
    BY <1>1, <1>3, <1>5
  <2>2. \A i \in WithPath \ Clashing : repaired'[i] = Own(i)
    BY <1>5, <1>10
  <2>3. \A i \in Clashing : repaired'[i] = NoPath
    BY <1>1, <1>3, <1>5
  <2>4. errors' = {}
    BY <1>1, <1>2 DEF Untouched
  <2> QED BY <1>1, <1>4, <2>1, <2>2, <2>3, <2>4 DEF ClashesInv
<1>13. SearchInv' /\ ResumeInv' /\ NumberedInv'
  <2>1. number' = 2 /\ resume' = <<>>
    BY <1>1, <1>2 DEF Untouched
  <2>2. SearchInv'
    BY <2>1 DEF SearchInv, StartsWidth
  <2>3. ResumeInv'
    BY <2>1 DEF ResumeInv
  <2>4. NumberedInv'
    BY <1>4, <1>5, <1>10 DEF NumberedInv
  <2> QED BY <2>2, <2>3, <2>4
<1>14. RefusedForRoom' /\ BuiltInv'
  BY <1>1, <1>2 DEF RefusedForRoom, BuiltInv, Untouched
<1> QED BY <1>1, <1>4, <1>9, <1>11, <1>12, <1>13, <1>14 DEF Inv

\* An entry that was refused stays so for the same reason.
LEMMA RoomSame ==
    ASSUME UNCHANGED <<given, bases, repaired, taken>>
    PROVE  \A i : LacksRoom(i)' = LacksRoom(i)
  BY NamesSame DEF LacksRoom

LEMMA RefusedSame ==
    ASSUME UNCHANGED <<given, bases, repaired, taken>>, RefusedForRoom, NEW i \in errors
    PROVE  LacksRoom(i)' \/ ~AllShow'
  BY StaticSame, RoomSame DEF RefusedForRoom, AllShow

LEMMA RepairedInv == Inv /\ Repaired => Inv'
<1> SUFFICES ASSUME Inv, Repaired PROVE Inv'
  OBVIOUS
<1> DEFINE invalid == {i \in Entries : repaired[i] # NoPath /\ ~ValidPath(repaired[i])}
<1>1. /\ pc = "number" /\ clashes = {} /\ errors' = errors \cup invalid
      /\ pc' = (IF errors' = {} THEN "embed" ELSE "refused")
      /\ UNCHANGED <<given, bases, repaired, taken, clashes, number, resume, built>>
  BY DEF Repaired
<1>2. /\ given \in Inputs /\ TypeInv /\ BuiltInv /\ built = {} /\ BasesInv /\ NamesInv /\ ClashesInv
      /\ AllShow => SearchInv /\ ResumeInv /\ NumberedInv
      /\ RefusedForRoom
  BY <1>1 DEF Inv, TypeInv, BuiltInv
<1>3. /\ Entries' = Entries /\ WithPath' = WithPath /\ Dirs' = Dirs /\ Clashing' = Clashing
      /\ AllShow' = AllShow /\ BasesInv' /\ \A i : Own(i)' = Own(i)
  BY <1>1, <1>2, StaticSame
<1>4. NamesInv' /\ (AllShow => ResumeInv' /\ NumberedInv')
  BY <1>1, <1>2, NamesSame, ResumeSame
<1>5. SearchInv'
  BY <1>1 DEF SearchInv
<1>6. TypeInv' /\ BuiltInv'
  BY <1>1, <1>2, <1>3 DEF TypeInv, BuiltInv
<1>7. pc' = "embed" => ClashesInv'
  <2>1. errors \subseteq errors' /\ clashes' = {}
    BY <1>1
  <2> QED BY <1>1, <1>2, <1>3, <2>1 DEF ClashesInv
<1>8. RefusedForRoom'
  <2> SUFFICES ASSUME NEW i \in errors' PROVE LacksRoom(i)' \/ ~AllShow'
    BY DEF RefusedForRoom, AllShow
  <2>1. CASE i \in errors
    BY <1>1, <1>2, <2>1, RefusedSame
  <2>2. CASE i \in invalid
    <3>1. i \in Done /\ ~ValidPath(repaired[i]) /\ i \in WithPath
      BY <1>2, <2>2 DEF NamesInv, Done
    <3>2. PICK f : IsFile(bases[i], f) /\ repaired[i] = PathWith(bases[i], f)
      BY <1>2, <3>1 DEF NamesInv
    <3>3. IsBase(bases[i])
      BY <1>2, <3>1 DEF BasesInv
    <3>4. PICK k \in 1 .. Len(bases[i].dir) : ~(Size(bases[i].dir[k]) <= ComponentMax)
      BY <3>1, <3>2, <3>3, ValidFile
    <3>5. bases[i].dir \in Seq(Seq(Symbol))
      BY <3>3 DEF IsBase, Base, Path
    <3>6. k \in DOMAIN bases[i].dir /\ bases[i].dir[k] \in Seq(Symbol)
      BY <3>5
    <3>7. Size(bases[i].dir[k]) > ComponentMax
      <4>1. Size(bases[i].dir[k]) \in Nat
        BY <3>6, SizeIs
      <4> QED BY <3>4, <4>1, Limits
    <3> QED BY <1>1, <3>6, <3>7 DEF LacksRoom
  <2> QED BY <1>1, <2>1, <2>2
<1>9. pc' \in {"embed", "refused"}
  BY <1>1
<1> QED BY <1>3, <1>4, <1>5, <1>6, <1>7, <1>8, <1>9 DEF Inv

\* Once no entry is left and none failed, each has a path of its own.
LEMMA AllNamed ==
    ASSUME given \in Inputs, BasesInv, NamesInv, ClashesInv, errors = {}, clashes = {}
    PROVE  \A i \in WithPath : i \in Done
<1> SUFFICES ASSUME NEW i \in WithPath PROVE repaired[i] # NoPath
  BY DEF Done
<1>1. CASE i \in Clashing
  BY <1>1 DEF ClashesInv
<1>2. CASE i \notin Clashing
  <2>1. repaired[i] = PathWith(bases[i], bases[i].file)
    BY <1>2 DEF ClashesInv, Own
  <2>2. bases[i].dir \in Path /\ bases[i].file \in Seq(Symbol)
    BY DEF BasesInv, IsBase, Base
  <2>3. repaired[i] \in Path
    BY <2>1, <2>2, PathWithIs
  <2> QED BY <2>3, ConstantsAssumption
<1> QED BY <1>1, <1>2

LEMMA EmbedInv == Inv /\ Embed => Inv'
<1> SUFFICES ASSUME Inv, Embed PROVE Inv'
  OBVIOUS
<1>1. /\ pc = "embed" /\ UNCHANGED <<given, bases, repaired, taken, clashes, number, resume, errors>>
      /\ \/ pc' = "refused" /\ UNCHANGED built
         \/ /\ pc' = "built"
            /\ built' = {[source |-> i, path |-> repaired[i],
                          original |-> Original(repaired[i])] : i \in Entries}
  BY DEF Embed
<1>2. /\ given \in Inputs /\ TypeInv /\ BuiltInv /\ built = {} /\ BasesInv /\ NamesInv /\ ClashesInv
      /\ AllShow => SearchInv /\ ResumeInv /\ NumberedInv
      /\ RefusedForRoom
  BY <1>1 DEF Inv, TypeInv, BuiltInv
<1>3. /\ Entries' = Entries /\ WithPath' = WithPath /\ Dirs' = Dirs /\ Clashing' = Clashing
      /\ AllShow' = AllShow /\ BasesInv' /\ \A i : Own(i)' = Own(i)
  BY <1>1, <1>2, StaticSame
<1>4. NamesInv' /\ (AllShow => ResumeInv' /\ NumberedInv')
  BY <1>1, <1>2, NamesSame, ResumeSame
<1>5. errors = {} /\ clashes = {}
  BY <1>1, <1>2 DEF ClashesInv
<1>6. SearchInv'
  BY <1>1, <1>5 DEF SearchInv
<1>7. TypeInv' /\ RefusedForRoom'
  BY <1>1, <1>2, <1>3, <1>5 DEF TypeInv, RefusedForRoom
<1>8. ClashesInv'
  BY <1>1, <1>2, <1>3, <1>5 DEF ClashesInv
<1>9. BuiltInv'
  <2>1. CASE pc' = "refused" /\ UNCHANGED built
    BY <1>2, <2>1 DEF BuiltInv
  <2>2. CASE /\ pc' = "built"
             /\ built' = {[source |-> i, path |-> repaired[i],
                           original |-> Original(repaired[i])] : i \in Entries}
    <3>1. ASSUME NEW i \in Entries PROVE Original(repaired[i]) = given[i]
      <4> DEFINE from == {j \in WithPath : repaired[j] = repaired[i]}
      <4>0. \A j \in WithPath : j \in Done
        BY <1>2, <1>5, AllNamed
      <4>1. Original(repaired[i]) = IF from = {} THEN NoPath ELSE given[Max(from)]
        BY DEF Original
      <4>2. CASE i \in WithPath
        <5>1. from = {i}
          BY <1>2, <4>0, <4>2 DEF NamesInv, Folded
        <5>2. Max({i}) = i
          <6>1. i \in Nat /\ {i} \subseteq 0 .. i /\ {i} # {}
            BY <1>2, <4>2, EntriesAre
          <6>2. Max({i}) \in {i}
            BY <6>1, MaxIn
          <6> QED BY <6>2
        <5> HIDE DEF from
        <5> QED BY <4>1, <5>1, <5>2
      <4>3. CASE i \notin WithPath
        <5>1. repaired[i] = NoPath /\ given[i] = NoPath
          BY <1>2, <4>3 DEF NamesInv, WithPath
        <5>2. from = {}
          BY <4>0, <5>1 DEF Done
        <5> HIDE DEF from
        <5> QED BY <4>1, <5>1, <5>2
      <4> QED BY <4>2, <4>3
    <3>2. \A entry \in built' : entry.original = given'[entry.source]
      BY <1>1, <2>2, <3>1
    <3> QED BY <2>2, <3>2 DEF BuiltInv
  <2> QED BY <1>1, <2>1, <2>2
<1>10. pc' \in {"built", "refused"}
  BY <1>1
<1> QED BY <1>3, <1>4, <1>6, <1>7, <1>8, <1>9, <1>10 DEF Inv

-----------------------------------------------------------------------------
(* One family of numbers of the first clash.                               *)

First == Min(clashes)
Fam   == Family(bases[First], number)
Start == Max({number, Resumed(Fam)})
End   == WidthEnd(number, LastNumber)
NameOf(m) == Numbered(bases[First], Number(m))
Free  == {m \in Start .. End - 1 : NameOf(m) # <<>> /\ FoldPath(NameOf(m)) \notin Dirs \cup taken}
Found == Min(Free)
Stop  == IF Free # {} THEN Found + 1 ELSE Max({Start, End})

Searches == number <= LastNumber /\ Fam # <<>>

Remember == resume' = [f \in DOMAIN resume \cup {Fam} |-> IF f = Fam THEN Stop ELSE resume[f]]

Refuse ==
    /\ number > LastNumber \/ Fam = <<>>
    /\ errors' = errors \cup {First} /\ clashes' = clashes \ {First} /\ number' = 2
    /\ UNCHANGED <<repaired, taken, resume>>

GoOn ==
    /\ Searches /\ Free = {} /\ Remember /\ number' = Stop
    /\ UNCHANGED <<repaired, taken, clashes, errors>>

TakeIt ==
    /\ Searches /\ Free # {} /\ Remember
    /\ repaired' = [repaired EXCEPT ![First] = NameOf(Found)]
    /\ taken' = taken \cup {FoldPath(NameOf(Found))}
    /\ clashes' = clashes \ {First} /\ number' = 2 /\ UNCHANGED errors

\* What holds while clashes are numbered.
Numbering ==
    /\ given \in Inputs /\ TypeInv /\ BasesInv /\ NamesInv /\ ClashesInv
    /\ pc = "number" /\ clashes # {}

LEMMA NumberingIs ==
    ASSUME Numbering
    PROVE  /\ given \in Inputs /\ TypeInv /\ BasesInv /\ NamesInv /\ ClashesInv
           /\ pc = "number" /\ clashes # {}
  BY DEF Numbering

LEMMA FirstIs ==
    ASSUME Numbering
    PROVE  /\ First \in clashes /\ First \in Clashing /\ First \in WithPath /\ First \in Nat
           /\ \A j \in clashes : First <= j
           /\ \A j \in Clashing \ clashes : j < First
           /\ IsBase(bases[First]) /\ repaired[First] = NoPath /\ First \in Entries
           /\ First \notin errors
<1>1. clashes \subseteq Clashing /\ clashes # {}
  BY NumberingIs DEF ClashesInv
<1>2. WithPath \subseteq Entries /\ WithPath \subseteq Nat /\ Clashing \subseteq WithPath
  BY NumberingIs, EntriesAre
<1>3. First \in clashes /\ \A j \in clashes : First <= j
  BY <1>1, <1>2, MinIn DEF First
<1>4. /\ First \in Clashing /\ First \in WithPath /\ First \in Nat /\ First \in Entries
  BY <1>1, <1>2, <1>3
<1>5. IsBase(bases[First])
  BY <1>4, NumberingIs DEF BasesInv
<1>6. repaired[First] = NoPath /\ First \notin errors /\ \A j \in Clashing \ clashes : j < First
  BY <1>3, NumberingIs DEF ClashesInv
<1> QED BY <1>3, <1>4, <1>5, <1>6

LEMMA ReachedIs ==
    ASSUME Numbering
    PROVE  /\ IsFiniteSet(Reached) /\ Cardinality(Reached) \in Nat
           /\ LastNumber = 2 + Cardinality(Reached) /\ LastNumber \in Nat
           /\ LastNumber <= Top /\ Top \in Nat
<1>1. given \in Inputs /\ BasesInv /\ NamesInv
  BY NumberingIs
<1>2. IsFiniteSet(Dirs) /\ Cardinality(Dirs) \in Nat /\ Top \in Nat
  BY <1>1, DirsFinite
<1>3. IsFiniteSet(Done) /\ Cardinality(Done) <= Len(given) /\ Len(given) \in Nat /\ Cardinality(Done) \in Nat
  <2>1. Done \in SUBSET Entries /\ IsFiniteSet(Entries) /\ Cardinality(Entries) = Len(given) /\ Len(given) \in Nat
    BY <1>1, EntriesAre DEF Done
  <2>2. IsFiniteSet(Done) /\ Cardinality(Done) <= Cardinality(Entries)
    BY <2>1, FS_Subset
  <2> QED BY <2>1, <2>2, FS_CardinalityType
<1>4. IsFiniteSet(taken) /\ Cardinality(taken) <= Len(given) /\ Cardinality(taken) \in Nat
  <2> DEFINE f == [i \in Done |-> Folded(i)]
  <2>1. f \in Surjection(Done, taken)
    BY <1>1 DEF NamesInv, Surjection
  <2>2. IsFiniteSet(taken) /\ Cardinality(taken) <= Cardinality(Done)
    BY <1>3, <2>1, FS_Surjection
  <2>3. Cardinality(taken) \in Nat
    BY <2>2, FS_CardinalityType
  <2> QED BY <1>3, <2>2, <2>3
<1>5. taken \cap Dirs = {}
  BY <1>1 DEF NamesInv
<1>6. IsFiniteSet(Reached) /\ Cardinality(Reached) = Cardinality(taken) + Cardinality(Dirs)
  <2>1. /\ IsFiniteSet(taken \cup Dirs)
        /\ Cardinality(taken \cup Dirs) = Cardinality(taken) + Cardinality(Dirs) - Cardinality(taken \cap Dirs)
    BY <1>2, <1>4, FS_Union
  <2>2. Cardinality(taken \cap Dirs) = 0
    BY <1>5, FS_EmptySet
  <2> QED BY <1>2, <1>4, <2>1, <2>2 DEF Reached
<1> QED BY <1>2, <1>3, <1>4, <1>6 DEF LastNumber, Top

LEMMA StopIs ==
    ASSUME Numbering, Searches
    PROVE  /\ Start \in Nat /\ number <= Start /\ number \in Nat /\ number >= 2
           /\ Start # number => Fam \in DOMAIN resume /\ Start = resume[Fam]
           /\ End \in Nat /\ number < End /\ End <= LastNumber + 1
           /\ \A k \in number .. End - 1 : Width(k) = Width(number)
           /\ End = LastNumber + 1 \/ End \in WidthEnds
           /\ Free # {} => /\ Found \in Free /\ Found \in Nat /\ Start <= Found /\ Found < End
                           /\ \A m \in Free : Found <= m
                           /\ Stop = Found + 1
           /\ Free = {} => Stop >= Start /\ Stop >= End /\ (Stop = Start \/ Stop = End)
           /\ Stop \in Nat /\ Stop >= 2
<1>0. TypeInv /\ number <= LastNumber /\ number \in Nat /\ number >= 2 /\ LastNumber \in Nat
  BY NumberingIs, ReachedIs DEF TypeInv, Searches
<1>1. Resumed(Fam) \in Nat /\ (Fam \in DOMAIN resume => Resumed(Fam) = resume[Fam])
      /\ (Fam \notin DOMAIN resume => Resumed(Fam) = 0)
  BY <1>0 DEF Resumed, TypeInv
<1>2. Start \in {number, Resumed(Fam)} /\ Start >= number /\ Start >= Resumed(Fam)
  <2>1. number + Resumed(Fam) \in Nat /\ {number, Resumed(Fam)} \subseteq 0 .. number + Resumed(Fam)
    BY <1>0, <1>1
  <2> DEFINE top == number + Resumed(Fam)
             S == {number, Resumed(Fam)}
  <2>2. top \in Nat /\ S \subseteq 0 .. top /\ S # {} /\ Start = Max(S)
    BY <2>1 DEF Start
  <2>3. number \in S /\ Resumed(Fam) \in S
    OBVIOUS
  <2> HIDE DEF top, S
  <2>4. Start \in S /\ \A y \in S : Start >= y
    BY <2>2, MaxIn
  <2> QED BY <2>3, <2>4 DEF S
<1>3. Start \in Nat /\ number <= Start /\ (Start # number => Fam \in DOMAIN resume /\ Start = resume[Fam])
  BY <1>0, <1>1, <1>2
<1>4. /\ End \in Nat /\ number < End /\ End <= LastNumber + 1
      /\ \A k \in number .. End - 1 : Width(k) = Width(number)
      /\ End = LastNumber + 1 \/ End \in WidthEnds
  BY <1>0, WidthEndIs DEF End
<1>5. Free \subseteq Nat /\ \A m \in Free : Start <= m /\ m < End
  BY <1>3, <1>4 DEF Free
<1>6. CASE Free # {}
  <2>1. Found \in Free /\ \A m \in Free : Found <= m
    BY <1>5, <1>6, MinIn DEF Found
  <2>2. Stop = Found + 1
    BY <1>6 DEF Stop
  <2> QED BY <1>0, <1>3, <1>4, <1>5, <1>6, <2>1, <2>2
<1>7. CASE Free = {}
  <2> DEFINE top == Start + End
             S == {Start, End}
  <2>1. top \in Nat /\ S \subseteq 0 .. top /\ S # {} /\ Start \in S /\ End \in S
    BY <1>3, <1>4
  <2>2. Stop = Max(S)
    BY <1>7 DEF Stop
  <2> HIDE DEF top
  <2>3. Stop \in S /\ \A y \in S : Stop >= y
    <3> HIDE DEF S
    <3> QED BY <2>1, <2>2, MaxIn
  <2> QED BY <1>0, <1>3, <1>4, <1>7, <2>1, <2>3
<1> QED BY <1>6, <1>7

LEMMA NumberCases ==
    ASSUME Inv, NumberFamily
    PROVE  /\ Numbering /\ UNCHANGED <<pc, given, bases, built>>
           /\ AllShow => SearchInv /\ ResumeInv /\ NumberedInv
           /\ RefusedForRoom /\ BuiltInv
           /\ Refuse \/ GoOn \/ TakeIt
<1>1. pc = "number" /\ clashes # {} /\ UNCHANGED <<pc, given, bases, built>>
  BY DEF NumberFamily
<1>2. Numbering /\ (AllShow => SearchInv /\ ResumeInv /\ NumberedInv) /\ RefusedForRoom /\ BuiltInv
  BY <1>1 DEF Inv, Numbering, TypeInv
<1>3. IF number > LastNumber \/ Fam = <<>>
      THEN /\ errors' = errors \cup {First}
           /\ NextClash
           /\ UNCHANGED <<repaired, taken, resume>>
      ELSE /\ Remember
           /\ IF Free = {}
              THEN number' = Stop /\ UNCHANGED <<repaired, taken, clashes>>
              ELSE /\ repaired' = [repaired EXCEPT ![First] = NameOf(Found)]
                   /\ taken' = taken \cup {FoldPath(NameOf(Found))}
                   /\ NextClash
           /\ UNCHANGED errors
  BY DEF NumberFamily, LastNumber, Fam, First, Remember, Free, Stop, Found, NameOf, Start, End
<1>4. NextClash <=> clashes' = clashes \ {First} /\ number' = 2
  BY DEF NextClash, First
<1>5. number \in Nat /\ LastNumber \in Nat
  BY <1>2, NumberingIs, ReachedIs DEF TypeInv
<1>6. Refuse \/ GoOn \/ TakeIt
  <2>1. CASE number > LastNumber \/ Fam = <<>>
    BY <1>3, <1>4, <2>1 DEF Refuse
  <2>2. CASE ~(number > LastNumber \/ Fam = <<>>)
    <3>1. Searches
      BY <1>5, <2>2 DEF Searches
    <3> QED BY <1>3, <1>4, <2>2, <3>1 DEF GoOn, TakeIt
  <2> QED BY <2>1, <2>2
<1> QED BY <1>1, <1>2, <1>6

\* One width is begun by one number.
LEMMA OneStart ==
    ASSUME NEW m \in Nat, NEW k \in Nat, m >= 2, k >= 2, StartsWidth(m), StartsWidth(k),
           Width(m) = Width(k)
    PROVE  m = k
<1>1. ASSUME NEW x \in Nat, NEW y \in Nat, x >= 2, StartsWidth(y), Width(x) = Width(y), x < y PROVE FALSE
  <2>1. y \in WidthEnds
    BY <1>1 DEF StartsWidth
  <2>2. \A e \in WidthEnds : ~(x < e /\ e <= y)
    BY <1>1, WidthSame
  <2> QED BY <1>1, <2>1, <2>2
<1>2. ~(m < k)
  BY <1>1
<1>3. ~(k < m)
  BY <1>1
<1> QED BY <1>2, <1>3

LEMMA ShowsFirst ==
    ASSUME given \in Inputs, BasesInv, AllShow, NEW i \in Clashing
    PROVE  IsBase(bases[i]) /\ ShowsUpTo(bases[i], Top)
<1>1. i \in WithPath
  BY EntriesAre
<1>2. IsBase(bases[i])
  BY <1>1 DEF BasesInv
<1>3. ShowsNumber(i)
  BY DEF AllShow
<1> QED BY <1>2, <1>3 DEF ShowsNumber, ShowsUpTo, Top

\* What a family's search left behind it is taken for the first clash too.
LEMMA BehindStart ==
    ASSUME Numbering, Searches, AllShow, SearchInv, ResumeInv
    PROVE  /\ StartsWidth(number)
           /\ \A k \in number .. Start - 1 : Width(k) = Width(number) /\ NoneFree(First, k)
<1>1. StartsWidth(number) /\ number \in Nat /\ number \in 2 .. Top
  BY NumberingIs, ReachedIs, StopIs DEF SearchInv, Searches
<1>2. ASSUME NEW k \in number .. Start - 1 PROVE Width(k) = Width(number) /\ NoneFree(First, k)
  <2>1. Fam \in DOMAIN resume /\ Start = resume[Fam] /\ k \in Nat
    BY <1>1, <1>2, StopIs
  <2>2. PICK j, m : Behind(j, m, Fam)
    BY <2>1 DEF ResumeInv
  <2>3. /\ j \in Clashing /\ m \in 2 .. Top /\ StartsWidth(m) /\ m \in Nat /\ m >= 2
        /\ Fam = Family(bases[j], m) /\ Fam # <<>>
        /\ \A l \in m .. Start - 1 : Width(l) = Width(m) /\ NoneFree(j, l)
    BY <2>1, <2>2 DEF Behind
  <2>4. /\ IsBase(bases[j]) /\ ShowsUpTo(bases[j], Top)
        /\ IsBase(bases[First]) /\ ShowsUpTo(bases[First], Top)
    BY <2>3, NumberingIs, FirstIs, ShowsFirst
  <2>5. Fam = Family(bases[First], number)
    BY DEF Fam
  <2>6. /\ Width(m) = Width(number)
        /\ \A l \in Nat : Width(l) = Width(m) =>
             FoldPath(Numbered(bases[j], Number(l))) = FoldPath(Numbered(bases[First], Number(l)))
    <3>1. OneFamily(bases[j], m, bases[First], number, Top)
      BY <1>1, <2>3, <2>4, <2>5, ReachedIs DEF OneFamily
    <3> QED BY <3>1, FamiliesAgree
  <2>7. m = number
    BY <1>1, <2>3, <2>6, OneStart
  <2>8. Width(k) = Width(m) /\ NoneFree(j, k)
    BY <2>3, <2>7
  <2>9. FoldPath(Numbered(bases[First], Number(k))) \in Reached
    BY <2>1, <2>6, <2>8 DEF NoneFree
  <2>10. Numbered(bases[First], Number(k)) # <<>>
    BY <1>1, <2>1, <2>3, <2>4, <2>5, <2>7, <2>8, FamilyIs
  <2> QED BY <2>7, <2>8, <2>9, <2>10 DEF NoneFree
<1> QED BY <1>1, <1>2

\* All that one family's search passes over is taken.
LEMMA Passed ==
    ASSUME Numbering, Searches, AllShow, SearchInv, ResumeInv
    PROVE  /\ Free = {} => \A k \in number .. Stop - 1 : Width(k) = Width(number) /\ NoneFree(First, k)
           /\ Free # {} => /\ \A k \in number .. Found - 1 : Width(k) = Width(number) /\ NoneFree(First, k)
                           /\ Width(Found) = Width(number)
           /\ Free = {} => Stop > LastNumber \/ StartsWidth(Stop)
<1>1. /\ StartsWidth(number)
      /\ \A k \in number .. Start - 1 : Width(k) = Width(number) /\ NoneFree(First, k)
  BY BehindStart
<1>2. /\ Start \in Nat /\ number <= Start /\ number \in Nat /\ End \in Nat /\ number < End
      /\ End <= LastNumber + 1 /\ LastNumber \in Nat
      /\ \A k \in number .. End - 1 : Width(k) = Width(number)
      /\ End = LastNumber + 1 \/ End \in WidthEnds
  BY ReachedIs, StopIs
<1>3. ASSUME NEW k \in Start .. End - 1, k \notin Free PROVE Width(k) = Width(number) /\ NoneFree(First, k)
  <2>1. k \in number .. End - 1 /\ k \in Nat
    BY <1>2
  <2>2. Width(k) = Width(number)
    BY <1>2, <2>1
  <2>3. IsBase(bases[First]) /\ Family(bases[First], number) # <<>>
    BY FirstIs DEF Searches, Fam
  <2>4. NameOf(k) # <<>>
    BY <1>2, <2>1, <2>2, <2>3, FamilyIs DEF NameOf
  <2>5. FoldPath(NameOf(k)) \in Dirs \cup taken
    BY <1>3, <2>4 DEF Free
  <2> QED BY <2>2, <2>4, <2>5 DEF NoneFree, NameOf, Reached
<1>4. ASSUME Free = {}, NEW k \in number .. Stop - 1
      PROVE  Width(k) = Width(number) /\ NoneFree(First, k)
  <2>1. Stop \in Nat /\ (Stop = Start \/ Stop = End) /\ k \in Nat
    BY <1>2, <1>4, StopIs
  <2>2. CASE k < Start
    <3>1. k \in number .. Start - 1
      BY <1>2, <2>1, <2>2
    <3> QED BY <1>1, <3>1
  <2>3. CASE k >= Start
    <3>1. k \in Start .. End - 1
      BY <1>2, <2>1, <2>3
    <3> QED BY <1>3, <1>4, <3>1
  <2> QED BY <1>2, <2>1, <2>2, <2>3
<1>5. ASSUME Free # {}
      PROVE  /\ \A k \in number .. Found - 1 : Width(k) = Width(number) /\ NoneFree(First, k)
             /\ Width(Found) = Width(number)
  <2>1. /\ Found \in Nat /\ Start <= Found /\ Found < End /\ \A m \in Free : Found <= m
    BY <1>5, StopIs
  <2>2. ASSUME NEW k \in number .. Found - 1 PROVE Width(k) = Width(number) /\ NoneFree(First, k)
    <3>0. k \in Nat /\ k < Found
      BY <1>2, <2>1
    <3>1. CASE k < Start
      <4>1. k \in number .. Start - 1
        BY <1>2, <3>0, <3>1
      <4> QED BY <1>1, <4>1
    <3>2. CASE k >= Start
      <4>1. k \in Start .. End - 1
        BY <1>2, <2>1, <3>0, <3>2
      <4>2. k \notin Free
        BY <2>1, <3>0
      <4> QED BY <1>3, <4>1, <4>2
    <3> QED BY <1>2, <3>0, <3>1, <3>2
  <2>3. Found \in number .. End - 1
    BY <1>2, <2>1
  <2> QED BY <1>2, <2>2, <2>3
<1>6. ASSUME Free = {}, ~(Stop > LastNumber) PROVE StartsWidth(Stop)
  <2>1. Stop \in Nat /\ (Stop = Start \/ Stop = End) /\ Stop >= End
    BY <1>6, StopIs
  <2>2. End # LastNumber + 1 /\ End \in WidthEnds
    BY <1>2, <1>6, <2>1
  <2>3. CASE Stop = End
    BY <2>2, <2>3 DEF StartsWidth
  <2>4. CASE Stop = Start /\ Start # End
    <3>1. Start - 1 \in number .. Start - 1 /\ Start - 1 \in Nat /\ End <= Start - 1 /\ number <= Start - 1
      BY <1>2, <2>1, <2>4
    <3>2. Width(Start - 1) = Width(number)
      BY <1>1, <3>1
    <3>3. \A e \in WidthEnds : ~(number < e /\ e <= Start - 1)
      BY <1>2, <3>1, <3>2, WidthSame
    <3> QED BY <1>2, <2>2, <3>1, <3>3
  <2> QED BY <2>1, <2>3, <2>4
<1> QED BY <1>4, <1>5, <1>6

\* What one search left behind it stays taken as more is.
LEMMA StaysTaken ==
    ASSUME UNCHANGED <<given, bases>>, taken \subseteq taken', NEW i, NEW m, NoneFree(i, m)
    PROVE  NoneFree(i, m)'
<1>1. Dirs' = Dirs
  BY StaticSame
<1> QED BY <1>1 DEF NoneFree, Reached

LEMMA RememberInv ==
    ASSUME Numbering, Searches, AllShow, ResumeInv, Remember, UNCHANGED <<given, bases>>,
           taken \subseteq taken', StartsWidth(number),
           NEW i, i = First, NEW m, m = number, NEW f, f = Fam,
           \A k \in m .. Stop - 1 : Width(k) = Width(m) /\ NoneFree(i, k)'
    PROVE  ResumeInv'
<1>1. Clashing' = Clashing /\ Top' = Top
  BY StaticSame
<1>2. /\ DOMAIN resume' = DOMAIN resume \cup {f} /\ resume'[f] = Stop
      /\ \A g \in DOMAIN resume : g # f => resume'[g] = resume[g]
  BY DEF Remember
<1>3. Behind(i, m, f)'
  <2>1. i \in Clashing /\ m \in 2 .. Top /\ f # <<>> /\ f = Family(bases[i], m)
    BY FirstIs, ReachedIs, StopIs DEF Searches, Fam
  <2> QED BY <1>1, <1>2, <2>1 DEF Behind
<1>4. ASSUME NEW g \in DOMAIN resume, g # f PROVE \E j, l : Behind(j, l, g)'
  <2>1. PICK j, l : Behind(j, l, g)
    BY DEF ResumeInv
  <2>2. \A k \in l .. resume'[g] - 1 : Width(k) = Width(l) /\ NoneFree(j, k)'
    BY <1>2, <1>4, <2>1, StaysTaken DEF Behind
  <2>3. Behind(j, l, g)'
    BY <1>1, <2>1, <2>2 DEF Behind
  <2> QED BY <2>3
<1> QED BY <1>2, <1>3, <1>4 DEF ResumeInv

\* What the first clash is given, and what that changes.
LEMMA TakenIs ==
    ASSUME Numbering, TakeIt, NEW i, i = First, NEW m, m = Found
    PROVE  /\ m \in Nat /\ m >= 2 /\ m <= LastNumber /\ m >= number
           /\ repaired' \in [Entries -> Path \cup {NoPath}]
           /\ repaired'[i] = Numbered(bases[i], Number(m)) /\ repaired'[i] # <<>> /\ repaired'[i] # NoPath
           /\ \A j \in Entries : j # i => repaired'[j] = repaired[j]
           /\ \E f : IsFile(bases[i], f) /\ repaired'[i] = PathWith(bases[i], f)
           /\ FoldPath(repaired'[i]) \notin Reached /\ taken' = taken \cup {FoldPath(repaired'[i])}
<1>0. repaired \in [Entries -> Path \cup {NoPath}] /\ Searches /\ Free # {}
  BY NumberingIs DEF TypeInv, TakeIt
<1>1. /\ m \in Free /\ m \in Nat /\ number <= m /\ number >= 2 /\ number \in Nat /\ m <= LastNumber
      /\ LastNumber \in Nat
  BY <1>0, StopIs, ReachedIs
<1>2. i \in Entries /\ IsBase(bases[i])
  BY FirstIs
<1> DEFINE name == Numbered(bases[i], Number(m))
<1>3. name # <<>> /\ FoldPath(name) \notin Reached
  BY <1>1 DEF Free, NameOf, Reached
<1>4. name \in Path /\ \E f : IsFile(bases[i], f) /\ name = PathWith(bases[i], f)
  BY <1>1, <1>2, <1>3, Signs, NumberedIs
<1>5. repaired' = [repaired EXCEPT ![i] = name] /\ taken' = taken \cup {FoldPath(name)}
  BY DEF TakeIt, NameOf
<1>6. name # NoPath
  BY <1>4, ConstantsAssumption
<1> HIDE DEF name
<1>7. /\ repaired' \in [Entries -> Path \cup {NoPath}] /\ repaired'[i] = name
      /\ \A j \in Entries : j # i => repaired'[j] = repaired[j]
  BY <1>0, <1>2, <1>4, <1>5
<1> QED BY <1>1, <1>3, <1>4, <1>5, <1>6, <1>7 DEF name

LEMMA TakenNames ==
    ASSUME Numbering, TakeIt, UNCHANGED <<given, bases>>, NEW i, i = First
    PROVE  NamesInv' /\ Done' = Done \cup {i}
<1>1. PICK m : m = Found
  OBVIOUS
<1>2. /\ repaired'[i] # NoPath /\ \A j \in Entries : j # i => repaired'[j] = repaired[j]
      /\ \E f : IsFile(bases[i], f) /\ repaired'[i] = PathWith(bases[i], f)
      /\ FoldPath(repaired'[i]) \notin Reached /\ taken' = taken \cup {FoldPath(repaired'[i])}
  BY <1>1, TakenIs
<1>3. Entries' = Entries /\ WithPath' = WithPath /\ Dirs' = Dirs
  BY StaticSame
<1>4. i \in WithPath /\ i \in Entries /\ repaired[i] = NoPath /\ WithPath \subseteq Entries /\ NamesInv
  BY FirstIs, NumberingIs, EntriesAre
<1>5. Done' = Done \cup {i} /\ i \notin Done /\ Done \subseteq Entries
  BY <1>2, <1>3, <1>4 DEF Done
<1>6. \A j \in Done : Folded(j)' = Folded(j)
  BY <1>2, <1>5 DEF Folded
<1>7. Folded(i)' = FoldPath(repaired'[i]) /\ Folded(i)' \notin taken /\ Folded(i)' \notin Dirs
  BY <1>2 DEF Folded, Reached
<1>8. \A j \in Entries' \ WithPath' : repaired'[j] = NoPath
  BY <1>2, <1>3, <1>4 DEF NamesInv
<1>9. \A j \in Done' : \E f : IsFile(bases'[j], f) /\ repaired'[j] = PathWith(bases'[j], f)
  BY <1>2, <1>4, <1>5 DEF NamesInv
<1>10. taken' = {Folded(j)' : j \in Done'}
  BY <1>2, <1>4, <1>5, <1>6, <1>7 DEF NamesInv
<1>11. \A j \in Done' : Folded(j)' \notin Dirs'
  BY <1>3, <1>4, <1>5, <1>6, <1>7 DEF NamesInv
<1>12. \A j, k \in Done' : j # k => Folded(j)' # Folded(k)'
  BY <1>4, <1>5, <1>6, <1>7 DEF NamesInv
<1> QED BY <1>5, <1>8, <1>9, <1>10, <1>11, <1>12 DEF NamesInv

\* The first clash may take whatever is not reached yet.
LEMMA UnfreeIs ==
    ASSUME Numbering
    PROVE  Unfree(First) = Reached /\ Enough(First) = 2 .. LastNumber
<1> DEFINE before == {j \in WithPath : repaired[j] # NoPath /\ (j \in Clashing => j < First)}
<1>1. before = Done
  <2>1. \A j \in clashes : repaired[j] = NoPath
    BY NumberingIs DEF ClashesInv
  <2> QED BY <2>1, FirstIs DEF Done
<1>2. taken = {FoldPath(repaired[j]) : j \in Done}
  BY NumberingIs DEF NamesInv, Folded
<1>3. Unfree(First) = Reached
  BY <1>1, <1>2 DEF Unfree, Reached
<1> QED BY <1>3, ReachedIs DEF Enough

\* What the entries up to the first clash may not take stays as it is.
LEMMA UnfreeSame ==
    ASSUME Numbering, TakeIt, UNCHANGED <<given, bases>>, NEW i \in Nat, i <= First
    PROVE  Unfree(i)' = Unfree(i) /\ Enough(i)' = Enough(i)
<1>1. PICK first, m : first = First /\ m = Found
  OBVIOUS
<1>2. first \in Clashing /\ first \in Nat /\ WithPath \subseteq Entries
      /\ \A j \in Entries : j # first => repaired'[j] = repaired[j]
  BY <1>1, FirstIs, TakenIs, NumberingIs, EntriesAre
<1>3. WithPath' = WithPath /\ Dirs' = Dirs /\ Clashing' = Clashing
  BY StaticSame
<1> DEFINE before == {j \in WithPath : repaired[j] # NoPath /\ (j \in Clashing => j < i)}
           after  == {j \in WithPath : repaired'[j] # NoPath /\ (j \in Clashing => j < i)}
<1>4. after = before /\ \A j \in before : repaired'[j] = repaired[j]
  <2>1. ~(first < i)
    BY <1>1, <1>2
  <2> QED BY <1>2, <2>1
<1>5. Unfree(i) = Dirs \cup {FoldPath(repaired[j]) : j \in before}
  BY DEF Unfree
<1>6. Unfree(i)' = Dirs \cup {FoldPath(repaired'[j]) : j \in after}
  BY <1>3 DEF Unfree
<1>7. {FoldPath(repaired'[j]) : j \in after} = {FoldPath(repaired[j]) : j \in before}
  <2> HIDE DEF before, after
  <2> QED BY <1>4
<1>8. Unfree(i)' = Unfree(i)
  BY <1>5, <1>6, <1>7
<1> QED BY <1>8 DEF Enough

-----------------------------------------------------------------------------
(* The parts of the invariant that one family of numbers keeps.            *)

\* One clash less, which has a path or an error.
LEMMA NextClashes ==
    ASSUME Numbering, UNCHANGED <<pc, given, bases>>, NEW i, i = First, clashes' = clashes \ {i},
           \A j \in Entries : j # i => repaired'[j] = repaired[j],
           \/ errors' = errors \cup {i} /\ repaired'[i] = NoPath
           \/ errors' = errors /\ repaired'[i] # NoPath
    PROVE  ClashesInv'
<1>1. /\ WithPath' = WithPath /\ Clashing' = Clashing /\ \A j : Own(j)' = Own(j)
  BY StaticSame
<1>2. Clashing \subseteq WithPath /\ WithPath \subseteq Entries /\ WithPath \subseteq Nat /\ ClashesInv
  BY NumberingIs, EntriesAre
<1>3. i \in clashes /\ i \in Clashing /\ i \in Nat /\ \A j \in clashes : i <= j
  BY FirstIs
<1>4. clashes' \subseteq Clashing' /\ errors' \subseteq Clashing' \ clashes'
  BY <1>1, <1>2, <1>3 DEF ClashesInv
<1>5. \A j \in WithPath' \ Clashing' : repaired'[j] = Own(j)'
  BY <1>1, <1>2, <1>3 DEF ClashesInv
<1>6. \A j \in clashes' : repaired'[j] = NoPath
  BY <1>2, <1>4, <1>1 DEF ClashesInv
<1>7. ASSUME NEW j \in Clashing \ clashes'
      PROVE  (repaired'[j] = NoPath => j \in errors') /\ \A k \in clashes' : j < k
  <2>1. CASE j = i
    <3>1. \A k \in clashes' : i <= k /\ i # k /\ k \in Nat
      BY <1>1, <1>2, <1>3, <1>4
    <3>2. \A k \in clashes' : i < k
      BY <1>3, <3>1
    <3> QED BY <2>1, <3>2
  <2>2. CASE j # i
    <3>1. j \in Clashing \ clashes /\ repaired'[j] = repaired[j]
      BY <1>2, <2>2
    <3> QED BY <1>2, <3>1 DEF ClashesInv
  <2> QED BY <2>1, <2>2
<1>8. ~(pc' \in {"embed", "built"})
  BY NumberingIs
<1> QED BY <1>1, <1>4, <1>5, <1>6, <1>7, <1>8 DEF ClashesInv

\* A family's search is remembered as a number.
LEMMA RememberType ==
    ASSUME Numbering, Searches, Remember
    PROVE  \A f \in DOMAIN resume' : resume'[f] \in Nat
<1>1. /\ DOMAIN resume' = DOMAIN resume \cup {Fam} /\ resume'[Fam] = Stop
      /\ \A f \in DOMAIN resume : f # Fam => resume'[f] = resume[f]
  BY DEF Remember
<1>2. Stop \in Nat /\ \A f \in DOMAIN resume : resume[f] \in Nat
  BY StopIs, NumberingIs DEF TypeInv
<1> QED BY <1>1, <1>2

LEMMA RefuseTypes ==
    ASSUME Numbering, Refuse, UNCHANGED <<pc, given, bases>>
    PROVE  TypeInv' /\ NamesInv' /\ ClashesInv'
<1>1. Entries' = Entries
  BY StaticSame
<1>2. TypeInv'
  BY <1>1, NumberingIs DEF TypeInv, Refuse
<1>3. NamesInv'
  BY NumberingIs, NamesSame DEF Refuse
<1>4. ClashesInv'
  <2>1. PICK i : i = First
    OBVIOUS
  <2>2. /\ clashes' = clashes \ {i} /\ errors' = errors \cup {i} /\ repaired'[i] = NoPath
        /\ \A j \in Entries : repaired'[j] = repaired[j]
    BY <2>1, FirstIs DEF Refuse
  <2> QED BY <2>1, <2>2, NextClashes
<1> QED BY <1>2, <1>3, <1>4

LEMMA GoOnTypes ==
    ASSUME Numbering, GoOn, UNCHANGED <<pc, given, bases>>
    PROVE  TypeInv' /\ NamesInv' /\ ClashesInv'
<1>1. Entries' = Entries /\ WithPath' = WithPath /\ Clashing' = Clashing /\ \A j : Own(j)' = Own(j)
  BY StaticSame
<1>2. Searches /\ Remember /\ number' = Stop /\ UNCHANGED <<repaired, taken, clashes, errors>>
  BY DEF GoOn
<1>3. number' \in Nat /\ number' >= 2 /\ \A f \in DOMAIN resume' : resume'[f] \in Nat
  BY <1>2, StopIs, RememberType
<1>4. TypeInv'
  BY <1>1, <1>2, <1>3, NumberingIs DEF TypeInv
<1>5. NamesInv'
  BY <1>2, NumberingIs, NamesSame
<1>6. ClashesInv'
  <2>1. ClashesInv
    BY NumberingIs
  <2> QED BY <1>1, <1>2, <2>1 DEF ClashesInv
<1> QED BY <1>4, <1>5, <1>6

LEMMA TakeItTypes ==
    ASSUME Numbering, TakeIt, UNCHANGED <<pc, given, bases>>
    PROVE  TypeInv' /\ NamesInv' /\ ClashesInv'
<1>1. Entries' = Entries
  BY StaticSame
<1>2. PICK i, m : i = First /\ m = Found
  OBVIOUS
<1>3. /\ repaired' \in [Entries -> Path \cup {NoPath}] /\ repaired'[i] # NoPath
      /\ \A j \in Entries : j # i => repaired'[j] = repaired[j]
  BY <1>2, TakenIs
<1>4. Searches /\ Remember /\ number' = 2 /\ clashes' = clashes \ {i} /\ errors' = errors
  BY <1>2 DEF TakeIt
<1>5. \A f \in DOMAIN resume' : resume'[f] \in Nat
  BY <1>4, RememberType
<1>6. TypeInv'
  BY <1>1, <1>3, <1>4, <1>5, NumberingIs DEF TypeInv
<1>7. NamesInv'
  BY <1>2, TakenNames
<1>8. ClashesInv'
  BY <1>2, <1>3, <1>4, NextClashes
<1> QED BY <1>6, <1>7, <1>8

LEMMA NextFirst ==
    ASSUME number' = 2
    PROVE  SearchInv'
<1>1. StartsWidth(number)' /\ \A m \in 2 .. number' - 1 : FALSE
  BY DEF StartsWidth
<1> QED BY <1>1 DEF SearchInv

LEMMA RefuseSearch ==
    ASSUME Numbering, Refuse, UNCHANGED <<pc, given, bases>>, SearchInv, ResumeInv, NumberedInv
    PROVE  SearchInv' /\ ResumeInv' /\ NumberedInv'
<1>1. SearchInv'
  BY NextFirst DEF Refuse
<1>2. ResumeInv' /\ NumberedInv'
  BY ResumeSame, NamesSame DEF Refuse
<1> QED BY <1>1, <1>2

LEMMA GoOnSearch ==
    ASSUME Numbering, GoOn, UNCHANGED <<pc, given, bases>>, AllShow, SearchInv, ResumeInv, NumberedInv
    PROVE  SearchInv' /\ ResumeInv' /\ NumberedInv'
<1>0. Searches /\ Free = {} /\ Remember /\ number' = Stop /\ UNCHANGED <<repaired, taken, clashes, errors>>
  BY DEF GoOn
<1>1. PICK i, m, f : i = First /\ m = number /\ f = Fam
  OBVIOUS
<1>2. /\ \A k \in m .. Stop - 1 : Width(k) = Width(m) /\ NoneFree(i, k)
      /\ Stop > LastNumber \/ StartsWidth(Stop)
  BY <1>0, <1>1, Passed
<1>3. /\ NumberedInv' = NumberedInv /\ LastNumber' = LastNumber
      /\ \A j, k : NoneFree(j, k)' = NoneFree(j, k)
  BY <1>0, NamesSame
<1>4. /\ StartsWidth(number) /\ number \in Nat /\ number >= 2 /\ Stop \in Nat
      /\ \A k \in 2 .. m - 1 : NoneFree(i, k)
  BY <1>0, <1>1, BehindStart, StopIs, NumberingIs DEF SearchInv, First
<1>5. SearchInv'
  <2>1. \A k \in 2 .. Stop - 1 : NoneFree(i, k)
    <3> SUFFICES ASSUME NEW k \in 2 .. Stop - 1 PROVE NoneFree(i, k)
      OBVIOUS
    <3>1. k \in 2 .. m - 1 \/ k \in m .. Stop - 1
      BY <1>1, <1>4
    <3> QED BY <1>2, <1>4, <3>1
  <2>2. number' > LastNumber' \/ StartsWidth(number)'
    BY <1>0, <1>2, <1>3 DEF StartsWidth
  <2>3. Min(clashes') = i
    BY <1>0, <1>1 DEF First
  <2>4. \A k \in 2 .. number' - 1 : NoneFree(i, k)'
    BY <1>0, <1>3, <2>1
  <2> QED BY <2>2, <2>3, <2>4 DEF SearchInv
<1>6. ResumeInv'
  <2>1. \A k \in m .. Stop - 1 : Width(k) = Width(m) /\ NoneFree(i, k)'
    BY <1>2, <1>3
  <2> QED BY <1>0, <1>1, <1>4, <2>1, RememberInv
<1> QED BY <1>3, <1>5, <1>6

LEMMA TakeItSearch ==
    ASSUME Numbering, TakeIt, UNCHANGED <<pc, given, bases>>, AllShow, SearchInv, ResumeInv, NumberedInv
    PROVE  SearchInv' /\ ResumeInv' /\ NumberedInv'
<1>0. Searches /\ Free # {} /\ Remember /\ number' = 2 /\ Stop = Found + 1
  BY StopIs DEF TakeIt
<1>1. PICK i, m, f, found : i = First /\ m = number /\ f = Fam /\ found = Found
  OBVIOUS
<1>2. /\ \A k \in m .. found - 1 : Width(k) = Width(m) /\ NoneFree(i, k)
      /\ Width(found) = Width(m)
  BY <1>0, <1>1, Passed
<1>3. /\ StartsWidth(number) /\ m \in Nat /\ m >= 2
      /\ \A k \in 2 .. m - 1 : NoneFree(i, k)
  BY <1>0, <1>1, BehindStart, StopIs, NumberingIs DEF SearchInv, First
<1>4. /\ found \in Nat /\ found >= 2 /\ found <= LastNumber /\ found >= m
      /\ repaired'[i] = Numbered(bases[i], Number(found)) /\ repaired'[i] # <<>>
      /\ FoldPath(repaired'[i]) \notin Reached /\ taken' = taken \cup {FoldPath(repaired'[i])}
      /\ \A j \in Entries : j # i => repaired'[j] = repaired[j]
  BY <1>1, TakenIs
<1>5. i \in Clashing /\ i \in Nat /\ LastNumber \in Nat /\ Clashing \subseteq WithPath
      /\ WithPath \subseteq Nat /\ WithPath \subseteq Entries
  BY <1>1, FirstIs, ReachedIs, NumberingIs, EntriesAre
<1>6. Clashing' = Clashing /\ WithPath' = WithPath
  BY StaticSame
<1>7. SearchInv'
  BY <1>0, NextFirst
<1>8. ResumeInv'
  <2>1. \A j, k : NoneFree(j, k) => NoneFree(j, k)'
    BY <1>4, StaysTaken
  <2>2. NoneFree(i, found)'
    BY <1>4 DEF NoneFree, Reached
  <2>3. ASSUME NEW k \in m .. Stop - 1 PROVE Width(k) = Width(m) /\ NoneFree(i, k)'
    <3>1. k \in m .. found - 1 \/ k = found
      BY <1>0, <1>1, <1>3, <1>4
    <3> QED BY <1>2, <2>1, <2>2, <3>1
  <2> QED BY <1>0, <1>1, <1>3, <1>4, <2>3, RememberInv
<1>9. NumberedInv'
  <2>1. Unfree(i)' = Reached /\ Enough(i)' = 2 .. LastNumber
    BY <1>1, <1>5, UnfreeIs, UnfreeSame
  <2>2. LowestFree(i)'
    <3>1. ASSUME NEW k \in 2 .. found - 1
          PROVE  FoldPath(Numbered(bases[i], Number(k))) \in Reached
      <4>1. k \in 2 .. m - 1 \/ k \in m .. found - 1
        BY <1>3, <1>4
      <4> QED BY <1>2, <1>3, <4>1 DEF NoneFree
    <3>2. found \in 2 .. LastNumber
      BY <1>4, <1>5
    <3> QED BY <1>4, <2>1, <3>1, <3>2 DEF LowestFree
  <2>3. ASSUME NEW j \in Clashing, repaired[j] # NoPath PROVE LowestFree(j)'
    <3>1. j \in Nat /\ j <= First /\ j # i /\ j \in Entries
      <4>1. j \notin clashes /\ repaired[First] = NoPath /\ \A k \in Clashing \ clashes : k < First
        BY <2>3, NumberingIs, FirstIs DEF ClashesInv
      <4> QED BY <1>1, <1>5, <2>3, <4>1
    <3>2. Unfree(j)' = Unfree(j) /\ Enough(j)' = Enough(j) /\ repaired'[j] = repaired[j]
      BY <1>4, <3>1, UnfreeSame
    <3>3. LowestFree(j)
      BY <1>5, <2>3 DEF NumberedInv, Done
    <3> QED BY <3>2, <3>3 DEF LowestFree
  <2>4. ASSUME NEW j \in Clashing, repaired'[j] # NoPath PROVE LowestFree(j)'
    <3>1. j = i \/ repaired[j] # NoPath
      BY <1>4, <1>5, <2>4
    <3> QED BY <2>2, <2>3, <3>1
  <2> QED BY <1>6, <2>4 DEF NumberedInv, Done
<1> QED BY <1>7, <1>8, <1>9

-----------------------------------------------------------------------------
(* Why an entry is refused.                                                *)

\* There is a number for every path reached and one more: if all of them are taken,
\* two of them give one name.
LEMMA EnoughNumbers ==
    ASSUME Numbering, AllShow, \A m \in 2 .. LastNumber : NoneFree(First, m)
    PROVE  FALSE
<1>1. /\ IsFiniteSet(Reached) /\ Cardinality(Reached) \in Nat /\ LastNumber \in Nat
      /\ LastNumber = 2 + Cardinality(Reached) /\ LastNumber <= Top /\ Top \in Nat
  BY ReachedIs
<1>2. IsBase(bases[First]) /\ ShowsUpTo(bases[First], Top)
  BY FirstIs, NumberingIs, ShowsFirst
<1> DEFINE S == 2 .. LastNumber
           f == [m \in S |-> FoldPath(NameOf(m))]
<1>3. IsFiniteSet(S) /\ Cardinality(S) = LastNumber - 1
  <2> DEFINE last == LastNumber
  <2>1. last \in Int /\ last >= 2 /\ 2 \in Int
    BY <1>1
  <2> HIDE DEF last
  <2>2. IsFiniteSet(2 .. last) /\ Cardinality(2 .. last) = IF 2 > last THEN 0 ELSE last - 2 + 1
    BY <2>1, FS_Interval
  <2>3. Cardinality(2 .. last) = last - 1
    BY <2>1, <2>2
  <2> QED BY <2>2, <2>3 DEF last
<1>4. f \in [S -> Reached]
  BY DEF NoneFree, NameOf
<1>5. PICK m, k \in S : m # k /\ f[m] = f[k]
  <2>1. Cardinality(Reached) < Cardinality(S)
    BY <1>1, <1>3
  <2> HIDE DEF S, f
  <2> QED BY <1>1, <1>3, <1>4, <2>1, FS_PigeonHole
<1>6. m \in 2 .. Top /\ k \in 2 .. Top
  BY <1>1, <1>5
<1>7. Numbered(bases[First], Number(m)) # <<>>
  BY <1>5 DEF NoneFree
<1> QED BY <1>1, <1>2, <1>5, <1>6, <1>7, NumbersApart DEF NameOf

LEMMA RefuseReason ==
    ASSUME Numbering, Refuse, UNCHANGED <<pc, given, bases>>, AllShow => SearchInv
    PROVE  LacksRoom(First) \/ ~AllShow
<1>1. CASE ~AllShow
  BY <1>1
<1>2. CASE AllShow /\ number > LastNumber
  <2>1. \A m \in 2 .. number - 1 : NoneFree(First, m)
    BY <1>2, NumberingIs DEF SearchInv, First
  <2>2. number \in Nat /\ LastNumber \in Nat
    BY NumberingIs, ReachedIs DEF TypeInv
  <2>3. \A m \in 2 .. LastNumber : m \in 2 .. number - 1
    BY <1>2, <2>2
  <2> QED BY <1>2, <2>1, <2>3, EnoughNumbers
<1>3. CASE Fam = <<>> /\ number <= LastNumber
  <2>1. number \in Nat /\ number >= 2 /\ LastNumber \in Nat
    BY NumberingIs, ReachedIs DEF TypeInv
  <2>2. Numbered(bases[First], Number(number)) = <<>>
    BY <1>3, <2>1, FirstIs, FamilyIs DEF Fam
  <2>3. number \in Enough(First)
    BY <1>3, <2>1, UnfreeIs
  <2> QED BY <2>2, <2>3 DEF LacksRoom
<1>4. number \in Nat /\ LastNumber \in Nat
  BY NumberingIs, ReachedIs DEF TypeInv
<1> QED BY <1>1, <1>2, <1>3, <1>4 DEF Refuse

LEMMA RefusedInv ==
    ASSUME Numbering, UNCHANGED <<pc, given, bases>>, Refuse \/ GoOn \/ TakeIt,
           AllShow => SearchInv, RefusedForRoom
    PROVE  RefusedForRoom'
<1>1. AllShow' = AllShow
  BY StaticSame
<1>2. SUFFICES ASSUME AllShow PROVE \A i \in errors' : LacksRoom(i)'
  BY <1>1 DEF RefusedForRoom, AllShow
<1>3. \A i \in errors : LacksRoom(i)
  BY <1>2 DEF RefusedForRoom, AllShow
<1>4. CASE Refuse
  <2>1. \A i : LacksRoom(i)' = LacksRoom(i)
    BY <1>4, RoomSame DEF Refuse
  <2>2. \A i \in errors' : LacksRoom(i)
    BY <1>2, <1>3, <1>4, RefuseReason DEF Refuse
  <2> QED BY <2>1, <2>2
<1>5. CASE GoOn
  <2>1. errors' = errors /\ \A i : LacksRoom(i)' = LacksRoom(i)
    BY <1>5, RoomSame DEF GoOn
  <2> QED BY <1>3, <2>1
<1>6. CASE TakeIt
  <2> SUFFICES ASSUME NEW i \in errors PROVE LacksRoom(i)'
    BY <1>6 DEF TakeIt
  <2>1. i \in Clashing \ clashes
    BY NumberingIs DEF ClashesInv
  <2>2. i < First /\ i \in Nat /\ First \in Nat
    BY <2>1, FirstIs, NumberingIs, EntriesAre
  <2>3. Enough(i)' = Enough(i)
    BY <1>6, <2>2, UnfreeSame
  <2> QED BY <1>3, <2>3 DEF LacksRoom
<1> QED BY <1>4, <1>5, <1>6

LEMMA NumberFamilyInv == Inv /\ NumberFamily => Inv'
<1> SUFFICES ASSUME Inv, NumberFamily PROVE Inv'
  OBVIOUS
<1>1. /\ Numbering /\ UNCHANGED <<pc, given, bases, built>>
      /\ AllShow => SearchInv /\ ResumeInv /\ NumberedInv
      /\ RefusedForRoom /\ BuiltInv
      /\ Refuse \/ GoOn \/ TakeIt
  BY NumberCases
<1>2. TypeInv' /\ NamesInv' /\ ClashesInv'
  BY <1>1, RefuseTypes, GoOnTypes, TakeItTypes
<1>3. AllShow => SearchInv' /\ ResumeInv' /\ NumberedInv'
  BY <1>1, RefuseSearch, GoOnSearch, TakeItSearch
<1>4. AllShow' = AllShow /\ BasesInv'
  BY <1>1, NumberingIs, StaticSame
<1>5. RefusedForRoom'
  BY <1>1, RefusedInv
<1>6. BuiltInv'
  BY <1>1 DEF BuiltInv
<1>7. pc' = "number"
  BY <1>1, NumberingIs
<1> QED BY <1>2, <1>3, <1>4, <1>5, <1>6, <1>7 DEF Inv

LEMMA NextInv == Inv /\ [Next]_vars => Inv'
<1> SUFFICES ASSUME Inv, [Next]_vars PROVE Inv'
  OBVIOUS
<1>1. CASE RepairEach
  BY <1>1, RepairEachInv
<1>2. CASE KeepDistinct
  BY <1>2, KeepDistinctInv
<1>3. CASE NumberFamily
  BY <1>3, NumberFamilyInv
<1>4. CASE Repaired
  BY <1>4, RepairedInv
<1>5. CASE Embed
  BY <1>5, EmbedInv
<1>6. CASE UNCHANGED vars
  <2>1. UNCHANGED <<pc, given, bases, repaired, taken, clashes, number, resume, errors, built>>
    BY <1>6 DEF vars
  <2>2. /\ Entries' = Entries /\ WithPath' = WithPath /\ Clashing' = Clashing /\ AllShow' = AllShow
        /\ BasesInv' = BasesInv /\ \A j : Own(j)' = Own(j)
    BY <2>1, StaticSame
  <2>3. NamesInv' = NamesInv /\ NumberedInv' = NumberedInv /\ ResumeInv' = ResumeInv
        /\ LastNumber' = LastNumber /\ \A j, k : NoneFree(j, k)' = NoneFree(j, k)
    BY <2>1, NamesSame, ResumeSame
  <2>4. SearchInv' = SearchInv
    BY <2>1, <2>3 DEF SearchInv, StartsWidth
  <2>5. ClashesInv' = ClashesInv
    BY <2>1, <2>2 DEF ClashesInv
  <2>6. TypeInv' = TypeInv /\ BuiltInv' = BuiltInv /\ Untouched' = Untouched
    BY <2>1, <2>2 DEF TypeInv, BuiltInv, Untouched
  <2>7. RefusedForRoom'
    <3>1. RefusedForRoom
      BY DEF Inv
    <3> QED BY <2>1, <3>1, RefusedSame DEF RefusedForRoom, AllShow
  <2> QED BY <2>1, <2>2, <2>3, <2>4, <2>5, <2>6, <2>7 DEF Inv
<1> QED BY <1>1, <1>2, <1>3, <1>4, <1>5, <1>6 DEF Next

-----------------------------------------------------------------------------
(* What the invariant says of a repaired list.                             *)

LEMMA Repairs ==
    ASSUME Inv, pc \in {"embed", "built"}
    PROVE  NoneCollide /\ AsLittleAsPossible
<1>1. /\ given \in Inputs /\ BasesInv /\ NamesInv /\ ClashesInv /\ errors = {} /\ clashes = {}
      /\ AllShow => NumberedInv
  BY DEF Inv, TypeInv, ClashesInv
<1>2. \A i \in WithPath : i \in Done
  BY <1>1, AllNamed
<1>3. ASSUME NEW i \in WithPath, NEW j \in WithPath, i # j
      PROVE  FoldPath(repaired[i]) # FoldPath(repaired[j])
  BY <1>1, <1>2, <1>3 DEF NamesInv, Folded
<1>4. ASSUME NEW i \in WithPath, NEW j \in WithPath
      PROVE  FoldPath(repaired[i]) \notin {FoldPath(dir) : dir \in DirectoryPrefixes(Front(repaired[j]))}
  <2>1. PICK f : IsFile(bases[j], f) /\ repaired[j] = PathWith(bases[j], f)
    BY <1>1, <1>2 DEF NamesInv
  <2>2. bases[j].dir \in Seq(Seq(Symbol)) /\ f \in Seq(Symbol)
    BY <1>1, <2>1 DEF BasesInv, IsBase, Base, Path, IsFile
  <2>3. repaired[j] = Append(bases[j].dir, f)
    BY <2>1 DEF PathWith
  <2>4. Front(repaired[j]) = bases[j].dir
    <3> DEFINE dir == bases[j].dir
               p == Append(dir, f)
    <3> HIDE DEF dir
    <3>1. dir \in Seq(Seq(Symbol)) /\ p \in Seq(Seq(Symbol)) /\ Len(p) = Len(dir) + 1 /\ Len(dir) \in Nat
      BY <2>2 DEF dir
    <3>2. Front(p) = SubSeq(p, 1, Len(p) - 1)
      BY DEF Front
    <3>3. Len(p) - 1 = Len(dir)
      BY <3>1
    <3>4. SubSeq(p, 1, Len(dir)) = dir
      BY <3>1, <2>2
    <3> QED BY <2>3, <3>2, <3>3, <3>4 DEF dir
  <2>5. FoldPath(repaired[i]) \notin Dirs
    BY <1>1, <1>2 DEF NamesInv, Folded
  <2> QED BY <1>1, <2>4, <2>5, DirsFinite
<1>5. NoneCollide
  BY <1>3, <1>4 DEF NoneCollide
<1>6. AsLittleAsPossible
  <2>1. ASSUME NEW i \in WithPath, i \notin Clashing PROVE repaired[i] = Own(i)
    BY <1>1, <2>1 DEF ClashesInv
  <2>2. ASSUME NEW i \in WithPath, i \in Clashing, AllShow PROVE LowestFree(i)
    BY <1>1, <1>2, <2>2 DEF NumberedInv
  <2> QED BY <2>1, <2>2 DEF AsLittleAsPossible, AllShow
<1> QED BY <1>5, <1>6

LEMMA InvRepaired == Inv => RepairedIsExtractable
<1> SUFFICES ASSUME Inv PROVE RepairedIsExtractable
  OBVIOUS
<1>1. RefusedForRoom /\ \A entry \in built : entry.original = given[entry.source]
  BY DEF Inv, BuiltInv
<1> QED BY <1>1, Repairs DEF RepairedIsExtractable

\* However many paths a request gives and whatever they clash with, a list that
\* repair_paths answers extracts on every platform: no two of its paths collide in
\* any spelling, none is another's directory, a path that clashes with nothing is
\* kept as it is, and a clash has the lowest number that is free although its search
\* resumed where the search of a similar name had stopped.  An entry is refused only
\* for lack of room, and the answer names every path that it was given.
THEOREM RepairsExtract == Spec => []RepairedIsExtractable
<1>1. Inv /\ [Next]_vars => Inv'
  BY NextInv
<1> QED BY InitInv, <1>1, InvRepaired, PTL DEF Spec

=============================================================================

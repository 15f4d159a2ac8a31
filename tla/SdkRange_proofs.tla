--------------------------- MODULE SdkRange_proofs ---------------------------
(***************************************************************************)
(* Theorems about a ranged download from end to end, for every object,     *)
(* request, width of the integers, window and frame size and capacity of   *)
(* the channels: what is served is what was asked for, its windows cover   *)
(* it exactly, and the app reads it in order and whole, or is told it did  *)
(* not.  What the passes over an object's chunks compute is shown by       *)
(* induction on the chunk: UpTo and Steps, from the library's theorem that *)
(* < is well-founded on Nat.                                               *)
(***************************************************************************)
EXTENDS SdkRange, SequenceTheorems, NaturalsInduction, WellFoundedInduction, TLAPS

-----------------------------------------------------------------------------
(* Induction on a step of a pass.                                          *)

\* A set that has 0 and, with each number, the next one, up to n.
LEMMA UpTo ==
    ASSUME NEW n \in Nat, NEW T, 0 \in T, \A i \in 0 .. n - 1 : i \in T => i + 1 \in T
    PROVE  0 .. n \subseteq T
<1> SUFFICES ASSUME NEW m \in 0 .. n, m \notin T PROVE FALSE
  OBVIOUS
<1> DEFINE Out == {i \in Nat : i <= n /\ i \notin T}
<1>1. Out \subseteq Nat /\ Out # {}
  OBVIOUS
<1>2. PICK x \in Out : \A y \in Out : ~(<<y, x>> \in OpToRel(<, Nat))
  BY <1>1, NatLessThanWellFounded, WFMin
<1>3. \A y \in Out : ~(y < x)
  BY <1>2 DEF OpToRel
<1>4. x # 0 /\ x - 1 \in 0 .. n - 1 /\ x - 1 \notin Out
  BY <1>3
<1> QED BY <1>4

\* The values after each of the steps h[1] .. h[n] from x0, and that they exist.
Stepping(n, X, x0, h) == n \in Nat /\ x0 \in X /\ h \in [1 .. n -> [X -> X]]

Values(f, n, X, x0, h) ==
    f \in [0 .. n -> X] /\ f[0] = x0 /\ \A i \in 1 .. n : f[i] = h[i][f[i - 1]]

LEMMA Steps ==
    ASSUME NEW n, NEW X, NEW x0, NEW h, Stepping(n, X, x0, h)
    PROVE  \E f : Values(f, n, X, x0, h)
<1>0. n \in Nat /\ x0 \in X /\ h \in [1 .. n -> [X -> X]]
  BY DEF Stepping
<1> DEFINE Good(f, m) == Values(f, m, X, x0, h)
           T == {m \in 0 .. n : \E f : Good(f, m)}
<1>1. 0 \in T
  <2>1. PICK f : f = [i \in 0 .. 0 |-> x0]
    OBVIOUS
  <2>2. Good(f, 0)
    BY <1>0, <2>1 DEF Values
  <2> HIDE DEF Good
  <2> QED BY <1>0, <2>2
<1>2. ASSUME NEW m \in 0 .. n - 1, m \in T PROVE m + 1 \in T
  <2>1. PICK f : Good(f, m)
    BY <1>2
  <2>0. m \in Nat /\ m + 1 \in 1 .. n
    BY <1>0
  <2>2. PICK g : g = [i \in 0 .. m + 1 |-> IF i <= m THEN f[i] ELSE h[m + 1][f[m]]]
    OBVIOUS
  <2>3. Good(g, m + 1)
    <3>1. h[m + 1] \in [X -> X] /\ f[m] \in X
      BY <1>0, <2>0, <2>1 DEF Values
    <3>2. h[m + 1][f[m]] \in X
      BY <3>1
    <3>3. g \in [0 .. m + 1 -> X]
      BY <2>0, <2>1, <2>2, <3>2 DEF Values
    <3>4. ASSUME NEW i \in 1 .. m + 1 PROVE g[i] = h[i][g[i - 1]]
      <4>1. CASE i = m + 1
        BY <2>0, <2>2, <4>1
      <4>2. CASE i <= m
        BY <2>0, <2>1, <2>2, <4>2 DEF Values
      <4> QED BY <2>0, <4>1, <4>2
    <3>5. g[0] = x0
      BY <2>0, <2>1, <2>2 DEF Values
    <3> QED BY <3>3, <3>4, <3>5 DEF Values
  <2> HIDE DEF Good
  <2> QED BY <1>0, <2>0, <2>3
<1>3. n \in T
  <2> HIDE DEF T
  <2>1. 0 .. n \subseteq T
    BY <1>0, <1>1, <1>2, UpTo
  <2> QED BY <1>0, <2>1
<1>4. PICK f : Good(f, n)
  BY <1>3
<1> QED BY <1>4

\* Where the chunks end: each after the one before it.
LEMMA EndsOf ==
    ASSUME NEW object \in Seq(Nat \ {0})
    PROVE  /\ Ends(object) \in [0 .. Len(object) -> Nat]
           /\ Ends(object)[0] = 0
           /\ \A i \in 1 .. Len(object) : Ends(object)[i] = Ends(object)[i - 1] + object[i]
<1> DEFINE n == Len(object)
<1>0. n \in Nat /\ \A i \in 1 .. n : object[i] \in Nat
  OBVIOUS
<1> HIDE DEF n
<1>1. PICK h : h = [i \in 1 .. n |-> [x \in Nat |-> x + object[i]]]
  OBVIOUS
<1>2. PICK f : Values(f, n, Nat, 0, h)
  <2>1. h \in [1 .. n -> [Nat -> Nat]]
    <3>1. ASSUME NEW i \in 1 .. n PROVE [x \in Nat |-> x + object[i]] \in [Nat -> Nat]
      BY <1>0
    <3> QED BY <1>1, <3>1
  <2>2. Stepping(n, Nat, 0, h)
    BY <1>0, <2>1 DEF Stepping
  <2> QED BY <2>2, Steps
<1>3. f = [i \in 0 .. n |-> IF i = 0 THEN 0 ELSE f[i - 1] + object[i]]
  <2>1. ASSUME NEW i \in 0 .. n, i # 0 PROVE h[i][f[i - 1]] = f[i - 1] + object[i]
    <3>1. i \in 1 .. n /\ f[i - 1] \in Nat
      BY <1>0, <1>2, <2>1 DEF Values
    <3> QED BY <1>1, <3>1
  <2>2. ASSUME NEW i \in 0 .. n PROVE f[i] = IF i = 0 THEN 0 ELSE f[i - 1] + object[i]
    <3>1. CASE i = 0
      BY <1>2, <3>1 DEF Values
    <3>2. CASE i # 0
      <4>1. i \in 1 .. n
        BY <1>0, <3>2
      <4>2. f[i] = h[i][f[i - 1]]
        BY <1>2, <4>1 DEF Values
      <4> QED BY <2>1, <3>2, <4>2
    <3> QED BY <3>1, <3>2
  <2>3. f \in [0 .. n -> Nat]
    BY <1>2 DEF Values
  <2> QED BY <2>2, <2>3
<1> DEFINE e == CHOOSE g : g = [i \in 0 .. n |-> IF i = 0 THEN 0 ELSE g[i - 1] + object[i]]
<1>4. e = [i \in 0 .. n |-> IF i = 0 THEN 0 ELSE e[i - 1] + object[i]]
  BY <1>3
<1>5. Ends(object) = e
  BY DEF Ends, n
<1> HIDE DEF e
<1>6. e \in [0 .. n -> Nat]
  <2> DEFINE T == {i \in 0 .. n : e[i] \in Nat}
  <2>0. ASSUME NEW i \in 0 .. n PROVE e[i] = IF i = 0 THEN 0 ELSE e[i - 1] + object[i]
    BY <1>4
  <2>1. 0 \in T
    BY <1>0, <2>0
  <2>2. ASSUME NEW i \in 0 .. n - 1, i \in T PROVE i + 1 \in T
    <3>1. i + 1 \in 0 .. n /\ i + 1 # 0 /\ i + 1 \in 1 .. n /\ (i + 1) - 1 = i
      BY <1>0
    <3>2. e[i + 1] = e[i] + object[i + 1]
      BY <2>0, <3>1
    <3> QED BY <1>0, <2>2, <3>1, <3>2
  <2>3. 0 .. n \subseteq T
    <3> HIDE DEF T
    <3> QED BY <1>0, <2>1, <2>2, UpTo
  <2> QED BY <1>4, <2>3
<1>7. e[0] = 0 /\ \A i \in 1 .. n : e[i] = e[i - 1] + object[i]
  BY <1>0, <1>4
<1> QED BY <1>5, <1>6, <1>7 DEF n

-----------------------------------------------------------------------------
(* plan_windows.                                                           *)

Win == [start : Nat, end : Nat]

PlanSet == [windows : Seq(Win), open : Nat, count : Nat, at : Nat]

Bounds(r) == r.start \in Nat /\ r.end \in Nat

\* The chunks a window of an object needs.
NeedsIn(object, w) ==
    {i \in 1 .. Len(object) : Ends(object)[i - 1] < w.end /\ Ends(object)[i] > w.start}

LEMMA EndsGrow ==
    ASSUME NEW object \in Seq(Nat \ {0})
    PROVE  /\ \A a, b \in 0 .. Len(object) : a <= b => Ends(object)[a] <= Ends(object)[b]
           /\ \A i \in 1 .. Len(object) : Ends(object)[i - 1] < Ends(object)[i]
           /\ Size(object) \in Nat
<1> DEFINE n == Len(object)
           e == Ends(object)
<1>1. /\ n \in Nat /\ e \in [0 .. n -> Nat]
      /\ \A i \in 1 .. n : e[i] = e[i - 1] + object[i] /\ object[i] \in Nat \ {0}
  BY EndsOf
<1>2. Size(object) = e[n]
  BY DEF Size
<1> HIDE DEF n, e
<1>3. ASSUME NEW i \in 1 .. n
      PROVE  i - 1 \in 0 .. n /\ e[i - 1] \in Nat /\ e[i - 1] < e[i]
  <2>1. i - 1 \in 0 .. n
    BY <1>1
  <2>2. e[i - 1] \in Nat
    BY <1>1, <2>1
  <2>3. e[i] = e[i - 1] + object[i] /\ object[i] \in Nat \ {0}
    BY <1>1
  <2> QED BY <2>1, <2>2, <2>3
<1>4. ASSUME NEW a \in 0 .. n PROVE \A b \in 0 .. n : a <= b => e[a] <= e[b]
  <2> DEFINE T == {b \in 0 .. n : a <= b => e[a] <= e[b]}
  <2>1. 0 \in T
    BY <1>1
  <2>2. ASSUME NEW i \in 0 .. n - 1, i \in T PROVE i + 1 \in T
    <3>1. i + 1 \in 1 .. n /\ (i + 1) - 1 = i /\ e[i] \in Nat /\ e[i + 1] \in Nat /\ e[a] \in Nat
      BY <1>1
    <3>2. e[i] < e[i + 1]
      BY <1>3, <3>1
    <3>3. CASE a = i + 1
      BY <3>1, <3>3
    <3>4. CASE a # i + 1
      BY <2>2, <3>1, <3>2, <3>4
    <3> QED BY <3>3, <3>4
  <2>3. 0 .. n \subseteq T
    <3> HIDE DEF T
    <3> QED BY <1>1, <2>1, <2>2, UpTo
  <2> QED BY <2>3
<1> QED BY <1>1, <1>2, <1>3, <1>4 DEF n, e

LEMMA ChunkType ==
    ASSUME NEW p \in PlanSet, NEW size \in Nat, NEW r, Bounds(r), NEW k \in Nat
    PROVE  PlanChunk(p, size, r, k) \in PlanSet
<1>1. p.at \in Nat /\ p.open \in Nat /\ p.count \in Nat /\ p.windows \in Seq(Win)
  BY DEF PlanSet
<1>2. MaxU64 \in Nat
  BY ConstantsAssumption
<1>3. PICK end : end = SaturatingAdd(p.at, size)
  OBVIOUS
<1>4. PICK start : start = IF p.count = 0 THEN Greatest(p.at, r.start) ELSE p.open
  OBVIOUS
<1>5. end \in Nat /\ start \in Nat /\ CloseAt(end, r) \in Nat
  BY <1>1, <1>2, <1>3, <1>4 DEF SaturatingAdd, Least, Greatest, CloseAt, Bounds
<1>6. Window(start, CloseAt(end, r)) \in Win
  BY <1>5 DEF Window, Win
<1>7. Append(p.windows, Window(start, CloseAt(end, r))) \in Seq(Win)
  BY <1>1, <1>6
<1>8. [p EXCEPT !.at = end] \in PlanSet
  BY <1>5 DEF PlanSet
<1>9. [windows |-> Append(p.windows, Window(start, CloseAt(end, r))),
       open |-> 0, count |-> 0, at |-> end] \in PlanSet
  BY <1>5, <1>7 DEF PlanSet
<1>10. [windows |-> p.windows, open |-> start, count |-> p.count + 1, at |-> end] \in PlanSet
  BY <1>1, <1>5 DEF PlanSet
<1> QED BY <1>3, <1>4, <1>8, <1>9, <1>10 DEF PlanChunk

\* The pass over the chunks, one after the other.
LEMMA PlanOf ==
    ASSUME NEW object \in Seq(Nat \ {0}), NEW r, Bounds(r), NEW k \in Nat
    PROVE  /\ Plan(object, r, k) \in [0 .. Len(object) -> PlanSet]
           /\ Plan(object, r, k)[0] = PlanStart
           /\ \A i \in 1 .. Len(object) :
                 Plan(object, r, k)[i] = PlanChunk(Plan(object, r, k)[i - 1], object[i], r, k)
<1> DEFINE n == Len(object)
           next(p, i) == PlanChunk(p, object[i], r, k)
           e == CHOOSE g : g = [i \in 0 .. n |-> IF i = 0 THEN PlanStart ELSE next(g[i - 1], i)]
<1>5. Plan(object, r, k) = e
  BY DEF Plan
<1>0. n \in Nat /\ \A i \in 1 .. n : object[i] \in Nat
  OBVIOUS
<1>9. \A i \in 1 .. n, p \in PlanSet : next(p, i) \in PlanSet
  BY <1>0, ChunkType
<1>8. PlanStart \in PlanSet
  BY DEF PlanStart, PlanSet
<1> HIDE DEF n, next
<1>1. PICK h : h = [i \in 1 .. n |-> [p \in PlanSet |-> next(p, i)]]
  OBVIOUS
<1>2. PICK f : Values(f, n, PlanSet, PlanStart, h)
  <2>1. h \in [1 .. n -> [PlanSet -> PlanSet]]
    <3>1. ASSUME NEW i \in 1 .. n PROVE [p \in PlanSet |-> next(p, i)] \in [PlanSet -> PlanSet]
      BY <1>9
    <3> QED BY <1>1, <3>1
  <2>2. Stepping(n, PlanSet, PlanStart, h)
    BY <1>0, <1>8, <2>1 DEF Stepping
  <2> QED BY <2>2, Steps
<1>3. f = [i \in 0 .. n |-> IF i = 0 THEN PlanStart ELSE next(f[i - 1], i)]
  <2>1. ASSUME NEW i \in 0 .. n, i # 0 PROVE h[i][f[i - 1]] = next(f[i - 1], i)
    <3>1. i \in 1 .. n /\ f[i - 1] \in PlanSet
      BY <1>0, <1>2, <2>1 DEF Values
    <3> QED BY <1>1, <3>1
  <2>2. ASSUME NEW i \in 0 .. n PROVE f[i] = IF i = 0 THEN PlanStart ELSE next(f[i - 1], i)
    <3>1. CASE i = 0
      BY <1>2, <3>1 DEF Values
    <3>2. CASE i # 0
      <4>1. i \in 1 .. n
        BY <1>0, <3>2
      <4>2. f[i] = h[i][f[i - 1]]
        BY <1>2, <4>1 DEF Values
      <4> QED BY <2>1, <3>2, <4>2
    <3> QED BY <3>1, <3>2
  <2>3. f \in [0 .. n -> PlanSet]
    BY <1>2 DEF Values
  <2> QED BY <2>2, <2>3
<1>4. e = [i \in 0 .. n |-> IF i = 0 THEN PlanStart ELSE next(e[i - 1], i)]
  BY <1>3
<1> HIDE DEF e
<1>6. e \in [0 .. n -> PlanSet]
  <2> DEFINE T == {i \in 0 .. n : e[i] \in PlanSet}
  <2>0. ASSUME NEW i \in 0 .. n PROVE e[i] = IF i = 0 THEN PlanStart ELSE next(e[i - 1], i)
    BY <1>4
  <2>1. 0 \in T
    BY <1>0, <1>8, <2>0
  <2>2. ASSUME NEW i \in 0 .. n - 1, i \in T PROVE i + 1 \in T
    <3>1. i + 1 \in 0 .. n /\ i + 1 # 0 /\ i + 1 \in 1 .. n /\ (i + 1) - 1 = i
      BY <1>0
    <3>2. e[i + 1] = next(e[i], i + 1)
      BY <2>0, <3>1
    <3> QED BY <1>9, <2>2, <3>1, <3>2
  <2>3. 0 .. n \subseteq T
    <3> HIDE DEF T
    <3> QED BY <1>0, <2>1, <2>2, UpTo
  <2> QED BY <1>4, <2>3
<1>7. e[0] = PlanStart /\ \A i \in 1 .. n : e[i] = next(e[i - 1], i)
  BY <1>0, <1>4
<1> QED BY <1>5, <1>6, <1>7 DEF n, next
\* Windows that follow one another from the start of a range, within it.
Tiles(W, r) ==
    \A j \in 1 .. Len(W) :
        /\ W[j].start = IF j = 1 THEN r.start ELSE W[j - 1].end
        /\ r.start <= W[j].start /\ W[j].start < W[j].end /\ W[j].end <= r.end

\* Each needs at most k chunks, and no chunk is needed by two.
Spans(object, W, k) ==
    \A j \in 1 .. Len(W) :
        /\ NeedsIn(object, W[j]) # {}
        /\ \A a, b \in NeedsIn(object, W[j]) : a - b < k
        /\ \A i \in 1 .. j - 1 : NeedsIn(object, W[j]) \cap NeedsIn(object, W[i]) = {}

Below(object, W, b) == \A j \in 1 .. Len(W) : \A c \in NeedsIn(object, W[j]) : c <= b

\* A window is open since chunk b + 1, and has `count` chunks.
Opened(object, r, W, open, count, b, i) ==
    /\ b + count <= i
    /\ b + count = i \/ Ends(object)[b + count] >= r.end
    /\ Ends(object)[b] < r.end /\ Ends(object)[b + 1] > r.start
    /\ open = Greatest(Ends(object)[b], r.start) /\ open = EndOf(W, r.start)
    /\ Below(object, W, b)

\* The state of the pass after i chunks.
PlanOK(object, r, k, p, i) ==
    /\ p.at = Ends(object)[i] /\ p.count < k
    /\ Tiles(p.windows, r) /\ Spans(object, p.windows, k)
    /\ p.count = 0 =>
          /\ Below(object, p.windows, i)
          /\ p.windows = <<>> => Ends(object)[i] <= r.start
          /\ p.windows # <<>> => EndOf(p.windows, r.start) = Least(Ends(object)[i], r.end)
    /\ p.count > 0 =>
          \E b \in 0 .. i - 1 : Opened(object, r, p.windows, p.open, p.count, b, i)

\* A window from `open` to e that has the chunks b + 1 .. top can follow the others.
CanClose(object, r, k, W, b, top, open, e) ==
    /\ W \in Seq(Win) /\ Tiles(W, r) /\ Spans(object, W, k) /\ Below(object, W, b)
    /\ b \in 0 .. Len(object) - 1 /\ top \in b + 1 .. Len(object) /\ top - b <= k
    /\ open \in Nat /\ e \in Nat /\ Ends(object)[b] < e /\ open < e /\ e <= r.end
    /\ open = Greatest(Ends(object)[b], r.start) /\ open = EndOf(W, r.start)
    /\ Ends(object)[b + 1] > r.start
    /\ \A c \in top + 1 .. Len(object) : Ends(object)[c - 1] >= e

Closed(object, r, k, V, top, e) ==
    /\ V \in Seq(Win) /\ Tiles(V, r) /\ Spans(object, V, k) /\ Below(object, V, top)
    /\ V # <<>> /\ EndOf(V, r.start) = e

LEMMA AddWindow ==
    ASSUME NEW object \in Seq(Nat \ {0}), NEW r, Bounds(r), NEW k \in Nat, NEW W,
           NEW b, NEW top, NEW open, NEW e, CanClose(object, r, k, W, b, top, open, e)
    PROVE  Closed(object, r, k, Append(W, Window(open, e)), top, e)
<1> DEFINE n == Len(object)
           E == Ends(object)
<1>0. n \in Nat /\ r.start \in Nat /\ r.end \in Nat
  BY DEF Bounds
<1>e. E \in [0 .. n -> Nat]
  BY EndsOf
<1>g. \A c, d \in 0 .. n : c <= d => E[c] <= E[d]
  BY EndsGrow
<1>c. /\ W \in Seq(Win) /\ Tiles(W, r) /\ Spans(object, W, k) /\ Below(object, W, b)
      /\ open = EndOf(W, r.start)
  BY DEF CanClose
<1>n. /\ b \in 0 .. n - 1 /\ top \in b + 1 .. n /\ top - b <= k
      /\ open \in Nat /\ e \in Nat /\ E[b] < e /\ open < e /\ e <= r.end
      /\ open = Greatest(E[b], r.start) /\ E[b + 1] > r.start
  BY DEF CanClose
<1>t. \A c \in top + 1 .. n : E[c - 1] >= e
  BY DEF CanClose
<1>b. /\ E[b] \in Nat /\ E[b + 1] \in Nat /\ E[b] < E[b + 1] /\ b \in Nat /\ top \in Nat
      /\ b + 1 \in 1 .. n /\ (b + 1) - 1 = b
  <2>1. b \in 0 .. n /\ b + 1 \in 1 .. n /\ b + 1 \in 0 .. n /\ (b + 1) - 1 = b
    BY <1>0, <1>n
  <2>2. E[b] < E[b + 1]
    BY <2>1, EndsGrow
  <2> HIDE DEF E
  <2> QED BY <1>e, <1>n, <2>1, <2>2, SMTT(30)
<1>o. open >= r.start /\ open >= E[b] /\ (open = r.start \/ open = E[b])
  BY <1>0, <1>n, <1>b, SMTT(30) DEF Greatest
<1>1. PICK w : w = Window(open, e)
  OBVIOUS
<1>2. w \in Win /\ w.start = open /\ w.end = e
  BY <1>n, <1>1 DEF Window, Win
<1>3. PICK V : V = Append(W, w)
  OBVIOUS
<1>4. /\ V \in Seq(Win) /\ Len(V) = Len(W) + 1 /\ Len(W) \in Nat /\ V[Len(W) + 1] = w
      /\ \A j \in 1 .. Len(W) : V[j] = W[j]
  BY <1>c, <1>2, <1>3
<1>5. ASSUME NEW c \in NeedsIn(object, w) PROVE c \in b + 1 .. top
  <2>1. c \in 1 .. n /\ E[c - 1] < e /\ E[c] > open
    BY <1>2 DEF NeedsIn
  <2>2. c \in 0 .. n /\ c - 1 \in 0 .. n /\ b \in 0 .. n
    BY <1>0, <1>n, <2>1, SMTT(30)
  <2>3. E[c] \in Nat /\ E[c - 1] \in Nat /\ (c <= b => E[c] <= E[b])
    <3> HIDE DEF E
    <3> QED BY <1>e, <1>g, <2>2
  <2>4. c > b
    <3>1. E[c] > E[b]
      BY <1>n, <1>b, <1>o, <2>1, <2>3, SMTT(30)
    <3> QED BY <1>b, <2>1, <2>3, <3>1
  <2>5. c <= top
    <3> SUFFICES ASSUME c > top PROVE FALSE
      BY <1>b, <2>1
    <3>1. c \in top + 1 .. n
      BY <1>b, <2>1
    <3>2. E[c - 1] >= e
      BY <1>t, <3>1
    <3> QED BY <1>n, <2>1, <2>3, <3>2, SMTT(30)
  <2> QED BY <1>b, <2>1, <2>4, <2>5
<1>6. b + 1 \in NeedsIn(object, w)
  <2>1. E[b] < e /\ E[b + 1] > open
    BY <1>0, <1>n, <1>b, <1>o
  <2> QED BY <1>2, <1>b, <2>1 DEF NeedsIn
<1>7. Tiles(V, r)
  <2> SUFFICES ASSUME NEW j \in 1 .. Len(V)
               PROVE  /\ V[j].start = IF j = 1 THEN r.start ELSE V[j - 1].end
                      /\ r.start <= V[j].start /\ V[j].start < V[j].end /\ V[j].end <= r.end
    BY DEF Tiles
  <2>1. CASE j <= Len(W)
    <3>1. j \in 1 .. Len(W) /\ (j # 1 => j - 1 \in 1 .. Len(W))
      BY <1>4, <2>1
    <3>2. V[j] = W[j] /\ (j # 1 => V[j - 1] = W[j - 1])
      BY <1>4, <3>1
    <3> QED BY <1>c, <3>1, <3>2 DEF Tiles
  <2>2. CASE j = Len(W) + 1
    <3>1. V[j].start = open /\ V[j].end = e
      BY <1>2, <1>4, <2>2
    <3>2. CASE W = <<>>
      <4>1. open = r.start /\ j = 1
        BY <1>c, <1>4, <2>2, <3>2 DEF EndOf
      <4> QED BY <1>n, <1>0, <3>1, <4>1
    <3>3. CASE W # <<>>
      <4>1. j # 1 /\ j - 1 = Len(W) /\ Len(W) \in 1 .. Len(W) /\ V[j - 1] = W[Len(W)]
        BY <1>c, <1>4, <2>2, <3>3
      <4>2. open = W[Len(W)].end
        BY <1>c, <3>3 DEF EndOf
      <4> QED BY <1>n, <1>o, <3>1, <4>1, <4>2
    <3> QED BY <3>2, <3>3
  <2> QED BY <1>4, <2>1, <2>2
<1>8. Spans(object, V, k)
  <2> SUFFICES ASSUME NEW j \in 1 .. Len(V)
               PROVE  /\ NeedsIn(object, V[j]) # {}
                      /\ \A c, d \in NeedsIn(object, V[j]) : c - d < k
                      /\ \A i \in 1 .. j - 1 : NeedsIn(object, V[j]) \cap NeedsIn(object, V[i]) = {}
    BY DEF Spans
  <2>1. CASE j <= Len(W)
    <3>1. j \in 1 .. Len(W) /\ V[j] = W[j] /\ \A i \in 1 .. j - 1 : V[i] = W[i]
      BY <1>4, <2>1, SMTT(30)
    <3> QED BY <1>c, <3>1 DEF Spans
  <2>2. CASE j = Len(W) + 1
    <3>1. V[j] = w
      BY <1>4, <2>2
    <3>2. ASSUME NEW c \in NeedsIn(object, w), NEW d \in NeedsIn(object, w) PROVE c - d < k
      <4>1. c \in b + 1 .. top /\ d \in b + 1 .. top
        BY <1>5
      <4> QED BY <1>n, <1>b, <4>1
    <3>3. ASSUME NEW i \in 1 .. j - 1 PROVE NeedsIn(object, w) \cap NeedsIn(object, V[i]) = {}
      <4>1. i \in 1 .. Len(W) /\ V[i] = W[i]
        BY <1>4, <2>2
      <4>2. \A c \in NeedsIn(object, V[i]) : c <= b
        BY <1>c, <4>1 DEF Below
      <4>3. \A c \in NeedsIn(object, w) : c \in Nat /\ b < c
        BY <1>b, <1>5
      <4>4. \A c \in NeedsIn(object, V[i]) : c \in Nat
        BY DEF NeedsIn
      <4> QED BY <1>b, <4>2, <4>3, <4>4
    <3> QED BY <1>6, <3>1, <3>2, <3>3
  <2> QED BY <1>4, <2>1, <2>2
<1>9. Below(object, V, top)
  <2> SUFFICES ASSUME NEW j \in 1 .. Len(V), NEW c \in NeedsIn(object, V[j]) PROVE c <= top
    BY DEF Below
  <2>1. CASE j <= Len(W)
    <3>1. j \in 1 .. Len(W) /\ V[j] = W[j]
      BY <1>4, <2>1
    <3>2. c \in Nat
      BY DEF NeedsIn
    <3>3. c <= b
      BY <1>c, <3>1 DEF Below
    <3> QED BY <1>n, <1>b, <3>2, <3>3
  <2>2. CASE j = Len(W) + 1
    <3>1. V[j] = w
      BY <1>4, <2>2
    <3>2. c \in b + 1 .. top
      BY <1>5, <3>1
    <3> QED BY <1>b, <3>2
  <2> QED BY <1>4, <2>1, <2>2
<1>10. V # <<>> /\ EndOf(V, r.start) = e
  BY <1>2, <1>4 DEF EndOf
<1> QED BY <1>1, <1>3, <1>4, <1>7, <1>8, <1>9, <1>10 DEF Closed
\* A chunk that overlaps the range is the first of a window or the next of the open one.
LEMMA CountChunk ==
    ASSUME NEW object \in Seq(Nat \ {0}), NEW r, Bounds(r), NEW k \in Nat,
           NEW p \in PlanSet, NEW i \in 1 .. Len(object), PlanOK(object, r, k, p, i - 1),
           Ends(object)[i - 1] < r.end, Ends(object)[i] > r.start,
           NEW start,
           start = IF p.count = 0 THEN Greatest(Ends(object)[i - 1], r.start) ELSE p.open
    PROVE  \E b \in 0 .. i - 1 :
              /\ b + p.count + 1 = i
              /\ Ends(object)[b] < r.end /\ Ends(object)[b + 1] > r.start
              /\ start = Greatest(Ends(object)[b], r.start)
              /\ start = EndOf(p.windows, r.start) /\ Below(object, p.windows, b)
<1> DEFINE n == Len(object)
           E == Ends(object)
<1>0. n \in Nat /\ r.start \in Nat /\ r.end \in Nat /\ i \in Nat /\ p.count \in Nat
  BY DEF Bounds, PlanSet
<1>1. E \in [0 .. n -> Nat]
  BY EndsOf
<1>2. \A c, d \in 0 .. n : c <= d => E[c] <= E[d]
  BY EndsGrow
<1> HIDE DEF E
<1>3. i \in 0 .. n /\ i - 1 \in 0 .. n /\ E[i - 1] < r.end /\ E[i] > r.start
  BY <1>0 DEF E
<1>4. E[i] \in Nat /\ E[i - 1] \in Nat
  <2> QED BY <1>1, <1>3
<1>5. CASE p.count = 0
  <2>1. start = Greatest(E[i - 1], r.start) /\ (i - 1) + p.count + 1 = i /\ i - 1 \in 0 .. i - 1
    BY <1>0, <1>5 DEF E
  <2>2. Below(object, p.windows, i - 1) /\ E[(i - 1) + 1] > r.start
    BY <1>0, <1>3, <1>5 DEF PlanOK, E
  <2>3. CASE p.windows = <<>>
    <3>1. E[i - 1] <= r.start
      BY <1>5, <2>3 DEF PlanOK, E
    <3>2. start = EndOf(p.windows, r.start)
      BY <1>0, <1>4, <2>1, <2>3, <3>1, SMTT(30) DEF EndOf, Greatest
    <3> QED BY <1>3, <2>1, <2>2, <3>2 DEF E
  <2>4. CASE p.windows # <<>>
    <3>1. EndOf(p.windows, r.start) = Least(E[i - 1], r.end)
      BY <1>5, <2>4 DEF PlanOK, E
    <3>2. p.windows \in Seq(Win) /\ Len(p.windows) \in 1 .. Len(p.windows)
      BY <2>4 DEF PlanSet
    <3>3. EndOf(p.windows, r.start) = p.windows[Len(p.windows)].end
      BY <2>4 DEF EndOf
    <3>4. EndOf(p.windows, r.start) > r.start
      <4>1. p.windows[Len(p.windows)] \in Win
        BY <3>2
      <4>2. /\ r.start <= p.windows[Len(p.windows)].start
            /\ p.windows[Len(p.windows)].start < p.windows[Len(p.windows)].end
        BY <3>2 DEF PlanOK, Tiles, E
      <4> QED BY <1>0, <3>3, <4>1, <4>2, SMTT(30) DEF Win
    <3>5. start = EndOf(p.windows, r.start)
      BY <1>0, <1>3, <1>4, <2>1, <3>1, <3>4 DEF Greatest, Least
    <3> QED BY <1>3, <2>1, <2>2, <3>5 DEF E
  <2> QED BY <2>3, <2>4
<1>6. CASE p.count # 0
  <2>1. PICK b \in 0 .. (i - 1) - 1 : Opened(object, r, p.windows, p.open, p.count, b, i - 1)
    BY <1>0, <1>6 DEF PlanOK, E
  <2>2. start = p.open
    BY <1>6
  <2>3. b + p.count = i - 1
    <3> SUFFICES ASSUME b + p.count # i - 1 PROVE FALSE
      OBVIOUS
    <3>1. E[b + p.count] >= r.end /\ b + p.count <= i - 1
      BY <2>1 DEF Opened, E
    <3>2. b + p.count \in 0 .. n
      BY <1>0, <1>3, <3>1, SMTT(30)
    <3>3. E[b + p.count] \in Nat /\ E[b + p.count] <= E[i - 1]
        <4> QED BY <1>1, <1>2, <1>3, <3>1, <3>2
    <3> QED BY <1>0, <1>3, <1>4, <3>1, <3>3, SMTT(30)
  <2>4. b \in 0 .. i - 1 /\ b + p.count + 1 = i
    BY <1>0, <2>3
  <2> QED BY <2>1, <2>2, <2>4 DEF Opened, E
<1> QED BY <1>5, <1>6

LEMMA PlanStep ==
    ASSUME NEW object \in Seq(Nat \ {0}), Size(object) <= MaxU64, NEW r, Bounds(r),
           NEW k \in Nat \ {0}, NEW p \in PlanSet, NEW i \in 1 .. Len(object),
           PlanOK(object, r, k, p, i - 1), r.start < r.end
    PROVE  PlanOK(object, r, k, PlanChunk(p, object[i], r, k), i)
<1> DEFINE n == Len(object)
           E == Ends(object)
<1>0. /\ n \in Nat /\ r.start \in Nat /\ r.end \in Nat /\ i \in Nat /\ 1 <= i /\ i <= n
      /\ p.count \in Nat /\ p.open \in Nat /\ p.at \in Nat /\ k \in Nat /\ r.start < r.end
  BY DEF Bounds, PlanSet
<1>w. p.windows \in Seq(Win)
  BY DEF PlanSet
<1> HIDE DEF n
<1>1. E \in [0 .. n -> Nat] /\ E[i] = E[i - 1] + object[i]
  BY EndsOf DEF n
<1>2. \A c, d \in 0 .. n : c <= d => E[c] <= E[d]
  BY EndsGrow DEF n
<1>3. E[i - 1] < E[i]
  BY EndsGrow
<1> HIDE DEF E
<1>4. i \in 0 .. n /\ i - 1 \in 0 .. n
  BY <1>0
<1>5. E[i] \in Nat /\ E[i - 1] \in Nat /\ E[i] <= MaxU64 /\ MaxU64 \in Nat
  <2>1. E[n] <= MaxU64 /\ MaxU64 \in Nat
    BY ConstantsAssumption DEF Size, E, n
  <2>2. n \in 0 .. n
    BY <1>0
  <2> HIDE DEF n
  <2> QED BY <1>0, <1>1, <1>2, <1>4, <2>1, <2>2
<1>6. SaturatingAdd(p.at, object[i]) = E[i]
  BY <1>1, <1>5 DEF PlanOK, SaturatingAdd, Least, E
<1>7. PICK start : start = IF p.count = 0 THEN Greatest(E[i - 1], r.start) ELSE p.open
  OBVIOUS
<1>8. PICK q : q = PlanChunk(p, object[i], r, k)
  OBVIOUS
<1>9. q = IF ~Overlaps(E[i - 1], E[i], r) THEN [p EXCEPT !.at = E[i]]
          ELSE IF p.count + 1 = k
          THEN [windows |-> Append(p.windows, Window(start, CloseAt(E[i], r))),
                open |-> 0, count |-> 0, at |-> E[i]]
          ELSE [windows |-> p.windows, open |-> start, count |-> p.count + 1, at |-> E[i]]
  BY <1>6, <1>7, <1>8 DEF PlanChunk, PlanOK, E
<1>10. CASE ~Overlaps(E[i - 1], E[i], r)
  <2>1. /\ q.windows = p.windows /\ q.open = p.open /\ q.count = p.count /\ q.at = E[i]
    BY <1>9, <1>10 DEF PlanSet
  <2>2. E[i - 1] >= r.end \/ E[i] <= r.start
    BY <1>0, <1>5, <1>10, SMTT(30) DEF Overlaps
  <2>3. ASSUME p.count = 0
        PROVE  /\ Below(object, p.windows, i)
               /\ p.windows = <<>> => E[i] <= r.start
               /\ p.windows # <<>> => EndOf(p.windows, r.start) = Least(E[i], r.end)
    <3>1. Below(object, p.windows, i)
      <4> SUFFICES ASSUME NEW j \in 1 .. Len(p.windows), NEW c \in NeedsIn(object, p.windows[j])
                   PROVE  c <= i
        BY DEF Below
      <4>1. c <= i - 1 /\ c \in Nat
        BY <2>3 DEF PlanOK, Below, NeedsIn, E
      <4> QED BY <1>0, <4>1
    <3>2. ASSUME p.windows = <<>> PROVE E[i] <= r.start
      <4>1. E[i - 1] <= r.start
        BY <2>3, <3>2 DEF PlanOK, E
      <4> QED BY <1>0, <1>5, <2>2, <4>1, SMTT(30)
    <3>3. ASSUME p.windows # <<>> PROVE EndOf(p.windows, r.start) = Least(E[i], r.end)
      <4>1. EndOf(p.windows, r.start) = Least(E[i - 1], r.end)
        BY <2>3, <3>3 DEF PlanOK, E
      <4>2. Len(p.windows) \in 1 .. Len(p.windows) /\ p.windows[Len(p.windows)] \in Win
        BY <1>w, <3>3
      <4>3. EndOf(p.windows, r.start) > r.start
        <5>1. /\ r.start <= p.windows[Len(p.windows)].start
              /\ p.windows[Len(p.windows)].start < p.windows[Len(p.windows)].end
          BY <4>2 DEF PlanOK, Tiles, E
        <5> QED BY <1>0, <3>3, <4>2, <5>1, SMTT(30) DEF Win, EndOf
      <4> QED BY <1>0, <1>3, <1>5, <2>2, <4>1, <4>3, SMTT(30) DEF Least
    <3> QED BY <3>1, <3>2, <3>3
  <2>4. ASSUME p.count > 0
        PROVE  \E b \in 0 .. i - 1 : Opened(object, r, p.windows, p.open, p.count, b, i)
    <3>1. PICK b \in 0 .. (i - 1) - 1 : Opened(object, r, p.windows, p.open, p.count, b, i - 1)
      BY <2>4 DEF PlanOK, E
    <3>2. b \in 0 .. i - 1 /\ b + p.count <= i /\ b + 1 \in 0 .. n /\ b + 1 <= i
      BY <1>0, <3>1 DEF Opened, E
    <3>3. E[b + 1] > r.start /\ E[b + 1] \in Nat /\ E[b + 1] <= E[i]
      <4>1. E[b + 1] > r.start
        BY <3>1 DEF Opened, E
        <4> QED BY <1>1, <1>2, <1>4, <3>2, <4>1
    <3>4. E[i - 1] >= r.end
      BY <1>0, <1>5, <2>2, <3>3, SMTT(30)
    <3>5. b + p.count = i \/ E[b + p.count] >= r.end
      <4>1. b + p.count = i - 1 \/ E[b + p.count] >= r.end
        BY <3>1 DEF Opened, E
      <4> QED BY <3>4, <4>1
    <3>6. Opened(object, r, p.windows, p.open, p.count, b, i)
      BY <3>1, <3>2, <3>5 DEF Opened, E
    <3> QED BY <3>2, <3>6
  <2> QED BY <1>8, <2>1, <2>3, <2>4 DEF PlanOK, E
<1>11. CASE Overlaps(E[i - 1], E[i], r)
  <2>1. E[i - 1] < r.end /\ E[i] > r.start
    BY <1>11 DEF Overlaps
  <2>2. PICK b \in 0 .. i - 1 :
          /\ b + p.count + 1 = i
          /\ E[b] < r.end /\ E[b + 1] > r.start
          /\ start = Greatest(E[b], r.start)
          /\ start = EndOf(p.windows, r.start) /\ Below(object, p.windows, b)
    BY <1>0, <1>7, <2>1, CountChunk, SMTT(30) DEF E, n
  <2>3. b \in 0 .. n /\ b + 1 \in 0 .. n /\ b + 1 <= i /\ b <= i - 1
    BY <1>0
  <2>4. E[b] \in Nat /\ E[b + 1] \in Nat /\ E[b] <= E[i - 1] /\ E[b + 1] <= E[i]
    <3> QED BY <1>1, <1>2, <1>4, <2>3
  <2>5. CASE p.count + 1 = k
    <3>1. PICK e : e = CloseAt(E[i], r)
      OBVIOUS
    <3>2. /\ e = Least(E[i], r.end) /\ e \in Nat /\ E[b] < e /\ start < e /\ e <= r.end
          /\ start \in Nat
      <4>1. e = Least(E[i], r.end) /\ start = Greatest(E[b], r.start)
        BY <2>2, <3>1 DEF CloseAt
      <4>2. e \in Nat /\ e <= r.end /\ (e = E[i] \/ e = r.end)
        BY <1>0, <1>5, <4>1, SMTT(30) DEF Least
      <4>3. start \in Nat /\ (start = E[b] \/ start = r.start)
        BY <1>0, <2>4, <4>1 DEF Greatest
      <4>4. E[b] < E[i] /\ E[b] < r.end /\ r.start < E[i]
        <5>1. E[b] < E[i]
          BY <1>3, <1>5, <2>4
        <5>2. E[b] < r.end
          BY <2>2
        <5>3. r.start < E[i]
          BY <1>0, <1>5, <2>1
        <5> QED BY <5>1, <5>2, <5>3
      <4> QED BY <1>0, <4>1, <4>2, <4>3, <4>4
    <3>3. \A c \in i + 1 .. n : E[c - 1] >= e
      <4> SUFFICES ASSUME NEW c \in i + 1 .. n PROVE E[c - 1] >= e
        OBVIOUS
      <4>1. c - 1 \in 0 .. n /\ i <= c - 1
        BY <1>0
      <4>2. E[i] <= E[c - 1] /\ E[c - 1] \in Nat
        <5> QED BY <1>1, <1>2, <1>4, <4>1
      <4> QED BY <1>0, <1>5, <3>2, <4>2, SMTT(30) DEF Least
    <3>4. PICK V : V = Append(p.windows, Window(start, e))
      OBVIOUS
    <3>5. /\ Tiles(V, r) /\ Spans(object, V, k) /\ Below(object, V, i)
          /\ V # <<>> /\ EndOf(V, r.start) = e
      <4>1. b \in 0 .. n - 1 /\ i \in b + 1 .. n /\ i - b <= k
        BY <1>0, <2>2, <2>5
      <4>2. Tiles(p.windows, r) /\ Spans(object, p.windows, k)
        BY DEF PlanOK, E
      <4>3. CanClose(object, r, k, p.windows, b, i, start, e)
        BY <2>2, <3>2, <3>3, <4>1, <4>2, <1>w DEF CanClose, E, n
      <4>4. Closed(object, r, k, Append(p.windows, Window(start, e)), i, e)
        BY <1>0, <4>3, AddWindow
      <4> QED BY <3>4, <4>4 DEF Closed
    <3>6. q.windows = V /\ q.count = 0 /\ q.at = E[i]
      BY <1>9, <1>11, <2>5, <3>1, <3>4
    <3> QED BY <1>0, <1>8, <3>2, <3>5, <3>6 DEF PlanOK, E
  <2>6. CASE p.count + 1 # k
    <3>1. q.windows = p.windows /\ q.open = start /\ q.count = p.count + 1 /\ q.at = E[i]
      BY <1>9, <1>11, <2>6
    <3>2. q.count < k /\ q.count # 0
      <4>1. p.count < k
        BY DEF PlanOK
      <4>2. p.count \in Nat /\ k \in Nat
        BY <1>0
      <4>3. p.count + 1 < k /\ p.count + 1 # 0
        BY <2>6, <4>1, <4>2
      <4> QED BY <3>1, <4>3
    <3>3. Opened(object, r, q.windows, q.open, q.count, b, i)
      <4>1. b + q.count = i /\ b + q.count <= i
        <5>1. b + p.count + 1 = i /\ b \in Int
          BY <2>2
        <5>2. p.count \in Int /\ i \in Int /\ q.count = p.count + 1
          BY <1>0, <3>1
        <5> QED BY <5>1, <5>2
      <4> QED BY <2>2, <3>1, <4>1 DEF Opened, E
    <3>4. Tiles(q.windows, r) /\ Spans(object, q.windows, k)
      BY <3>1 DEF PlanOK, E
    <3> QED BY <1>8, <3>1, <3>2, <3>3, <3>4 DEF PlanOK, E
  <2> QED BY <2>5, <2>6
<1> QED BY <1>10, <1>11

\* plan_windows: every range within an object is cut into windows that follow one
\* another from its start to its end, need few chunks, and share none.
LEMMA PlanIsGood ==
    ASSUME NEW object \in Seq(Nat \ {0}), Size(object) <= MaxU64, NEW r, Bounds(r),
           NEW k \in Nat \ {0}, r.start < r.end, r.end <= Size(object)
    PROVE  /\ PlanWindows(object, r, k) \in Seq(Win) /\ PlanWindows(object, r, k) # <<>>
           /\ Tiles(PlanWindows(object, r, k), r) /\ Spans(object, PlanWindows(object, r, k), k)
           /\ EndOf(PlanWindows(object, r, k), r.start) = r.end
<1> DEFINE n == Len(object)
           E == Ends(object)
           P == Plan(object, r, k)
           T == {i \in 0 .. n : PlanOK(object, r, k, P[i], i)}
<1>0. n \in Nat /\ r.start \in Nat /\ r.end \in Nat /\ n \in 0 .. n /\ r.end <= E[n]
  BY DEF Bounds, Size
<1>1. E \in [0 .. n -> Nat] /\ E[0] = 0
  BY EndsOf
<1> HIDE DEF E
<1>2. /\ P \in [0 .. n -> PlanSet] /\ P[0] = PlanStart
      /\ \A i \in 1 .. n : P[i] = PlanChunk(P[i - 1], object[i], r, k)
  BY PlanOf
<1>3. 0 \in T
  <2>1. PlanOK(object, r, k, PlanStart, 0)
    BY <1>0, <1>1 DEF PlanOK, PlanStart, Tiles, Spans, Below, E
  <2> QED BY <1>0, <1>2, <2>1
<1>4. ASSUME NEW i \in 0 .. n - 1, i \in T PROVE i + 1 \in T
  <2>1. i + 1 \in 1 .. n /\ (i + 1) - 1 = i /\ i + 1 \in 0 .. n
    BY <1>0
  <2>2. P[i + 1] = PlanChunk(P[i], object[i + 1], r, k) /\ P[i] \in PlanSet
    <3>1. i \in 0 .. n
      BY <1>0
    <3> HIDE DEF P
    <3> QED BY <1>2, <2>1, <3>1
  <2>3. PlanOK(object, r, k, P[i], (i + 1) - 1)
    BY <1>4, <2>1
  <2>4. PlanOK(object, r, k, PlanChunk(P[i], object[i + 1], r, k), i + 1)
    BY <2>1, <2>2, <2>3, PlanStep DEF E
  <2> QED BY <2>1, <2>2, <2>4
<1>5. n \in T
  <2>1. 0 .. n \subseteq T
    <3> HIDE DEF T, n
    <3> QED BY <1>0, <1>3, <1>4, UpTo
  <2> QED BY <1>0, <2>1
<1>6. PICK p : p = P[n]
  OBVIOUS
<1>7. p \in PlanSet /\ PlanOK(object, r, k, p, n) /\ E[n] \in Nat
  <2>1. PlanOK(object, r, k, p, n)
    BY <1>5, <1>6
  <2> HIDE DEF P
  <2> QED BY <1>0, <1>1, <1>2, <1>6, <2>1
<1>8. /\ p.windows \in Seq(Win) /\ p.count \in Nat /\ p.open \in Nat
      /\ Tiles(p.windows, r) /\ Spans(object, p.windows, k) /\ p.count < k
  BY <1>7 DEF PlanSet, PlanOK, E
<1>9. PICK W : W = PlanWindows(object, r, k)
  OBVIOUS
<1>10. W = IF p.count = 0 THEN p.windows ELSE Append(p.windows, Window(p.open, r.end))
  BY <1>6, <1>9 DEF PlanWindows
<1>11. CASE p.count = 0
  <2>1. W = p.windows
    BY <1>10, <1>11
  <2>2. W # <<>>
    BY <1>0, <1>7, <1>11, <2>1 DEF PlanOK, E
  <2>3. EndOf(W, r.start) = Least(E[n], r.end)
    BY <1>7, <1>11, <2>1, <2>2 DEF PlanOK, E
  <2>4. EndOf(W, r.start) = r.end
    BY <1>0, <1>7, <2>3 DEF Least
  <2> QED BY <1>8, <1>9, <2>1, <2>2, <2>4
<1>12. CASE p.count # 0
  <2>1. PICK b \in 0 .. n - 1 : Opened(object, r, p.windows, p.open, p.count, b, n)
    BY <1>0, <1>7, <1>8, <1>12 DEF PlanOK, E
  <2>2. PICK top : top = b + p.count
    OBVIOUS
  <2>3. top \in b + 1 .. n /\ top - b <= k /\ k \in Nat /\ b \in 0 .. n /\ top \in 0 .. n
    <3>1. b + p.count <= n /\ b \in Nat /\ p.count >= 1
      BY <1>0, <1>8, <1>12, <2>1 DEF Opened
    <3>2. k \in Nat /\ p.count <= k
      BY <1>8
    <3>3. top \in Nat /\ top = b + p.count /\ b + 1 <= top /\ top <= n
      BY <1>8, <2>2, <3>1
    <3>4. top \in b + 1 .. n /\ top \in 0 .. n /\ b \in 0 .. n
      BY <1>0, <3>1, <3>3
    <3>5. top - b = p.count
      BY <1>8, <3>1, <3>3
    <3> QED BY <3>2, <3>4, <3>5
  <2>4. /\ E[b] < r.end /\ E[b + 1] > r.start /\ p.open = Greatest(E[b], r.start)
        /\ p.open = EndOf(p.windows, r.start) /\ Below(object, p.windows, b)
        /\ (top = n \/ E[top] >= r.end)
    BY <2>1, <2>2 DEF Opened, E
  <2>5. E[b] \in Nat /\ E[top] \in Nat
    <3> QED BY <1>1, <2>3
  <2>6. p.open < r.end
    BY <1>0, <2>4, <2>5 DEF Greatest
  <2>7. \A c \in top + 1 .. n : E[c - 1] >= r.end
    <3> SUFFICES ASSUME NEW c \in top + 1 .. n PROVE E[c - 1] >= r.end
      OBVIOUS
    <3>1. c - 1 \in 0 .. n /\ top <= c - 1 /\ top # n
      BY <1>0, <2>3
    <3>2. E[top] <= E[c - 1]
      BY <2>3, <3>1, EndsGrow DEF E
    <3>3. E[c - 1] \in Nat
        <4> QED BY <1>1, <3>1
    <3> QED BY <1>0, <2>4, <2>5, <3>1, <3>2, <3>3, SMTT(30)
  <2>8. W = Append(p.windows, Window(p.open, r.end))
    BY <1>10, <1>12
  <2>9. /\ W \in Seq(Win) /\ Tiles(W, r) /\ Spans(object, W, k)
        /\ W # <<>> /\ EndOf(W, r.start) = r.end
    <3>1. CanClose(object, r, k, p.windows, b, top, p.open, r.end)
      BY <1>0, <1>8, <2>3, <2>4, <2>6, <2>7 DEF CanClose, E
    <3> QED BY <2>3, <2>8, <3>1, AddWindow DEF Closed
  <2> QED BY <1>9, <2>9
<1> QED BY <1>11, <1>12
-----------------------------------------------------------------------------
(* parse_range_header and range_from_offset.                               *)

Outcomes == {"range", "invalid", "unsatisfiable"}

\* Requested, of any object and request.
RequestedOf(r, size) ==
    CASE r.form = "header" ->
           {i \in 0 .. size - 1 : i >= r.first /\ (r.last # Absent => i <= r.last)}
      [] r.form = "suffix" -> {i \in 0 .. size - 1 : size - i <= r.last}
      [] r.form = "offset" ->
           {i \in 0 .. size - 1 : i >= r.first /\ (r.last # Absent => i < r.first + r.last)}

ParsesTo(p, size, named) ==
    /\ p \in [outcome : Outcomes, start : Nat, end : Nat]
    /\ p.outcome = "range" => p.start < p.end /\ p.end <= size /\ p.start .. p.end - 1 = named
    /\ p.outcome # "range" => named = {}

LEMMA ServedParses ==
    ASSUME NEW size \in Nat, NEW start \in Nat, NEW end \in Nat, start < end, end <= size,
           NEW named \in SUBSET (0 .. size - 1),
           \A i \in 0 .. size - 1 : i \in named <=> start <= i /\ i < end
    PROVE  ParsesTo(Served(start, end), size, named)
<1>1. start .. end - 1 = named
  <2>1. ASSUME NEW i \in start .. end - 1 PROVE i \in named
    BY <2>1
  <2>2. ASSUME NEW i \in named PROVE i \in start .. end - 1
    BY <2>2
  <2> QED BY <2>1, <2>2
<1>2. /\ Served(start, end).outcome = "range" /\ Served(start, end).start = start
      /\ Served(start, end).end = end
      /\ Served(start, end) \in [outcome : Outcomes, start : Nat, end : Nat]
  BY DEF Served, Outcomes
<1> QED BY <1>1, <1>2 DEF ParsesTo

LEMMA RefusedParses ==
    ASSUME NEW size, NEW named, named = {}
    PROVE  ParsesTo(Invalid, size, named) /\ ParsesTo(Unsatisfiable, size, named)
<1>1. Invalid.outcome = "invalid" /\ Unsatisfiable.outcome = "unsatisfiable"
  BY DEF Invalid, Unsatisfiable
<1>2. {Invalid, Unsatisfiable} \subseteq [outcome : Outcomes, start : Nat, end : Nat]
  BY DEF Invalid, Unsatisfiable, Outcomes
<1> QED BY <1>1, <1>2 DEF ParsesTo

LEMMA HeaderParses ==
    ASSUME NEW first \in U64, NEW last \in U64 \cup {Absent}, NEW size \in U64
    PROVE  ParsesTo(ParseHeader(first, last, size), size,
                    {i \in 0 .. size - 1 : i >= first /\ (last # Absent => i <= last)})
<1> DEFINE named == {i \in 0 .. size - 1 : i >= first /\ (last # Absent => i <= last)}
<1>0. MaxU64 \in Nat /\ first \in Nat /\ size \in Nat /\ first <= MaxU64 /\ size <= MaxU64
  BY ConstantsAssumption DEF U64
<1>1. last = Absent \/ (last \in Nat /\ last # Absent /\ last <= MaxU64)
  BY <1>0 DEF U64, Absent
<1>2. CASE last # Absent /\ last < first
  <2>1. named = {}
    BY <1>0, <1>1, <1>2
  <2> QED BY <1>2, <2>1, RefusedParses DEF ParseHeader
<1>3. CASE ~(last # Absent /\ last < first) /\ first >= size
  <2>1. named = {}
    BY <1>0, <1>3
  <2> QED BY <1>3, <2>1, RefusedParses DEF ParseHeader
<1>4. CASE ~(last # Absent /\ last < first) /\ ~(first >= size)
  <2>1. PICK end : end = IF last = Absent THEN size ELSE Least(SaturatingAdd(last, 1), size)
    OBVIOUS
  <2>2. end \in Nat /\ first < end /\ end <= size
        /\ \A i \in 0 .. size - 1 : i < end <=> (last # Absent => i <= last)
    <3>1. CASE last = Absent
      BY <1>0, <1>4, <2>1, <3>1
    <3>2. CASE last # Absent
      <4>1. last \in Nat /\ first <= last
        BY <1>0, <1>1, <1>4, <3>2
      <4>2. CASE last + 1 <= MaxU64
        BY <1>0, <1>4, <2>1, <3>2, <4>1, <4>2 DEF Least, SaturatingAdd
      <4>3. CASE ~(last + 1 <= MaxU64)
        BY <1>0, <1>1, <1>4, <2>1, <3>2, <4>1, <4>3 DEF Least, SaturatingAdd
      <4> QED BY <4>2, <4>3
    <3> QED BY <3>1, <3>2
  <2>3. \A i \in 0 .. size - 1 : i \in named <=> first <= i /\ i < end
    BY <1>0, <2>2
  <2>4. named \in SUBSET (0 .. size - 1)
    OBVIOUS
  <2>5. ParseHeader(first, last, size) = Served(first, end)
    BY <1>4, <2>1 DEF ParseHeader
  <2> HIDE DEF named
  <2>6. ParsesTo(Served(first, end), size, named)
    BY <1>0, <2>2, <2>3, <2>4, ServedParses
  <2> QED BY <2>5, <2>6 DEF named
<1> QED BY <1>2, <1>3, <1>4

LEMMA SuffixParses ==
    ASSUME NEW n \in U64, NEW size \in U64
    PROVE  ParsesTo(ParseSuffix(n, size), size, {i \in 0 .. size - 1 : size - i <= n})
<1> DEFINE named == {i \in 0 .. size - 1 : size - i <= n}
<1>0. n \in Nat /\ size \in Nat
  BY DEF U64
<1>1. CASE n = 0 \/ size = 0
  <2>1. named = {}
    BY <1>0, <1>1
  <2> QED BY <1>1, <2>1, RefusedParses DEF ParseSuffix
<1>2. CASE ~(n = 0 \/ size = 0)
  <2>1. PICK start : start = SaturatingSub(size, n)
    OBVIOUS
  <2>2. start \in Nat /\ start < size /\ \A i \in 0 .. size - 1 : start <= i <=> size - i <= n
    BY <1>0, <1>2, <2>1 DEF SaturatingSub, Greatest
  <2>3. \A i \in 0 .. size - 1 : i \in named <=> start <= i /\ i < size
    BY <1>0, <2>2
  <2>4. named \in SUBSET (0 .. size - 1)
    OBVIOUS
  <2>5. ParseSuffix(n, size) = Served(start, size)
    BY <1>2, <2>1 DEF ParseSuffix
  <2> HIDE DEF named
  <2>6. ParsesTo(Served(start, size), size, named)
    BY <1>0, <2>2, <2>3, <2>4, ServedParses
  <2> QED BY <2>5, <2>6 DEF named
<1> QED BY <1>1, <1>2

LEMMA OffsetParses ==
    ASSUME NEW offset \in U64, NEW length \in U64 \cup {Absent}, NEW size \in U64
    PROVE  ParsesTo(RangeFromOffset(offset, length, size), size,
                    {i \in 0 .. size - 1 : i >= offset /\ (length # Absent => i < offset + length)})
<1> DEFINE named == {i \in 0 .. size - 1 : i >= offset /\ (length # Absent => i < offset + length)}
<1>0. MaxU64 \in Nat /\ offset \in Nat /\ size \in Nat /\ offset <= MaxU64 /\ size <= MaxU64
  BY ConstantsAssumption DEF U64
<1>1. length = Absent \/ (length \in Nat /\ length # Absent /\ length <= MaxU64)
  BY <1>0 DEF U64, Absent
<1>2. CASE length = 0
  <2>1. named = {}
    BY <1>0, <1>2 DEF Absent
  <2> QED BY <1>2, <2>1, RefusedParses DEF RangeFromOffset
<1>3. CASE length # 0 /\ offset >= size
  <2>1. named = {}
    BY <1>0, <1>3
  <2> QED BY <1>3, <2>1, RefusedParses DEF RangeFromOffset
<1>4. CASE length # 0 /\ ~(offset >= size)
  <2>1. PICK end : end = IF length = Absent THEN size
                         ELSE Least(SaturatingAdd(offset, length), size)
    OBVIOUS
  <2>2. end \in Nat /\ offset < end /\ end <= size
        /\ \A i \in 0 .. size - 1 : i < end <=> (length # Absent => i < offset + length)
    <3>1. CASE length = Absent
      BY <1>0, <1>4, <2>1, <3>1
    <3>2. CASE length # Absent
      <4>1. length \in Nat
        BY <1>1, <3>2
      <4>2. CASE offset + length <= MaxU64
        BY <1>0, <1>4, <2>1, <3>2, <4>1, <4>2 DEF Least, SaturatingAdd
      <4>3. CASE ~(offset + length <= MaxU64)
        BY <1>0, <1>1, <1>4, <2>1, <3>2, <4>1, <4>3 DEF Least, SaturatingAdd
      <4> QED BY <4>2, <4>3
    <3> QED BY <3>1, <3>2
  <2>3. \A i \in 0 .. size - 1 : i \in named <=> offset <= i /\ i < end
    BY <1>0, <2>2
  <2>4. named \in SUBSET (0 .. size - 1)
    OBVIOUS
  <2>5. RangeFromOffset(offset, length, size) = Served(offset, end)
    BY <1>4, <2>1 DEF RangeFromOffset
  <2> HIDE DEF named
  <2>6. ParsesTo(Served(offset, end), size, named)
    BY <1>0, <2>2, <2>3, <2>4, ServedParses
  <2> QED BY <2>5, <2>6 DEF named
<1> QED BY <1>2, <1>3, <1>4

\* Whatever is asked for, of an object of any size that a u64 holds.
LEMMA ParseIsExact ==
    ASSUME NEW r \in Requests, NEW size \in U64
    PROVE  ParsesTo(Parse(r, size), size, RequestedOf(r, size))
<1>1. CASE r.form = "header"
  <2>1. r.first \in U64 /\ r.last \in U64 \cup {Absent}
    BY <1>1 DEF Requests
  <2> QED BY <1>1, <2>1, HeaderParses DEF Parse, RequestedOf
<1>2. CASE r.form = "suffix"
  <2>1. r.last \in U64
    BY <1>2 DEF Requests
  <2> QED BY <1>2, <2>1, SuffixParses DEF Parse, RequestedOf
<1>3. CASE r.form = "offset"
  <2>1. r.first \in U64 /\ r.last \in U64 \cup {Absent}
    BY <1>3 DEF Requests
  <2> QED BY <1>3, <2>1, OffsetParses DEF Parse, RequestedOf
<1> QED BY <1>1, <1>2, <1>3 DEF Requests
-----------------------------------------------------------------------------
(* Stretches that follow one another, with an error at most at the end.    *)

\* A stretch of the range.
Within(w, r) == r.start <= w.start /\ w.start < w.end /\ w.end <= r.end

Joined(s, from, r) ==
    \A j \in 1 .. Len(s) :
        /\ s[j] = Failed => j = Len(s)
        /\ s[j] # Failed => s[j].start = (IF j = 1 THEN from ELSE s[j - 1].end) /\ Within(s[j], r)

Unbroken(s) == \A j \in 1 .. Len(s) : s[j] # Failed

LEMMA FailedFacts ==
    /\ Failed \in Win /\ Failed.start = 0 /\ Failed.end = 0
    /\ \A a, b \in Nat : Window(a, b) \in Win /\ Window(a, b).start = a /\ Window(a, b).end = b
    /\ \A w \in Win : \A r : Within(w, r) => w # Failed
  BY DEF Failed, Win, Window, Within

LEMMA EndOfType ==
    ASSUME NEW s \in Seq(Win), NEW from \in Nat
    PROVE  EndOf(s, from) \in Nat
<1>1. CASE s = <<>>
  BY <1>1 DEF EndOf
<1>2. CASE s # <<>>
  <2>1. s[Len(s)] \in Win
    BY <1>2
  <2> QED BY <1>2, <2>1 DEF EndOf, Win
<1> QED BY <1>1, <1>2

LEMMA JoinEmpty ==
    ASSUME NEW from, NEW r
    PROVE  Joined(<<>>, from, r) /\ Unbroken(<<>>) /\ EndOf(<<>>, from) = from
  BY DEF Joined, Unbroken, EndOf

LEMMA JoinAppend ==
    ASSUME NEW s \in Seq(Win), NEW from \in Nat, NEW r, Joined(s, from, r), Unbroken(s),
           NEW w \in Win, w = Failed \/ (w.start = EndOf(s, from) /\ Within(w, r))
    PROVE  /\ Append(s, w) \in Seq(Win) /\ Append(s, w) # <<>>
           /\ Joined(Append(s, w), from, r) /\ EndOf(Append(s, w), from) = w.end
           /\ Unbroken(Append(s, w)) <=> w # Failed
<1>1. PICK v : v = Append(s, w)
  OBVIOUS
<1>2. /\ v \in Seq(Win) /\ Len(v) = Len(s) + 1 /\ Len(s) \in Nat /\ v[Len(s) + 1] = w
      /\ \A j \in 1 .. Len(s) : v[j] = s[j]
  BY <1>1
<1>3. v # <<>> /\ EndOf(v, from) = w.end
  BY <1>2 DEF EndOf
<1>4. Unbroken(v) <=> w # Failed
  <2>1. ASSUME w # Failed, NEW j \in 1 .. Len(v) PROVE v[j] # Failed
    <3>1. j \in 1 .. Len(s) \/ j = Len(s) + 1
      BY <1>2
    <3> QED BY <1>2, <2>1, <3>1 DEF Unbroken
  <2>2. Len(s) + 1 \in 1 .. Len(v)
    BY <1>2
  <2> QED BY <1>2, <2>1, <2>2 DEF Unbroken
<1>5. Joined(v, from, r)
  <2> SUFFICES ASSUME NEW j \in 1 .. Len(v)
               PROVE  /\ v[j] = Failed => j = Len(v)
                      /\ v[j] # Failed => v[j].start = (IF j = 1 THEN from ELSE v[j - 1].end)
                                          /\ Within(v[j], r)
    BY DEF Joined
  <2>1. CASE j <= Len(s)
    <3>1. j \in 1 .. Len(s) /\ v[j] = s[j] /\ s[j] # Failed
      BY <1>2, <2>1 DEF Unbroken
    <3>2. j # 1 => j - 1 \in 1 .. Len(s)
      BY <1>2, <3>1
    <3> QED BY <1>2, <3>1, <3>2 DEF Joined
  <2>2. CASE j = Len(s) + 1
    <3>1. v[j] = w /\ j = Len(v)
      BY <1>2, <2>2
    <3>2. CASE w # Failed /\ s = <<>>
      <4>1. j = 1 /\ w.start = from /\ Within(w, r)
        BY <1>2, <2>2, <3>2 DEF EndOf
      <4> QED BY <3>1, <3>2, <4>1
    <3>3. CASE w # Failed /\ s # <<>>
      <4>1. j # 1 /\ j - 1 = Len(s) /\ Len(s) \in 1 .. Len(s) /\ v[j - 1] = s[Len(s)]
        BY <1>2, <2>2, <3>3
      <4>2. w.start = s[Len(s)].end /\ Within(w, r)
        BY <3>3 DEF EndOf
      <4> QED BY <3>1, <3>3, <4>1, <4>2
    <3> QED BY <3>1, <3>2, <3>3
  <2> QED BY <1>2, <2>1, <2>2
<1> QED BY <1>1, <1>2, <1>3, <1>4, <1>5

LEMMA JoinTail ==
    ASSUME NEW s \in Seq(Win), NEW from \in Nat, NEW r, Joined(s, from, r), s # <<>>
    PROVE  /\ Head(s) \in Win /\ Tail(s) \in Seq(Win)
           /\ Head(s) = Failed => Tail(s) = <<>> /\ ~Unbroken(s)
           /\ Head(s) # Failed =>
                 /\ Head(s).start = from /\ Within(Head(s), r)
                 /\ Joined(Tail(s), Head(s).end, r)
                 /\ EndOf(Tail(s), Head(s).end) = EndOf(s, from)
                 /\ Unbroken(Tail(s)) <=> Unbroken(s)
<1>1. PICK t : t = Tail(s)
  OBVIOUS
<1>2. /\ t \in Seq(Win) /\ Len(t) = Len(s) - 1 /\ Len(s) \in Nat /\ Len(s) >= 1 /\ Head(s) = s[1]
      /\ s[1] \in Win /\ \A j \in 1 .. Len(t) : t[j] = s[j + 1]
  BY <1>1
<1>3. Head(s) = Failed => t = <<>> /\ ~Unbroken(s)
  BY <1>2 DEF Joined, Unbroken
<1>4. ASSUME Head(s) # Failed
      PROVE  /\ Head(s).start = from /\ Within(Head(s), r)
             /\ Joined(t, Head(s).end, r)
             /\ EndOf(t, Head(s).end) = EndOf(s, from)
             /\ Unbroken(t) <=> Unbroken(s)
  <2>1. Head(s).start = from /\ Within(Head(s), r)
    BY <1>2, <1>4 DEF Joined
  <2>2. Joined(t, Head(s).end, r)
    <3> SUFFICES ASSUME NEW j \in 1 .. Len(t)
                 PROVE  /\ t[j] = Failed => j = Len(t)
                        /\ t[j] # Failed =>
                              /\ t[j].start = (IF j = 1 THEN Head(s).end ELSE t[j - 1].end)
                              /\ Within(t[j], r)
      BY DEF Joined
    <3>1. j + 1 \in 1 .. Len(s) /\ t[j] = s[j + 1] /\ j + 1 # 1 /\ (j + 1) - 1 = j
      BY <1>2
    <3>2. j # 1 => t[j - 1] = s[j]
      BY <1>2
    <3>3. t[j] = Failed => j + 1 = Len(s)
      BY <3>1 DEF Joined
    <3>4. t[j] # Failed => t[j].start = s[j].end /\ Within(t[j], r)
      BY <3>1 DEF Joined
    <3> QED BY <1>2, <3>2, <3>3, <3>4
  <2>3. EndOf(t, Head(s).end) = EndOf(s, from)
    <3>1. CASE t = <<>>
      <4>0. Len(t) = 0
        BY <3>1
      <4>1. Len(s) = 1
        BY <1>2, <4>0
      <4>2. s[Len(s)] = Head(s)
        BY <1>2, <4>1
      <4> QED BY <3>1, <4>2 DEF EndOf
    <3>2. CASE t # <<>>
      <4>1. Len(t) \in 1 .. Len(t) /\ t[Len(t)] = s[Len(s)]
        BY <1>2, <3>2
      <4> QED BY <3>2, <4>1 DEF EndOf
    <3> QED BY <3>1, <3>2
  <2>4. Unbroken(t) <=> Unbroken(s)
    <3>1. ASSUME Unbroken(t), NEW j \in 1 .. Len(s) PROVE s[j] # Failed
      <4>1. CASE j = 1
        BY <1>2, <1>4, <4>1
      <4>2. CASE j # 1
        <5>1. j - 1 \in 1 .. Len(t) /\ t[j - 1] = s[j]
          BY <1>2, <4>2
        <5> QED BY <3>1, <5>1 DEF Unbroken
      <4> QED BY <4>1, <4>2
    <3>2. ASSUME Unbroken(s), NEW j \in 1 .. Len(t) PROVE t[j] # Failed
      <4>1. j + 1 \in 1 .. Len(s) /\ t[j] = s[j + 1]
        BY <1>2
      <4> QED BY <3>2, <4>1 DEF Unbroken
    <3> QED BY <3>1, <3>2 DEF Unbroken
  <2> QED BY <2>1, <2>2, <2>3, <2>4
<1> QED BY <1>1, <1>2, <1>3, <1>4

LEMMA JoinConcat ==
    ASSUME NEW s \in Seq(Win), NEW t \in Seq(Win), NEW from \in Nat, NEW r,
           Joined(s, from, r), Unbroken(s), Joined(t, EndOf(s, from), r)
    PROVE  s \o t \in Seq(Win) /\ Joined(s \o t, from, r)
<1>1. PICK v : v = s \o t
  OBVIOUS
<1>2. /\ v \in Seq(Win) /\ Len(v) = Len(s) + Len(t) /\ Len(s) \in Nat /\ Len(t) \in Nat
      /\ \A j \in 1 .. Len(s) + Len(t) : v[j] = IF j <= Len(s) THEN s[j] ELSE t[j - Len(s)]
  BY <1>1, ConcatProperties
<1>3. Joined(v, from, r)
  <2> SUFFICES ASSUME NEW j \in 1 .. Len(v)
               PROVE  /\ v[j] = Failed => j = Len(v)
                      /\ v[j] # Failed => v[j].start = (IF j = 1 THEN from ELSE v[j - 1].end)
                                          /\ Within(v[j], r)
    BY DEF Joined
  <2>1. CASE j <= Len(s)
    <3>1. j \in 1 .. Len(s) /\ v[j] = s[j] /\ s[j] # Failed
      BY <1>2, <2>1 DEF Unbroken
    <3>2. j # 1 => v[j - 1] = s[j - 1]
      BY <1>2, <3>1
    <3> QED BY <3>1, <3>2 DEF Joined
  <2>2. CASE j > Len(s)
    <3>1. PICK i : i = j - Len(s)
      OBVIOUS
    <3>2. i \in 1 .. Len(t) /\ v[j] = t[i] /\ (i = Len(t) <=> j = Len(v))
      BY <1>2, <2>2, <3>1
    <3>3. /\ t[i] = Failed => i = Len(t)
          /\ t[i] # Failed => t[i].start = (IF i = 1 THEN EndOf(s, from) ELSE t[i - 1].end)
                              /\ Within(t[i], r)
      BY <3>2 DEF Joined
    <3>4. ASSUME t[i] # Failed PROVE t[i].start = IF j = 1 THEN from ELSE v[j - 1].end
      <4>1. CASE i = 1 /\ s = <<>>
        <5>1. j = 1
          BY <1>2, <3>1, <3>2, <4>1
        <5> QED BY <3>3, <3>4, <4>1, <5>1 DEF EndOf
      <4>2. CASE i = 1 /\ s # <<>>
        <5>1. j # 1 /\ j - 1 = Len(s) /\ v[j - 1] = s[Len(s)]
          BY <1>2, <3>1, <3>2, <4>2
        <5> QED BY <3>3, <3>4, <4>2, <5>1 DEF EndOf
      <4>3. CASE i # 1
        <5>1. j # 1 /\ v[j - 1] = t[i - 1]
          <6>1. /\ j - 1 \in 1 .. Len(s) + Len(t) /\ ~(j - 1 <= Len(s))
                /\ (j - 1) - Len(s) = i - 1 /\ j # 1
            BY <1>2, <3>1, <3>2, <4>3
          <6> QED BY <1>2, <6>1
        <5> QED BY <3>3, <3>4, <4>3, <5>1
      <4> QED BY <4>1, <4>2, <4>3
    <3> QED BY <3>2, <3>3, <3>4
  <2> QED BY <1>2, <2>1, <2>2
<1> QED BY <1>1, <1>2, <1>3
-----------------------------------------------------------------------------
(* The inductive invariant.                                                *)

TypeOK ==
    /\ sizes \in Objects /\ request \in Requests /\ range = Parse(request, Size(sizes))
    /\ windows \in Seq(Win) /\ chan \in Seq(Win) /\ out \in Seq(Win) /\ got \in Seq(Win)
    /\ hand \in Win /\ Len(chan) <= 1
    /\ producing \in BOOLEAN /\ forwarding \in BOOLEAN
    /\ client \in {"reading", "gone", "ended"} /\ link \in {"up", "lost"}
    /\ app \in {"polling", "ended", "failed", "left"}
    /\ taken \in 0 .. Len(got) /\ received \in Int
    /\ ~Grpc => out = <<>> /\ hand = Failed /\ ~forwarding
    /\ range.outcome # "range" => ~producing /\ ~forwarding /\ client = "ended" /\ app = "failed"

\* The SDK's call, if it is one, is what the request was made from.
AskedOK ==
    asked # Foreign =>
        \E offset \in U64, length \in (U64 \ {0}) \cup {Absent}, grpc \in BOOLEAN :
            /\ asked = [offset |-> offset, length |-> length]
            /\ request = RequestOf(asked, grpc)

\* Where what has left the producer's channel ends.
Front == IF hand # Failed THEN hand.end ELSE EndOf(out, EndOf(got, range.start))

\* From the client back to the producer, stretch follows stretch; what an error
\* overtakes is gone.
PipeOK ==
    /\ Joined(got, range.start, range)
    /\ Joined(out, EndOf(got, range.start), range)
    /\ hand # Failed => hand.start = EndOf(out, EndOf(got, range.start)) /\ Within(hand, range)
    /\ Joined(chan, Front, range)
    /\ ~Unbroken(out) => chan = <<>> /\ hand = Failed /\ ~forwarding
    /\ ~Unbroken(chan) => ~producing
    /\ client = "reading" => Unbroken(got)

\* The windows left, up to the end of the range.
LeftOK ==
    /\ producing <=> windows # <<>>
    /\ windows # <<>> => EndOf(windows, 0) = range.end /\ Joined(windows, windows[1].start, range)
    /\ Unbroken(windows) /\ Spans(sizes, windows, WindowChunks)
    /\ producing /\ Heard => windows[1].start = EndOf(chan, Front)

\* What stopped did so after an error or the end of the range.
StopOK ==
    /\ Heard /\ ~producing => ~Unbroken(chan) \/ EndOf(chan, Front) = range.end
    /\ Grpc /\ client = "reading" /\ ~forwarding =>
          chan = <<>> /\ hand = Failed /\ (~Unbroken(out) \/ Front = range.end)
    /\ client = "ended" /\ range.outcome = "range" =>
          ~Unbroken(got) \/ EndOf(got, range.start) = range.end

\* The first byte that the app has not been handed.
Upto == IF taken = 0 THEN range.start ELSE got[taken].end

\* What the app has been handed is counted, and is all there was.
AppOK ==
    app \in {"polling", "ended"} =>
        /\ \A i \in 1 .. taken : got[i] # Failed
        /\ received = Upto - range.start /\ range.start .. Upto - 1 \subseteq Read
        /\ app = "ended" => Upto = range.end

RangeInv == TypeOK /\ AskedOK /\ PipeOK /\ LeftOK /\ StopOK /\ AppOK

\* What the range is, in every state.
LEMMA RangeFacts ==
    ASSUME TypeOK
    PROVE  /\ sizes \in Seq(Nat \ {0}) /\ Size(sizes) \in U64 /\ Size(sizes) <= MaxU64
           /\ Bounds(range) /\ range.start \in Nat /\ range.end \in Nat
           /\ range.outcome = "range" =>
                 /\ range.start < range.end /\ range.end <= Size(sizes)
                 /\ range.start .. range.end - 1 = Requested
           /\ range.outcome # "range" => Requested = {}
<1>1. sizes \in Seq(Nat \ {0}) /\ Size(sizes) <= MaxU64 /\ MaxU64 \in Nat
  BY ConstantsAssumption DEF TypeOK
<1>2. Size(sizes) \in Nat
  BY <1>1, EndsGrow
<1>3. Size(sizes) \in U64
  BY <1>1, <1>2 DEF U64
<1>4. ParsesTo(range, Size(sizes), RequestedOf(request, Size(sizes)))
  BY <1>3, ParseIsExact DEF TypeOK
<1>5. Requested = RequestedOf(request, Size(sizes))
  BY DEF Requested, RequestedOf
<1> QED BY <1>1, <1>3, <1>4, <1>5 DEF ParsesTo, Bounds

LEMMA EmptySpans ==
    ASSUME NEW object, NEW k PROVE Spans(object, <<>>, k)
  BY DEF Spans

\* A range that is served starts with all its windows to be fetched.
LEMMA InitInv == SdkInit => RangeInv
<1> SUFFICES ASSUME SdkInit PROVE RangeInv
  OBVIOUS
<1>0. /\ sizes \in Objects /\ request \in Requests /\ range = Parse(request, Size(sizes))
      /\ chan = <<>> /\ out = <<>> /\ got = <<>> /\ hand = Failed /\ taken = 0 /\ received = 0
      /\ producing = (range.outcome = "range") /\ forwarding = (range.outcome = "range" /\ Grpc)
      /\ client = (IF range.outcome = "range" THEN "reading" ELSE "ended")
      /\ app = (IF range.outcome = "range" THEN "polling" ELSE "failed") /\ link = "up"
      /\ windows = (IF range.outcome = "range"
                    THEN PlanWindows(sizes, range, WindowChunks) ELSE <<>>)
  BY DEF SdkInit, Init
<1>1. /\ sizes \in Seq(Nat \ {0}) /\ Size(sizes) <= MaxU64
      /\ WindowChunks \in Nat \ {0} /\ MaxU64 \in Nat
  BY <1>0, ConstantsAssumption
<1>2. /\ Bounds(range)
      /\ range.outcome = "range" => range.start < range.end /\ range.end <= Size(sizes)
  <2>1. Size(sizes) \in U64
    BY <1>1, EndsGrow DEF U64
  <2>2. ParsesTo(range, Size(sizes), RequestedOf(request, Size(sizes)))
    BY <1>0, <2>1, ParseIsExact
  <2> QED BY <2>2 DEF ParsesTo, Bounds
<1>3. range.start \in Nat /\ range.end \in Nat
  BY <1>2 DEF Bounds
<1>4. /\ windows \in Seq(Win) /\ (producing <=> windows # <<>>)
      /\ Spans(sizes, windows, WindowChunks)
      /\ Tiles(windows, range) /\ (windows # <<>> => EndOf(windows, range.start) = range.end)
  <2>1. CASE range.outcome = "range"
    BY <1>0, <1>1, <1>2, <2>1, PlanIsGood
  <2>2. CASE range.outcome # "range"
    <3>1. windows = <<>> /\ ~producing
      BY <1>0, <2>2
    <3> QED BY <3>1, EmptySpans DEF Tiles
  <2> QED BY <2>1, <2>2
<1>5. TypeOK
  <2>1. <<>> \in Seq(Win) /\ Len(<<>>) = 0
    OBVIOUS
  <2>2. producing \in BOOLEAN /\ forwarding \in BOOLEAN /\ (~Grpc => ~forwarding)
        /\ (range.outcome # "range" => ~producing /\ ~forwarding)
    BY <1>0
  <2> QED BY <1>0, <1>4, <2>1, <2>2, FailedFacts DEF TypeOK
<1>6. AskedOK
  BY DEF SdkInit, AskedOK
<1>7. Front = range.start /\ EndOf(chan, Front) = range.start
  BY <1>0 DEF Front, EndOf
<1>8. PipeOK
  BY <1>0, JoinEmpty DEF PipeOK
<1>9. LeftOK
  <2>1. ASSUME windows # <<>>
        PROVE  /\ EndOf(windows, 0) = range.end /\ Joined(windows, windows[1].start, range)
               /\ windows[1].start = range.start
    <3>1. EndOf(windows, 0) = range.end
      BY <1>4, <2>1 DEF EndOf
    <3>2. 1 \in 1 .. Len(windows)
      BY <1>4, <2>1
    <3> QED BY <1>4, <3>1, <3>2 DEF Joined, Tiles, Within, Failed
  <2>2. Unbroken(windows)
    <3> SUFFICES ASSUME NEW j \in 1 .. Len(windows), windows[j] = Failed PROVE FALSE
      BY DEF Unbroken
    <3>1. windows[j].start < windows[j].end
      BY <1>4 DEF Tiles
    <3> QED BY <3>1, FailedFacts
  <2> QED BY <1>4, <1>7, <2>1, <2>2 DEF LeftOK
<1>10. StopOK
  BY <1>0 DEF StopOK, Heard
<1>11. AppOK
  <2>1. Upto = range.start /\ received = Upto - range.start /\ range.start .. Upto - 1 = {}
    BY <1>0, <1>3 DEF Upto
  <2> QED BY <1>0, <2>1 DEF AppOK
<1> QED BY <1>5, <1>6, <1>8, <1>9, <1>10, <1>11 DEF RangeInv
-----------------------------------------------------------------------------
(* The producer, the forwarder and the client.                             *)

FlowOK == PipeOK /\ LeftOK /\ StopOK

LEMMA SpansTail ==
    ASSUME NEW object, NEW k, NEW W \in Seq(Win), W # <<>>, Spans(object, W, k)
    PROVE  Spans(object, Tail(W), k)
<1>1. PICK t : t = Tail(W)
  OBVIOUS
<1>2. Len(t) = Len(W) - 1 /\ Len(W) \in Nat /\ \A j \in 1 .. Len(t) : t[j] = W[j + 1]
  BY <1>1
<1> SUFFICES ASSUME NEW j \in 1 .. Len(t)
             PROVE  /\ NeedsIn(object, t[j]) # {}
                    /\ \A a, b \in NeedsIn(object, t[j]) : a - b < k
                    /\ \A i \in 1 .. j - 1 : NeedsIn(object, t[j]) \cap NeedsIn(object, t[i]) = {}
  BY <1>1 DEF Spans
<1>3. j + 1 \in 1 .. Len(W) /\ t[j] = W[j + 1]
  BY <1>2
<1>4. ASSUME NEW i \in 1 .. j - 1 PROVE i + 1 \in 1 .. (j + 1) - 1 /\ t[i] = W[i + 1]
  BY <1>2
<1> QED BY <1>3, <1>4 DEF Spans

LEMMA UnbrokenTail ==
    ASSUME NEW s \in Seq(Win), s # <<>>, Unbroken(s)
    PROVE  Unbroken(Tail(s)) /\ Head(s) # Failed /\ Head(s) \in Win /\ Head(s) = s[1]
<1>1. /\ Len(Tail(s)) = Len(s) - 1 /\ Len(s) \in Nat /\ 1 \in 1 .. Len(s)
      /\ \A j \in 1 .. Len(Tail(s)) : j + 1 \in 1 .. Len(s) /\ Tail(s)[j] = s[j + 1]
  OBVIOUS
<1> QED BY <1>1 DEF Unbroken

LEMMA JoinOne ==
    ASSUME NEW from \in Nat, NEW r, NEW w \in Win, w = Failed \/ (w.start = from /\ Within(w, r))
    PROVE  /\ <<w>> \in Seq(Win) /\ Len(<<w>>) = 1 /\ Joined(<<w>>, from, r)
           /\ EndOf(<<w>>, from) = w.end /\ (Unbroken(<<w>>) <=> w # Failed) /\ <<w>> # <<>>
  BY DEF Joined, EndOf, Unbroken

\* What a channel that holds one item has.
LEMMA OneItem ==
    ASSUME NEW s \in Seq(Win), Len(s) <= 1, s # <<>>, NEW from, NEW r, Joined(s, from, r)
    PROVE  /\ Head(s) \in Win /\ EndOf(s, from) = Head(s).end /\ (Unbroken(s) <=> Head(s) # Failed)
           /\ Head(s) # Failed => Head(s).start = from /\ Within(Head(s), r)
<1>0. PICK n \in Nat : n = Len(s) /\ n # 0
  OBVIOUS
<1>1. Len(s) = 1 /\ s[1] \in Win /\ Head(s) = s[1]
  <2>1. n <= 1
    BY <1>0
  <2>2. n = 1
    BY <1>0, <2>1
  <2> QED BY <1>0, <2>2
<1> QED BY <1>1 DEF Joined, EndOf, Unbroken

\* Ends are numbers everywhere.
LEMMA FrontType ==
    ASSUME TypeOK
    PROVE  EndOf(got, range.start) \in Nat /\ EndOf(out, EndOf(got, range.start)) \in Nat
           /\ Front \in Nat /\ EndOf(chan, Front) \in Nat
<1>1. EndOf(got, range.start) \in Nat
  BY RangeFacts, EndOfType DEF TypeOK
<1>2. EndOf(out, EndOf(got, range.start)) \in Nat
  BY <1>1, EndOfType DEF TypeOK
<1>3. Front \in Nat
  BY <1>2 DEF Front, TypeOK, Win
<1> QED BY <1>1, <1>2, <1>3, EndOfType DEF TypeOK

LEMMA SendWindowFlow ==
    ASSUME TypeOK, FlowOK, SendWindow PROVE FlowOK'
<1>1. /\ producing /\ windows # <<>> /\ Heard /\ chan = <<>>
      /\ sizes' = sizes /\ request' = request /\ range' = range /\ out' = out /\ hand' = hand
      /\ forwarding' = forwarding /\ client' = client /\ got' = got
      /\ (producing' <=> windows' # <<>>)
  BY DEF SendWindow
<1>2. Front' = Front /\ Heard' = Heard /\ Grpc' = Grpc
  BY <1>1 DEF Front, Heard, Grpc
<1>8. Unbroken(out)
  BY <1>1, JoinEmpty DEF FlowOK, PipeOK, TypeOK, Heard
<1>3. /\ windows \in Seq(Win) /\ Front \in Nat /\ windows[1].start = Front
      /\ EndOf(windows, 0) = range.end /\ Joined(windows, windows[1].start, range)
      /\ Unbroken(windows) /\ Spans(sizes, windows, WindowChunks)
  BY <1>1, FrontType DEF TypeOK, FlowOK, LeftOK, EndOf
<1>4. PICK w : w = Head(windows)
  OBVIOUS
<1>5. w = windows[1] /\ w \in Win /\ w # Failed /\ w.start = Front /\ Within(w, range)
  <2>1. w = windows[1] /\ w \in Win /\ w # Failed
    BY <1>1, <1>3, <1>4, UnbrokenTail
  <2>2. 1 \in 1 .. Len(windows)
    BY <1>1, <1>3
  <2> QED BY <1>3, <2>1, <2>2 DEF Joined
<1>6. CASE chan' = <<w>> /\ windows' = Tail(windows)
  <2>1. /\ Joined(chan', Front, range) /\ EndOf(chan', Front) = w.end /\ Unbroken(chan')
    BY <1>3, <1>5, <1>6, JoinOne
  <2>2. /\ windows' \in Seq(Win) /\ Unbroken(windows') /\ Spans(sizes, windows', WindowChunks)
    BY <1>1, <1>3, <1>6, SpansTail, UnbrokenTail
  <2>3. /\ Joined(windows', w.end, range)
        /\ EndOf(windows', w.end) = EndOf(windows, Front)
    <3>1. Joined(windows, Front, range)
      BY <1>3
    <3> QED BY <1>1, <1>3, <1>4, <1>5, <1>6, <3>1, JoinTail
  <2>4. EndOf(windows', w.end) = range.end
    BY <1>1, <1>3, <2>3 DEF EndOf
  <2>5. windows' = <<>> => EndOf(chan', Front) = range.end
    BY <2>1, <2>4 DEF EndOf
  <2>6. ASSUME windows' # <<>>
        PROVE  /\ EndOf(windows', 0) = range.end /\ Joined(windows', windows'[1].start, range)
               /\ windows'[1].start = EndOf(chan', Front)
    <3>1. EndOf(windows', 0) = range.end
      BY <2>4, <2>6 DEF EndOf
    <3>2. 1 \in 1 .. Len(windows') /\ windows'[1] # Failed
      BY <2>2, <2>6 DEF Unbroken
    <3>3. windows'[1].start = w.end
      BY <2>3, <3>2 DEF Joined
    <3> QED BY <2>1, <2>3, <3>1, <3>3
  <2>7. PipeOK'
    BY <1>1, <1>2, <1>8, <2>1 DEF FlowOK, PipeOK
  <2>8. LeftOK'
    BY <1>1, <1>2, <2>2, <2>6 DEF LeftOK
  <2>9. StopOK'
    BY <1>1, <1>2, <2>5 DEF FlowOK, StopOK, Heard
  <2> QED BY <2>7, <2>8, <2>9 DEF FlowOK
<1>7. CASE chan' = <<Failed>> /\ windows' = <<>>
  <2>1. Joined(chan', Front, range) /\ ~Unbroken(chan')
    BY <1>3, <1>7, FailedFacts, JoinOne
  <2>2. PipeOK'
    BY <1>1, <1>2, <1>7, <1>8, <2>1 DEF FlowOK, PipeOK
  <2>3. LeftOK'
    BY <1>1, <1>7, JoinEmpty, EmptySpans DEF LeftOK
  <2>4. StopOK'
    BY <1>1, <1>2, <2>1 DEF FlowOK, StopOK, Heard
  <2> QED BY <2>2, <2>3, <2>4 DEF FlowOK
<1> QED BY <1>4, <1>6, <1>7 DEF SendWindow

LEMMA NobodyFlow ==
    ASSUME TypeOK, FlowOK, SendWindowToNobody PROVE FlowOK'
<1>1. /\ ~Heard /\ ~producing' /\ windows' = <<>>
      /\ sizes' = sizes /\ request' = request /\ range' = range /\ chan' = chan /\ out' = out
      /\ hand' = hand /\ forwarding' = forwarding /\ client' = client /\ got' = got
  BY DEF SendWindowToNobody
<1>2. Front' = Front /\ Heard' = Heard /\ Grpc' = Grpc
  BY <1>1 DEF Front, Heard, Grpc
<1>3. PipeOK'
  BY <1>1, <1>2 DEF FlowOK, PipeOK
<1>4. LeftOK'
  BY <1>1, JoinEmpty, EmptySpans DEF LeftOK
<1>5. StopOK'
  BY <1>1, <1>2 DEF FlowOK, StopOK
<1> QED BY <1>3, <1>4, <1>5 DEF FlowOK

LEMMA TakeWindowFlow ==
    ASSUME TypeOK, FlowOK, TakeWindow PROVE FlowOK'
<1>1. /\ forwarding /\ hand = Failed /\ sizes' = sizes /\ request' = request /\ range' = range
      /\ windows' = windows /\ producing' = producing /\ client' = client /\ got' = got
  BY DEF TakeWindow
<1>2. Grpc /\ Grpc' /\ (Heard <=> forwarding) /\ (Heard' <=> forwarding')
  BY <1>1 DEF TypeOK, Grpc, Heard
<1>3. /\ Front = EndOf(out, EndOf(got, range.start)) /\ Front \in Nat /\ Unbroken(out)
      /\ EndOf(got, range.start) \in Nat /\ out \in Seq(Win) /\ chan \in Seq(Win) /\ Len(chan) <= 1
      /\ Joined(chan, Front, range) /\ Joined(out, EndOf(got, range.start), range)
  BY <1>1, FrontType DEF Front, FlowOK, PipeOK, TypeOK
<1>4. CASE chan # <<>> /\ Head(chan) # Failed /\ hand' = Head(chan) /\ chan' = <<>>
           /\ UNCHANGED <<out, forwarding>>
  <2>1. /\ hand' # Failed /\ hand'.start = Front /\ Within(hand', range)
        /\ EndOf(chan, Front) = hand'.end /\ Unbroken(chan)
    BY <1>3, <1>4, OneItem
  <2>2. Front' = hand'.end /\ EndOf(chan', Front') = hand'.end
    BY <1>4, <2>1 DEF Front, EndOf
  <2>3. PipeOK'
    BY <1>1, <1>3, <1>4, <2>1, <2>2, JoinEmpty DEF FlowOK, PipeOK
  <2>4. LeftOK'
    BY <1>1, <1>2, <1>4, <2>1, <2>2 DEF FlowOK, LeftOK
  <2>5. StopOK'
    BY <1>1, <1>2, <1>4, <2>1, <2>2 DEF FlowOK, StopOK
  <2> QED BY <2>3, <2>4, <2>5 DEF FlowOK
<1>5. CASE /\ chan # <<>> /\ Head(chan) = Failed
           /\ out' = (IF client = "reading" THEN Append(out, Failed) ELSE out)
           /\ chan' = <<>> /\ ~forwarding' /\ hand' = hand
  <2>1. ~Unbroken(chan)
    BY <1>3, <1>5, OneItem
  <2>2. ~producing
    BY <2>1 DEF FlowOK, PipeOK
  <2>3. /\ Joined(out', EndOf(got, range.start), range)
        /\ client = "reading" => ~Unbroken(out')
    <3>1. CASE client = "reading"
      BY <1>3, <1>5, <3>1, FailedFacts, JoinAppend
    <3> QED BY <1>3, <1>5, <3>1
  <2>4. PipeOK'
    BY <1>1, <1>3, <1>5, <2>2, <2>3, JoinEmpty DEF FlowOK, PipeOK
  <2>5. LeftOK'
    BY <1>1, <1>2, <1>5, <2>2 DEF FlowOK, LeftOK
  <2>6. StopOK'
    BY <1>1, <1>2, <1>5, <2>3 DEF FlowOK, StopOK
  <2> QED BY <2>4, <2>5, <2>6 DEF FlowOK
<1>6. CASE chan = <<>> /\ ~producing /\ ~forwarding' /\ UNCHANGED <<chan, out, hand>>
  <2>1. Front' = Front /\ EndOf(chan, Front) = Front /\ Unbroken(chan)
    BY <1>1, <1>6, JoinEmpty DEF Front
  <2>2. Front = range.end
    BY <1>1, <1>2, <1>6, <2>1 DEF FlowOK, StopOK
  <2>3. PipeOK'
    BY <1>1, <1>6, <2>1 DEF FlowOK, PipeOK
  <2>4. LeftOK'
    BY <1>1, <1>2, <1>6 DEF FlowOK, LeftOK
  <2>5. StopOK'
    BY <1>1, <1>2, <1>6, <2>1, <2>2 DEF FlowOK, StopOK
  <2> QED BY <2>3, <2>4, <2>5 DEF FlowOK
<1> QED BY <1>4, <1>5, <1>6 DEF TakeWindow

LEMMA SendFrameFlow ==
    ASSUME TypeOK, FlowOK, SendFrame PROVE FlowOK'
<1>1. /\ forwarding /\ hand # Failed /\ sizes' = sizes /\ request' = request /\ range' = range
      /\ windows' = windows /\ producing' = producing /\ client' = client /\ got' = got
  BY DEF SendFrame
<1>2. Grpc /\ Grpc' /\ (Heard <=> forwarding) /\ (Heard' <=> forwarding')
  BY <1>1 DEF TypeOK, Grpc, Heard
<1>3. /\ hand \in Win /\ hand.start = EndOf(out, EndOf(got, range.start)) /\ Within(hand, range)
      /\ Front = hand.end /\ EndOf(got, range.start) \in Nat /\ out \in Seq(Win) /\ Unbroken(out)
      /\ Joined(out, EndOf(got, range.start), range)
      /\ hand.start \in Nat /\ hand.end \in Nat /\ range.start \in Nat /\ range.end \in Nat
  BY <1>1, FrontType, RangeFacts DEF Front, FlowOK, PipeOK, TypeOK, Win
<1>4. CASE client # "reading"
  <2>1. ~forwarding' /\ hand' = Failed /\ chan' = <<>> /\ out' = out
    BY <1>4 DEF SendFrame
  <2>2. PipeOK'
    BY <1>1, <1>4, <2>1, JoinEmpty DEF FlowOK, PipeOK
  <2>3. LeftOK'
    BY <1>1, <1>2, <2>1 DEF FlowOK, LeftOK
  <2>4. StopOK'
    BY <1>1, <1>2, <1>4, <2>1 DEF FlowOK, StopOK
  <2> QED BY <2>2, <2>3, <2>4 DEF FlowOK
<1>5. CASE client = "reading"
  <2>1. PICK cut : cut = Least(hand.start + FrameBytes, hand.end)
    OBVIOUS
  <2>2. /\ out' = Append(out, Window(hand.start, cut)) /\ forwarding' = forwarding /\ chan' = chan
        /\ hand' = IF cut = hand.end THEN Failed ELSE Window(cut, hand.end)
    BY <1>5, <2>1 DEF SendFrame
  <2>3. cut \in Nat /\ hand.start < cut /\ cut <= hand.end
    <3>1. FrameBytes \in Nat /\ FrameBytes > 0
      BY ConstantsAssumption
    <3> QED BY <1>3, <2>1, <3>1 DEF Least, Within
  <2>4. /\ Window(hand.start, cut) \in Win /\ Window(hand.start, cut).start = hand.start
        /\ Window(hand.start, cut).end = cut
    BY <1>3, <2>3, FailedFacts
  <2>5. Within(Window(hand.start, cut), range) /\ Window(hand.start, cut) # Failed
    <3>1. Within(Window(hand.start, cut), range)
      BY <1>3, <2>3, <2>4 DEF Within
    <3> QED BY <2>4, <3>1, FailedFacts
  <2>6. /\ Joined(out', EndOf(got, range.start), range)
        /\ EndOf(out', EndOf(got, range.start)) = cut /\ Unbroken(out')
    BY <1>3, <2>2, <2>4, <2>5, JoinAppend
  <2>7. hand' # Failed => hand'.start = cut /\ hand'.end = hand.end /\ Within(hand', range)
    <3>1. Window(cut, hand.end).start = cut /\ Window(cut, hand.end).end = hand.end
      BY <1>3, <2>3, FailedFacts
    <3>2. cut # hand.end => Within(Window(cut, hand.end), range)
      BY <1>3, <2>3, <3>1 DEF Within
    <3> QED BY <2>2, <3>1, <3>2
  <2>8. Front' = Front
    <3>1. CASE cut = hand.end
      BY <1>1, <1>3, <2>2, <2>6, <3>1 DEF Front
    <3>2. CASE cut # hand.end
      <4>1. hand' = Window(cut, hand.end) /\ Window(cut, hand.end) \in Win
        BY <1>3, <2>2, <2>3, <3>2, FailedFacts
      <4>2. Within(hand', range)
        <5>1. hand'.start = cut /\ hand'.end = hand.end
          BY <1>3, <2>3, <4>1, FailedFacts
        <5> QED BY <1>3, <2>3, <3>2, <5>1 DEF Within
      <4>3. hand' # Failed
        BY <4>1, <4>2, FailedFacts
      <4> QED BY <1>3, <2>7, <4>3 DEF Front
    <3> QED BY <3>1, <3>2
  <2>9. PipeOK'
    BY <1>1, <2>2, <2>6, <2>7, <2>8 DEF FlowOK, PipeOK
  <2>10. LeftOK'
    BY <1>1, <1>2, <2>2, <2>8 DEF FlowOK, LeftOK
  <2>11. StopOK'
    BY <1>1, <1>2, <2>2, <2>8 DEF FlowOK, StopOK
  <2> QED BY <2>9, <2>10, <2>11 DEF FlowOK
<1> QED BY <1>4, <1>5
LEMMA ClientReadsFlow ==
    ASSUME TypeOK, FlowOK, ClientReads PROVE FlowOK'
<1>1. /\ client = "reading" /\ sizes' = sizes /\ request' = request /\ range' = range
      /\ windows' = windows /\ hand' = hand /\ producing' = producing /\ forwarding' = forwarding
  BY DEF ClientReads
<1>2. /\ Unbroken(got) /\ Joined(got, range.start, range) /\ got \in Seq(Win)
      /\ out \in Seq(Win) /\ chan \in Seq(Win) /\ Len(chan) <= 1
      /\ Joined(out, EndOf(got, range.start), range) /\ Joined(chan, Front, range)
      /\ range.start \in Nat /\ EndOf(got, range.start) \in Nat /\ Front \in Nat
  BY <1>1, FrontType, RangeFacts DEF FlowOK, PipeOK, TypeOK
<1>3. Grpc' = Grpc /\ (~Grpc => Heard /\ out = <<>> /\ hand = Failed /\ ~forwarding)
      /\ (Grpc => (Heard <=> forwarding)) /\ range.outcome = "range"
  BY <1>1 DEF Grpc, Heard, TypeOK
<1>4. CASE Grpc /\ out # <<>> /\ got' = Append(got, Head(out)) /\ out' = Tail(out) /\ chan' = chan
           /\ client' = IF Head(out) = Failed THEN "ended" ELSE client
  <2>1. Heard' <=> forwarding
    BY <1>1, <1>3, <1>4 DEF Heard
  <2>2. CASE Head(out) # Failed
    <3>1. /\ Head(out) \in Win /\ Head(out).start = EndOf(got, range.start)
          /\ Within(Head(out), range) /\ Joined(out', Head(out).end, range)
          /\ EndOf(out', Head(out).end) = EndOf(out, EndOf(got, range.start))
          /\ (Unbroken(out') <=> Unbroken(out))
      BY <1>2, <1>4, <2>2, JoinTail
    <3>2. /\ Joined(got', range.start, range) /\ EndOf(got', range.start) = Head(out).end
          /\ Unbroken(got')
      BY <1>2, <1>4, <2>2, <3>1, JoinAppend
    <3>3. EndOf(out', EndOf(got', range.start)) = EndOf(out, EndOf(got, range.start))
      BY <3>1, <3>2
    <3>4. Front' = Front
      BY <1>1, <3>3 DEF Front
    <3>5. PipeOK'
      BY <1>1, <1>4, <3>1, <3>2, <3>3, <3>4 DEF FlowOK, PipeOK
    <3>6. LeftOK'
      BY <1>1, <1>3, <1>4, <2>1, <3>4 DEF FlowOK, LeftOK
    <3>7. StopOK'
      BY <1>1, <1>3, <1>4, <2>1, <2>2, <3>1, <3>4 DEF FlowOK, StopOK
    <3> QED BY <3>5, <3>6, <3>7 DEF FlowOK
  <2>3. CASE Head(out) = Failed
    <3>1. out' = <<>> /\ ~Unbroken(out)
      BY <1>2, <1>4, <2>3, JoinTail
    <3>2. chan = <<>> /\ hand = Failed /\ ~forwarding
      BY <3>1 DEF FlowOK, PipeOK
    <3>3. Joined(got', range.start, range) /\ ~Unbroken(got')
      BY <1>2, <1>4, <2>3, FailedFacts, JoinAppend
    <3>4. PipeOK'
      BY <1>1, <1>4, <2>3, <3>1, <3>2, <3>3, JoinEmpty DEF PipeOK
    <3>5. LeftOK'
      BY <1>1, <2>1, <3>2 DEF FlowOK, LeftOK
    <3>6. StopOK'
      BY <1>1, <1>3, <1>4, <2>1, <2>3, <3>2, <3>3 DEF StopOK
    <3> QED BY <3>4, <3>5, <3>6 DEF FlowOK
  <2> QED BY <2>2, <2>3
<1>5. CASE ~Grpc /\ chan # <<>> /\ got' = Append(got, Head(chan)) /\ chan' = <<>> /\ out' = out
           /\ client' = IF Head(chan) = Failed THEN "ended" ELSE client
  <2>1. out = <<>> /\ hand = Failed /\ ~forwarding /\ Heard /\ (Heard' <=> client' = "reading")
        /\ Front = EndOf(got, range.start)
    BY <1>1, <1>3, <1>5, JoinEmpty DEF Heard, Front, Grpc
  <2>2. CASE Head(chan) # Failed
    <3>1. /\ Head(chan) \in Win /\ Head(chan).start = EndOf(got, range.start)
          /\ Within(Head(chan), range) /\ EndOf(chan, Front) = Head(chan).end /\ Unbroken(chan)
      BY <1>2, <1>5, <2>1, <2>2, OneItem
    <3>2. /\ Joined(got', range.start, range) /\ EndOf(got', range.start) = Head(chan).end
          /\ Unbroken(got')
      BY <1>2, <1>5, <2>2, <3>1, JoinAppend
    <3>3. Front' = Head(chan).end /\ EndOf(chan', Front') = EndOf(chan, Front)
      BY <1>1, <1>5, <2>1, <3>1, <3>2, JoinEmpty DEF Front
    <3>4. PipeOK'
      BY <1>1, <1>5, <2>1, <3>2, JoinEmpty DEF PipeOK
    <3>5. LeftOK'
      BY <1>1, <2>1, <2>2, <1>5, <3>3 DEF FlowOK, LeftOK
    <3>6. StopOK'
      BY <1>1, <1>3, <1>5, <2>1, <2>2, <3>1, <3>3 DEF FlowOK, StopOK
    <3> QED BY <3>4, <3>5, <3>6 DEF FlowOK
  <2>3. CASE Head(chan) = Failed
    <3>1. Joined(got', range.start, range) /\ ~Unbroken(got')
      BY <1>2, <1>5, <2>3, FailedFacts, JoinAppend
    <3>2. client' = "ended" /\ ~Heard'
      BY <1>5, <2>1, <2>3
    <3>3. PipeOK'
      BY <1>1, <1>5, <2>1, <3>1, <3>2, JoinEmpty DEF PipeOK
    <3>4. LeftOK'
      BY <1>1, <3>2 DEF FlowOK, LeftOK
    <3>5. StopOK'
      BY <1>3, <1>5, <3>1, <3>2 DEF StopOK
    <3> QED BY <3>3, <3>4, <3>5 DEF FlowOK
  <2> QED BY <2>2, <2>3
<1>6. CASE Body = <<>> /\ ~producing /\ ~forwarding /\ client' = "ended"
           /\ UNCHANGED <<got, chan, out>>
  <2>1. Front' = Front /\ ~Heard'
    BY <1>1, <1>3, <1>6 DEF Front, Heard, Grpc
  <2>2. EndOf(got, range.start) = range.end
    <3>1. CASE Grpc
      <4>1. out = <<>> /\ hand = Failed
        BY <1>1, <1>6, <3>1 DEF FlowOK, StopOK, Body
      <4>2. Front = range.end
        BY <1>1, <1>6, <3>1, <4>1, JoinEmpty DEF FlowOK, StopOK
      <4> QED BY <4>1, <4>2, JoinEmpty DEF Front
    <3>2. CASE ~Grpc
      <4>1. chan = <<>> /\ out = <<>> /\ hand = Failed /\ Heard
        BY <1>3, <1>6, <3>2 DEF Body
      <4>2. EndOf(chan, Front) = range.end
        BY <1>6, <4>1, JoinEmpty DEF FlowOK, StopOK
      <4> QED BY <4>1, <4>2, JoinEmpty DEF Front
    <3> QED BY <3>1, <3>2
  <2>3. PipeOK'
    BY <1>1, <1>6, <2>1 DEF FlowOK, PipeOK
  <2>4. LeftOK'
    BY <1>1, <1>6, <2>1 DEF FlowOK, LeftOK
  <2>5. StopOK'
    BY <1>1, <1>6, <2>1, <2>2 DEF StopOK
  <2> QED BY <2>3, <2>4, <2>5 DEF FlowOK
<1> QED BY <1>4, <1>5, <1>6 DEF ClientReads, Body

LEMMA LeavesFlow ==
    ASSUME TypeOK, FlowOK, ClientLeaves PROVE FlowOK'
<1>1. /\ client = "reading" /\ client' = "gone" /\ sizes' = sizes /\ request' = request
      /\ range' = range /\ windows' = windows /\ hand' = hand /\ producing' = producing
      /\ forwarding' = forwarding /\ chan' = chan /\ out' = out /\ got' = got
  BY DEF ClientLeaves
<1>2. Front' = Front /\ Grpc' = Grpc /\ (Heard' => Heard)
  BY <1>1 DEF Front, Heard, Grpc
<1>3. PipeOK'
  BY <1>1, <1>2 DEF FlowOK, PipeOK
<1>4. LeftOK'
  BY <1>1, <1>2 DEF FlowOK, LeftOK
<1>5. StopOK'
  BY <1>1, <1>2 DEF FlowOK, StopOK
<1> QED BY <1>3, <1>4, <1>5 DEF FlowOK

LEMMA DiesFlow ==
    ASSUME TypeOK, FlowOK, DaemonDies PROVE FlowOK' /\ got' \in Seq(Win)
<1>1. /\ client = "reading" /\ client' = "gone" /\ sizes' = sizes /\ request' = request
      /\ range' = range /\ windows' = <<>> /\ hand' = Failed /\ ~producing'
      /\ ~forwarding' /\ chan' = <<>> /\ out' = <<>>
  BY DEF DaemonDies
<1>2. /\ Unbroken(got) /\ Joined(got, range.start, range) /\ got \in Seq(Win)
      /\ out \in Seq(Win) /\ chan \in Seq(Win) /\ Len(chan) <= 1
      /\ Joined(out, EndOf(got, range.start), range) /\ Joined(chan, Front, range)
      /\ range.start \in Nat /\ EndOf(got, range.start) \in Nat /\ Front \in Nat
      /\ range.end \in Nat
  BY <1>1, FrontType, RangeFacts DEF FlowOK, PipeOK, TypeOK
<1>3. ~Grpc => Body = chan /\ Front = EndOf(got, range.start)
  BY JoinEmpty DEF TypeOK, Body, Front
<1>4. got' \in Seq(Win) /\ Joined(got', range.start, range)
  <2>1. CASE got' = got
    BY <1>2, <2>1
  <2>2. CASE got' = got \o Body
    <3>1. Body \in Seq(Win) /\ Joined(Body, EndOf(got, range.start), range)
      BY <1>2, <1>3 DEF Body
    <3> QED BY <1>2, <2>2, <3>1, JoinConcat
  <2>3. ASSUME ~Grpc, Body # <<>>, Head(Body) # Failed,
               NEW cut \in Head(Body).start + 1 .. Head(Body).end - 1,
               got' = Append(got, Window(Head(Body).start, cut))
        PROVE  got' \in Seq(Win) /\ Joined(got', range.start, range)
    <3>1. PICK w : w = Head(Body)
      OBVIOUS
    <3>2. w \in Win /\ w.start = EndOf(got, range.start) /\ Within(w, range)
      BY <1>2, <1>3, <2>3, <3>1, OneItem
    <3>3. w.start \in Nat /\ w.end \in Nat
      BY <3>2 DEF Win
    <3>4. cut \in Nat /\ w.start < cut /\ cut < w.end
      BY <2>3, <3>1, <3>3
    <3>5. PICK v : v = Window(w.start, cut)
      OBVIOUS
    <3>6. v \in Win /\ v.start = w.start /\ v.end = cut
      BY <3>3, <3>4, <3>5, FailedFacts
    <3>7. Within(v, range)
      BY <1>2, <3>2, <3>3, <3>4, <3>6 DEF Within
    <3> QED BY <1>2, <2>3, <3>1, <3>2, <3>5, <3>6, <3>7, JoinAppend
  <2> QED BY <2>1, <2>2, <2>3 DEF DaemonDies
<1>5. PipeOK'
  BY <1>1, <1>4, JoinEmpty DEF PipeOK
<1>6. LeftOK'
  BY <1>1, JoinEmpty, EmptySpans DEF LeftOK
<1>7. StopOK'
  BY <1>1 DEF StopOK, Heard
<1> QED BY <1>4, <1>5, <1>6, <1>7 DEF FlowOK

LEMMA SameFlow ==
    FlowOK /\ UNCHANGED vars => FlowOK'
<1> SUFFICES ASSUME FlowOK, UNCHANGED vars PROVE FlowOK'
  OBVIOUS
<1>1. /\ client' = client /\ sizes' = sizes /\ request' = request
      /\ range' = range /\ windows' = windows /\ hand' = hand /\ producing' = producing
      /\ forwarding' = forwarding /\ chan' = chan /\ out' = out /\ got' = got
  BY DEF vars
<1>2. Front' = Front /\ Grpc' = Grpc /\ Heard' = Heard
  BY <1>1 DEF Front, Heard, Grpc
<1> QED BY <1>1, <1>2 DEF FlowOK, PipeOK, LeftOK, StopOK

LEMMA NextFlow == TypeOK /\ FlowOK /\ [SdkNext]_allVars => FlowOK'
<1> SUFFICES ASSUME TypeOK, FlowOK, [SdkNext]_allVars PROVE FlowOK'
  OBVIOUS
<1>1. CASE Daemon
  BY <1>1, SendWindowFlow, NobodyFlow, TakeWindowFlow, SendFrameFlow DEF Daemon, Produces, Forwards
<1>2. CASE BodyPolled
  BY <1>2, ClientReadsFlow DEF BodyPolled
<1>3. CASE DaemonDies
  BY <1>3, DiesFlow
<1>4. CASE Poll \/ UNCHANGED allVars
  BY <1>4, SameFlow DEF Poll, PollItem, PollEnd, allVars
<1>5. CASE AppLeaves
  BY <1>5, LeavesFlow, SameFlow DEF AppLeaves
<1> QED BY <1>1, <1>2, <1>3, <1>4, <1>5 DEF SdkNext
-----------------------------------------------------------------------------
(* The app.                                                                *)

\* What the client has read stays, and what it reads is added.
LEMMA GotGrows ==
    ASSUME TypeOK, FlowOK, [SdkNext]_allVars
    PROVE  /\ got' \in Seq(Win) /\ Len(got) \in Nat /\ Len(got') \in Nat /\ Len(got) <= Len(got')
           /\ \A i \in 1 .. Len(got) : got'[i] = got[i]
<1>0. /\ got \in Seq(Win) /\ out \in Seq(Win) /\ chan \in Seq(Win) /\ Len(got) \in Nat
  BY DEF TypeOK
<1>1. CASE got' = got
  BY <1>0, <1>1
<1>2. ASSUME NEW w \in Win, got' = Append(got, w)
      PROVE  /\ got' \in Seq(Win) /\ Len(got') = Len(got) + 1
             /\ \A i \in 1 .. Len(got) : got'[i] = got[i]
  BY <1>0, <1>2
<1>3. ASSUME NEW s \in Seq(Win), got' = got \o s
      PROVE  /\ got' \in Seq(Win) /\ Len(got') \in Nat /\ Len(got) <= Len(got')
             /\ \A i \in 1 .. Len(got) : got'[i] = got[i]
  <2>1. /\ got \o s \in Seq(Win) /\ Len(got \o s) = Len(got) + Len(s) /\ Len(s) \in Nat
        /\ \A i \in 1 .. Len(got) + Len(s) :
              (got \o s)[i] = IF i <= Len(got) THEN got[i] ELSE s[i - Len(got)]
    BY <1>0, <1>3, ConcatProperties
  <2>2. \A i \in 1 .. Len(got) : i \in 1 .. Len(got) + Len(s) /\ i <= Len(got)
    BY <1>0, <2>1
  <2> QED BY <1>0, <1>3, <2>1, <2>2
<1>4. CASE ClientReads
  <2>1. CASE Body # <<>>
    <3>1. Head(Body) \in Win
      BY <1>0, <2>1 DEF Body
    <3>2. got' = Append(got, Head(Body))
      BY <1>4, <2>1 DEF ClientReads
    <3> QED BY <1>0, <1>2, <3>1, <3>2
  <2>2. CASE Body = <<>>
    BY <1>1, <1>4, <2>2 DEF ClientReads
  <2> QED BY <2>1, <2>2
<1>5. CASE DaemonDies
  <2>1. CASE got' = got \o Body
    <3>1. Body \in Seq(Win)
      BY <1>0 DEF Body
    <3> QED BY <1>0, <1>3, <2>1, <3>1
  <2>2. ASSUME Body # <<>>, NEW cut \in Head(Body).start + 1 .. Head(Body).end - 1,
               got' = Append(got, Window(Head(Body).start, cut))
        PROVE  /\ got' \in Seq(Win) /\ Len(got') = Len(got) + 1
               /\ \A i \in 1 .. Len(got) : got'[i] = got[i]
    <3>1. Head(Body) \in Win
      BY <1>0, <2>2 DEF Body
    <3>2. cut \in Nat /\ Head(Body).start \in Nat
      BY <2>2, <3>1 DEF Win
    <3>3. Window(Head(Body).start, cut) \in Win
      BY <3>2, FailedFacts
    <3> QED BY <1>2, <2>2, <3>3
  <2> QED BY <1>0, <1>1, <1>5, <2>1, <2>2 DEF DaemonDies
<1>6. ClientReads \/ DaemonDies \/ got' = got
  BY DEF SdkNext, allVars, vars, Daemon, Produces, Forwards, SendWindow, SendWindowToNobody,
     TakeWindow, SendFrame, BodyPolled, Poll, PollItem, PollEnd, AppLeaves, ClientLeaves
<1> QED BY <1>0, <1>1, <1>4, <1>5, <1>6

LEMMA NextType == TypeOK /\ FlowOK /\ [SdkNext]_allVars => TypeOK'
<1> SUFFICES ASSUME TypeOK, FlowOK, [SdkNext]_allVars PROVE TypeOK'
  OBVIOUS
<1>1. /\ got' \in Seq(Win) /\ Len(got) \in Nat /\ Len(got') \in Nat /\ Len(got) <= Len(got')
      /\ taken \in 0 .. Len(got) /\ taken \in 0 .. Len(got')
  BY GotGrows DEF TypeOK
<1>2. sizes' = sizes /\ request' = request /\ range' = range /\ Grpc' = Grpc
  BY DEF SdkNext, allVars, vars, Daemon, Produces, Forwards, SendWindow, SendWindowToNobody, Grpc,
     TakeWindow, SendFrame, BodyPolled, ClientReads, DaemonDies, Poll, PollItem, PollEnd,
     AppLeaves, ClientLeaves
<1>3. <<>> \in Seq(Win) /\ Len(<<>>) <= 1 /\ Failed \in Win
  BY FailedFacts
<1>4. ASSUME NEW w \in Win PROVE <<w>> \in Seq(Win) /\ Len(<<w>>) <= 1
  OBVIOUS
<1>5. ASSUME NEW s \in Seq(Win), s # <<>> PROVE Head(s) \in Win /\ Tail(s) \in Seq(Win)
  BY <1>5
<1>6. ASSUME NEW s \in Seq(Win), NEW w \in Win PROVE Append(s, w) \in Seq(Win)
  BY <1>6
<1>7. CASE Daemon
  <2>1. /\ taken' = taken /\ received' = received /\ link' = link /\ app' = app
        /\ range.outcome = "range"
        /\ got' = got /\ client' = client
    BY <1>7 DEF Daemon, sdkVars, Produces, Forwards, SendWindow, SendWindowToNobody, TakeWindow,
       SendFrame, TypeOK
  <2>2. CASE SendWindow
    <3>1. windows' \in Seq(Win) /\ chan' \in Seq(Win) /\ Len(chan') <= 1
      BY <2>2, <1>3, <1>4, <1>5 DEF SendWindow, TypeOK
    <3> QED BY <1>1, <1>2, <2>1, <2>2, <3>1 DEF SendWindow, TypeOK
  <2>3. CASE SendWindowToNobody
    BY <1>1, <1>2, <1>3, <2>1, <2>3 DEF SendWindowToNobody, TypeOK
  <2>4. CASE TakeWindow
    <3>1. /\ chan' \in Seq(Win) /\ Len(chan') <= 1 /\ out' \in Seq(Win) /\ hand' \in Win
          /\ forwarding' \in BOOLEAN
      BY <2>4, <1>3, <1>5, <1>6 DEF TakeWindow, TypeOK
    <3> QED BY <1>1, <1>2, <2>1, <2>4, <3>1 DEF TakeWindow, TypeOK
  <2>5. CASE SendFrame
    <3>1. hand.start \in Nat /\ hand.end \in Nat /\ FrameBytes \in Nat
      BY ConstantsAssumption DEF TypeOK, Win
    <3>2. Least(hand.start + FrameBytes, hand.end) \in Nat
      BY <3>1 DEF Least
    <3>3. /\ chan' \in Seq(Win) /\ Len(chan') <= 1 /\ out' \in Seq(Win) /\ hand' \in Win
          /\ forwarding' \in BOOLEAN
      <4>1. PICK cut : cut = Least(hand.start + FrameBytes, hand.end)
        OBVIOUS
      <4>2. Window(hand.start, cut) \in Win /\ Window(cut, hand.end) \in Win /\ Failed \in Win
        BY <3>1, <3>2, <4>1, FailedFacts DEF Win, Window
      <4>3. out \in Seq(Win) /\ chan \in Seq(Win) /\ Len(chan) <= 1 /\ forwarding \in BOOLEAN
        BY DEF TypeOK
      <4>4. CASE client # "reading"
        <5>1. chan' = <<>> /\ hand' = Failed /\ forwarding' = FALSE /\ out' = out
          BY <2>5, <4>4 DEF SendFrame
        <5>2. chan' \in Seq(Win) /\ Len(chan') <= 1
          BY <5>1
        <5>3. hand' \in Win /\ forwarding' \in BOOLEAN /\ out' \in Seq(Win)
          BY <4>2, <4>3, <5>1
        <5> QED BY <5>2, <5>3
      <4>5. CASE client = "reading"
        <5>1. /\ out' = Append(out, Window(hand.start, cut)) /\ chan' = chan
              /\ hand' \in {Failed, Window(cut, hand.end)} /\ forwarding' = forwarding
          BY <2>5, <4>1, <4>5 DEF SendFrame
        <5> QED BY <4>2, <4>3, <5>1
      <4> QED BY <4>4, <4>5
    <3> QED BY <1>1, <1>2, <2>1, <2>5, <3>3 DEF SendFrame, TypeOK
  <2> QED BY <1>7, <2>2, <2>3, <2>4, <2>5 DEF Daemon, Produces, Forwards
<1>8. CASE BodyPolled
  <2>1. /\ taken' = taken /\ received' = received /\ link' = link /\ app' = app
        /\ range.outcome = "range" /\ windows' = windows /\ hand' = hand
        /\ producing' = producing /\ forwarding' = forwarding
        /\ client' \in {"reading", "gone", "ended"}
    BY <1>8 DEF BodyPolled, sdkVars, ClientReads, TypeOK
  <2>2. chan' \in Seq(Win) /\ Len(chan') <= 1 /\ out' \in Seq(Win) /\ (~Grpc => out' = out)
    BY <1>8, <1>3, <1>5 DEF BodyPolled, ClientReads, Body, TypeOK
  <2> QED BY <1>1, <1>2, <2>1, <2>2 DEF TypeOK
<1>9. CASE DaemonDies
  BY <1>1, <1>2, <1>3, <1>9 DEF DaemonDies, TypeOK
<1>10. CASE Poll
  <2>1. UNCHANGED vars /\ link' = link /\ app = "polling" /\ app' \in {"polling", "ended", "failed"}
    BY <1>10 DEF Poll, PollItem, PollEnd
  <2>2. taken' \in 0 .. Len(got) /\ received' \in Int
    <3>1. CASE PollItem
      <4>1. taken' = taken + 1 /\ taken < Len(got) /\ taken + 1 \in 1 .. Len(got)
        BY <1>1, <3>1 DEF PollItem
      <4>2. got[taken + 1] \in Win
        BY <4>1 DEF TypeOK
      <4>3. received + got[taken + 1].end - got[taken + 1].start \in Int
        BY <4>2 DEF TypeOK, Win
      <4> QED BY <1>1, <3>1, <4>1, <4>3 DEF PollItem, TypeOK
    <3>2. CASE PollEnd
      BY <1>1, <3>2 DEF PollEnd, TypeOK
    <3> QED BY <1>10, <3>1, <3>2 DEF Poll
  <2> QED BY <1>2, <2>1, <2>2 DEF TypeOK, vars
<1>11. CASE AppLeaves
  <2>1. /\ app = "polling" /\ app' = "left"
        /\ taken' = taken /\ received' = received /\ link' = link
        /\ client' \in {client, "gone"} /\ windows' = windows /\ chan' = chan /\ out' = out
        /\ hand' = hand /\ producing' = producing /\ forwarding' = forwarding
    BY <1>11 DEF AppLeaves, ClientLeaves, vars
  <2> QED BY <1>1, <1>2, <2>1 DEF TypeOK
<1>12. CASE UNCHANGED allVars
  BY <1>2, <1>12 DEF allVars, vars, sdkVars, TypeOK
<1> QED BY <1>7, <1>8, <1>9, <1>10, <1>11, <1>12 DEF SdkNext

LEMMA NextAsked == AskedOK /\ [SdkNext]_allVars => AskedOK'
<1> SUFFICES ASSUME AskedOK, [SdkNext]_allVars PROVE AskedOK'
  OBVIOUS
<1>1. asked' = asked /\ request' = request
  BY DEF SdkNext, allVars, vars, sdkVars, Daemon, Produces, Forwards, SendWindow,
     SendWindowToNobody, TakeWindow, SendFrame, BodyPolled, ClientReads, DaemonDies, Poll,
     PollItem, PollEnd, AppLeaves, ClientLeaves
<1> QED BY <1>1 DEF AskedOK

\* Every item follows the one before it, counted and without a gap.
LEMMA NextItem ==
    ASSUME TypeOK, FlowOK, AppOK, PollItem PROVE AppOK'
<1>1. /\ app = "polling" /\ taken < Len(got) /\ taken' = taken + 1 /\ got' = got /\ range' = range
      /\ got \in Seq(Win) /\ Len(got) \in Nat /\ taken \in Nat /\ received \in Int
      /\ range.start \in Nat /\ range.end \in Nat /\ Joined(got, range.start, range)
      /\ (app' = "polling" \/ app' = "failed")
  BY RangeFacts DEF PollItem, TypeOK, vars, FlowOK, PipeOK
<1>2. PICK w : w = got[taken + 1]
  OBVIOUS
<1>3. w \in Win /\ w.start \in Nat /\ w.end \in Nat /\ taken + 1 \in 1 .. Len(got)
  <2>1. taken + 1 \in 1 .. Len(got)
    BY <1>1
  <2>2. w \in Win
    BY <1>1, <1>2, <2>1
  <2> QED BY <2>1, <2>2 DEF Win
<1>4. CASE w = Failed
  BY <1>1, <1>2, <1>4 DEF PollItem, AppOK
<1>5. CASE w # Failed
  <2>1. received' = received + w.end - w.start
    BY <1>2, <1>5 DEF PollItem
  <2>2. w.start = Upto /\ Within(w, range)
    <3>1. /\ w.start = (IF taken + 1 = 1 THEN range.start ELSE got[(taken + 1) - 1].end)
          /\ Within(w, range)
      BY <1>1, <1>2, <1>3, <1>5 DEF Joined
    <3> QED BY <1>1, <3>1 DEF Upto
  <2>3. Upto' = w.end
    BY <1>1, <1>2 DEF Upto
  <2>4. received' = Upto' - range.start
    BY <1>1, <1>3, <2>1, <2>2, <2>3 DEF AppOK
  <2>5. \A i \in 1 .. taken' : got[i] # Failed
    <3> SUFFICES ASSUME NEW i \in 1 .. taken + 1 PROVE got[i] # Failed
      BY <1>1
    <3>1. i \in 1 .. taken \/ i = taken + 1
      BY <1>1
    <3> QED BY <1>1, <1>2, <1>5, <3>1 DEF AppOK
  <2>6. range.start .. Upto' - 1 \subseteq Read'
    <3> SUFFICES ASSUME NEW b \in range.start .. w.end - 1
                 PROVE  \E i \in 1 .. taken + 1 : b \in Bytes(got[i])
      BY <1>1, <2>3 DEF Read
    <3>1. CASE b >= w.start
      <4>1. b \in Bytes(w) /\ taken + 1 \in 1 .. taken + 1
        BY <1>1, <1>3, <3>1 DEF Bytes
      <4> QED BY <1>2, <4>1
    <3>2. CASE ~(b >= w.start)
      <4>1. b \in range.start .. Upto - 1
        BY <1>1, <1>3, <2>2, <3>2
      <4>2. b \in Read
        BY <1>1, <4>1 DEF AppOK
      <4>3. PICK i \in 1 .. taken : b \in Bytes(got[i])
        BY <4>2 DEF Read
      <4>4. i \in 1 .. taken + 1
        BY <1>1
      <4> QED BY <4>3, <4>4
    <3> QED BY <3>1, <3>2
  <2> QED BY <1>1, <2>4, <2>5, <2>6 DEF AppOK
<1> QED BY <1>4, <1>5

LEMMA NextApp == TypeOK /\ FlowOK /\ AppOK /\ [SdkNext]_allVars => AppOK'
<1> SUFFICES ASSUME TypeOK, FlowOK, AppOK, [SdkNext]_allVars PROVE AppOK'
  OBVIOUS
<1>1. range' = range
  BY DEF SdkNext, allVars, vars, Daemon, Produces, Forwards, SendWindow, SendWindowToNobody,
     TakeWindow, SendFrame, BodyPolled, ClientReads, DaemonDies, Poll, PollItem, PollEnd,
     AppLeaves, ClientLeaves
<1>2. taken \in 0 .. Len(got) /\ taken \in Nat /\ Len(got) \in Nat
      /\ \A i \in 1 .. Len(got) : got'[i] = got[i]
  BY GotGrows DEF TypeOK
<1>3. \A i \in 1 .. taken : i \in 1 .. Len(got) /\ got'[i] = got[i]
  BY <1>2
<1>4. ASSUME taken' = taken PROVE Upto' = Upto /\ Read' = Read
  <2>1. Upto' = Upto
    <3>1. taken # 0 => taken \in 1 .. taken
      BY <1>2
    <3> QED BY <1>1, <1>3, <1>4, <3>1 DEF Upto
  <2>2. Read' = Read
    BY <1>3, <1>4 DEF Read
  <2> QED BY <2>1, <2>2
<1>5. ASSUME taken' = taken, received' = received, app' = app \/ app' \in {"left", "failed"}
      PROVE  AppOK'
  BY <1>1, <1>3, <1>4, <1>5 DEF AppOK
<1>6. CASE Daemon \/ BodyPolled \/ DaemonDies \/ AppLeaves \/ UNCHANGED allVars
  BY <1>5, <1>6 DEF Daemon, BodyPolled, DaemonDies, AppLeaves, allVars, sdkVars
<1>7. CASE PollItem
  BY <1>7, NextItem
<1>8. CASE PollEnd
  <2>1. /\ app = "polling" /\ taken = Len(got) /\ taken' = taken /\ received' = received
        /\ app' \in {"ended", "failed"}
        /\ app' = "ended" => received = Announced \/ client = "ended"
    BY <1>8 DEF PollEnd
  <2>2. ASSUME app' = "ended" PROVE Upto = range.end
    <3>1. /\ range.start \in Nat /\ range.end \in Nat /\ Upto \in Nat
          /\ received = Upto - range.start /\ range.outcome = "range"
      <4>1. range.start \in Nat /\ range.end \in Nat
        BY RangeFacts
      <4>2. Upto \in Nat
        <5>1. CASE taken = 0
          BY <4>1, <5>1 DEF Upto
        <5>2. CASE taken # 0
          <6>1. taken \in 1 .. Len(got) /\ got[taken] \in Win
            BY <1>2, <5>2 DEF TypeOK
          <6> QED BY <5>2, <6>1 DEF Upto, Win
        <5> QED BY <5>1, <5>2
      <4> QED BY <2>1, <4>1, <4>2 DEF AppOK, TypeOK
    <3>2. CASE received = Announced
      BY <3>1, <3>2 DEF Announced
    <3>3. CASE client = "ended"
      <4>1. Unbroken(got)
        BY <2>1 DEF AppOK, Unbroken
      <4>2. EndOf(got, range.start) = range.end
        BY <3>1, <3>3, <4>1 DEF FlowOK, StopOK
      <4>3. got = <<>> <=> taken = 0
        BY <2>1 DEF TypeOK
      <4> QED BY <2>1, <4>2, <4>3 DEF Upto, EndOf
    <3> QED BY <2>1, <2>2, <3>2, <3>3
  <2> QED BY <1>1, <1>3, <1>4, <2>1, <2>2 DEF AppOK
<1> QED BY <1>6, <1>7, <1>8 DEF SdkNext, Poll

\* Every reachable state is as RangeInv says.
LEMMA Inductive == SdkSpec => []RangeInv
<1>1. RangeInv /\ [SdkNext]_allVars => RangeInv'
  BY NextType, NextFlow, NextAsked, NextApp DEF RangeInv, FlowOK
<1> QED BY <1>1, InitInv, PTL DEF SdkSpec

-----------------------------------------------------------------------------
(* The theorems.                                                           *)

\* The range that is served is exactly the one asked for, whatever the width of the
\* integers that the arithmetic saturates at, and a refusal is deserved.
THEOREM ServesWhatIsAsked == SdkSpec => []RangeIsRequested
<1>1. RangeInv => RangeIsRequested
  BY RangeFacts DEF RangeInv, RangeIsRequested
<1> QED BY <1>1, Inductive, PTL

\* For every object, range and number of chunks to a window: the windows left cover
\* the rest of the range in order, and no chunk is needed for two of them.
THEOREM WindowsAreExact == SdkSpec => []WindowsPartition
<1>1. RangeInv => WindowsPartition
  <2> SUFFICES ASSUME RangeInv PROVE WindowsPartition
    OBVIOUS
  <2>1. TypeOK /\ LeftOK /\ windows \in Seq(Win)
    BY DEF RangeInv, TypeOK
  <2>2. Fetched = EndOf(chan, Front)
    BY DEF Fetched, Front
  <2>3. ASSUME producing, Heard
        PROVE  /\ windows # <<>> /\ windows[1].start = Fetched
               /\ windows[Len(windows)].end = range.end
               /\ \A i \in 1 .. Len(windows) - 1 : windows[i].end = windows[i + 1].start
    <3>1. /\ windows # <<>> /\ EndOf(windows, 0) = range.end /\ Unbroken(windows)
          /\ Joined(windows, windows[1].start, range) /\ windows[1].start = Fetched
      BY <2>1, <2>2, <2>3 DEF LeftOK
    <3>2. windows[Len(windows)].end = range.end
      BY <3>1 DEF EndOf
    <3>3. ASSUME NEW i \in 1 .. Len(windows) - 1 PROVE windows[i].end = windows[i + 1].start
      <4>1. i + 1 \in 1 .. Len(windows) /\ i + 1 # 1 /\ (i + 1) - 1 = i
        BY <2>1
      <4>2. windows[i + 1] # Failed
        BY <3>1, <4>1 DEF Unbroken
      <4> QED BY <3>1, <4>1, <4>2 DEF Joined
    <3> QED BY <3>1, <3>2, <3>3
  <2>4. \A w : Needs(w) = NeedsIn(sizes, w)
    BY DEF Needs, NeedsIn
  <2>5. Spans(sizes, windows, WindowChunks)
    BY <2>1 DEF LeftOK
  <2> QED BY <2>3, <2>4, <2>5 DEF WindowsPartition, Spans
<1> QED BY <1>1, Inductive, PTL

\* The SDK's translation of a call names the bytes that were asked for.
LEMMA WantedIsRequested ==
    ASSUME TypeOK, AskedOK PROVE Wanted = Requested
<1>1. Size(sizes) \in Nat /\ Size(sizes) <= MaxU64 /\ MaxU64 \in Nat
  BY RangeFacts, ConstantsAssumption DEF U64
<1>2. CASE asked = Foreign
  BY <1>2 DEF Wanted
<1>3. CASE asked # Foreign
  <2>1. PICK offset \in U64, length \in (U64 \ {0}) \cup {Absent}, grpc \in BOOLEAN :
            asked = [offset |-> offset, length |-> length] /\ request = RequestOf(asked, grpc)
    BY <1>3 DEF AskedOK
  <2>2. asked.offset = offset /\ asked.length = length
    BY <2>1
  <2>3. offset \in Nat /\ (length = Absent \/ (length \in Nat /\ length # 0 /\ length # Absent))
    BY <1>1 DEF U64, Absent
  <2>4. Wanted = {i \in 0 .. Size(sizes) - 1 :
                     i >= offset /\ (length # Absent => i < offset + length)}
    BY <1>3, <2>2 DEF Wanted
  <2>5. CASE grpc
    <3>1. request.form = "offset" /\ request.first = offset /\ request.last = length
      BY <2>1, <2>2, <2>5 DEF RequestOf
    <3> QED BY <2>4, <3>1 DEF Requested
  <2>6. CASE ~grpc
    <3>1. PICK last : last = offset + length - 1
      OBVIOUS
    <3>2. /\ request.form = "header" /\ request.first = offset
          /\ request.last = IF length = Absent \/ last > MaxU64 THEN Absent ELSE last
      BY <2>1, <2>2, <2>6, <3>1 DEF RequestOf
    <3>3. Requested = {i \in 0 .. Size(sizes) - 1 :
                          i >= offset /\ (request.last # Absent => i <= request.last)}
      BY <3>2 DEF Requested
    <3>4. ASSUME NEW i \in 0 .. Size(sizes) - 1
          PROVE  (length # Absent => i < offset + length)
                 <=> (request.last # Absent => i <= request.last)
      <4>1. i \in Nat /\ i < MaxU64
        BY <1>1
      <4>2. CASE length = Absent
        BY <3>2, <4>2
      <4>3. CASE length # Absent /\ last > MaxU64
        BY <1>1, <2>3, <3>1, <3>2, <4>1, <4>3
      <4>4. CASE length # Absent /\ ~(last > MaxU64)
        <5>1. request.last = last /\ last \in Nat /\ last # Absent
          BY <2>3, <3>1, <3>2, <4>4 DEF Absent
        <5> QED BY <2>3, <3>1, <4>1, <4>4, <5>1
      <4> QED BY <4>2, <4>3, <4>4
    <3> QED BY <2>4, <3>3, <3>4
  <2> QED BY <2>5, <2>6
<1> QED BY <1>2, <1>3

\* What the app reads is contiguous, within the bytes it wants, and all of them when
\* its stream ends without an error.
THEOREM ReadsTheRange == SdkSpec => []AppHasRange
<1>1. RangeInv => AppHasRange
  <2> SUFFICES ASSUME RangeInv, range.outcome = "range"
               PROVE  /\ \A i \in 1 .. taken : got[i] # Failed =>
                            got[i].start = IF i = 1 THEN range.start ELSE got[i - 1].end
                      /\ Read \subseteq Wanted
                      /\ app = "ended" => Read = Wanted
    BY DEF AppHasRange
  <2>1. /\ Wanted = range.start .. range.end - 1 /\ range.start \in Nat /\ range.end \in Nat
        /\ taken \in 0 .. Len(got) /\ got \in Seq(Win) /\ Joined(got, range.start, range)
    BY WantedIsRequested, RangeFacts DEF RangeInv, TypeOK, PipeOK
  <2>2. ASSUME NEW i \in 1 .. taken
        PROVE  /\ i \in 1 .. Len(got) /\ got[i] \in Win
               /\ got[i] # Failed =>
                     /\ got[i].start = IF i = 1 THEN range.start ELSE got[i - 1].end
                     /\ Within(got[i], range)
    <3>1. i \in 1 .. Len(got)
      BY <2>1
    <3> QED BY <2>1, <3>1 DEF Joined
  <2>3. Read \subseteq Wanted
    <3> SUFFICES ASSUME NEW i \in 1 .. taken, NEW b \in Bytes(got[i]) PROVE b \in Wanted
      BY DEF Read
    <3>1. got[i].start \in Nat /\ got[i].end \in Nat
      BY <2>2 DEF Win
    <3>2. got[i] # Failed
      BY <3>1 DEF Failed, Bytes
    <3> QED BY <2>1, <2>2, <3>1, <3>2, SMTT(30) DEF Bytes, Within
  <2>4. app = "ended" => Wanted \subseteq Read
    BY <2>1 DEF RangeInv, AppOK
  <2> QED BY <2>2, <2>3, <2>4
<1> QED BY <1>1, Inductive, PTL

=============================================================================

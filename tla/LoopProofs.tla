----------------------------- MODULE LoopProofs -----------------------------
(***************************************************************************)
(* Proofs about three small parts of the server that share no state.       *)
(*                                                                         *)
(* Alerts: start and stop never leave two loops at work, whatever joins    *)
(* time out.  The invariant is that a thread which is alive is the one the *)
(* handle names: start replaces the handle only once that thread is gone.  *)
(* And no history of an org makes more than one run in 1 + sigma^2 a       *)
(* regression: the squared distances of all runs from a line through the   *)
(* mean are at least those of the runs that stand out, which is Cantelli's *)
(* inequality.  The sums are folds of the model: that a fold obeys its     *)
(* equation is proved first, by a least counterexample.                    *)
(*                                                                         *)
(* InstallTokens: no call that keeps to the buffer is made with an expired *)
(* token, for any number of threads and any lifetime longer than the       *)
(* buffer.  TokenInv says more than the promise: a thread that has a token *)
(* has one that outlives its look-up by the buffer, whether GitHub just    *)
(* issued it or the cache held it.  And few tokens are minted while one is *)
(* fresh: MintInv counts what is minted together with what may still be.   *)
(*                                                                         *)
(* BotPr: the branch under review never moves and the row only ever points *)
(* at a pull request that is there, for any number of runs, attempts and   *)
(* commits of others.  BotPrInv carries what the attempt of the worker has *)
(* established so far: its commit before the push, the branch before the   *)
(* request, the request before the record.                                 *)
(***************************************************************************)
EXTENDS Alerts, InstallTokens, BotPr, FiniteSetTheorems, WellFoundedInduction,
        TLAPS

-----------------------------------------------------------------------------
(* Alerts.                                                                 *)

HandleInv ==
    /\ loop \in [Loops -> {"new", "check", "pass", "send", "wait", "gone"}]
    /\ \A t \in Loops : Alive(t) => t = handle

LEMMA HandleInit == AlertsInit => HandleInv
BY DEF AlertsInit, HandleInv, Alive

\* A step of a thread leaves it alive or not; no other comes to life.
LEMMA ThreadStep ==
    ASSUME HandleInv, NEW t \in Loops, Alive(t), handle' = handle,
           NEW where \in {"check", "pass", "send", "wait", "gone"},
           loop' = [loop EXCEPT ![t] = where] \/ loop' = loop
    PROVE  HandleInv'
BY DEF HandleInv, Alive

LEMMA HandleStep ==
    ASSUME HandleInv, [AlertsNext]_alerts
    PROVE  HandleInv'
<1>1. ASSUME NEW j \in RunIds, NEW cost \in Prices, NEW ok \in BOOLEAN,
             RunEnds(j, cost, ok)
      PROVE  HandleInv'
  BY <1>1 DEF RunEnds, HandleInv, Alive
<1>2. CASE AnHourPasses
  BY <1>2 DEF AnHourPasses, HandleInv, Alive
<1>3. ASSUME NEW t \in Loops, StartLoop(t)
      PROVE  HandleInv'
  <2>1. loop' = [loop EXCEPT ![t] = "check"] /\ handle' = t
    BY <1>3 DEF StartLoop, Goes
  <2>2. \A u \in Loops : ~Alive(u)
    BY <1>3, AlertsAssumption DEF StartLoop, HandleInv
  <2>. QED  BY <2>1, <2>2 DEF HandleInv, Alive
<1>4. CASE StopLoop
  BY <1>4 DEF StopLoop, HandleInv, Alive
<1>5. ASSUME NEW t \in Loops, LoopStep(t)
      PROVE  HandleInv'
  <2>1. CASE CheckFlag(t)
    <3>1. Alive(t) /\ handle' = handle
      BY <2>1 DEF CheckFlag, Alive
    <3>2. \/ loop' = [loop EXCEPT ![t] = "gone"]
          \/ loop' = [loop EXCEPT ![t] = "pass"]
      BY <2>1 DEF CheckFlag, Goes
    <3>. QED  BY <3>1, <3>2, ThreadStep
  <2>2. CASE ComputePass(t)
    <3>1. Alive(t) /\ handle' = handle
      BY <2>2 DEF ComputePass, Alive
    <3>2. \/ loop' = [loop EXCEPT ![t] = "send"]
          \/ loop' = [loop EXCEPT ![t] = "wait"]
      BY <2>2 DEF ComputePass, Goes, AfterCrash
    <3>. QED  BY <3>1, <3>2, ThreadStep
  <2>3. CASE SendAlert(t)
    <3>1. Alive(t) /\ handle' = handle
      BY <2>3 DEF SendAlert, Alive
    <3>2. loop' = [loop EXCEPT ![t] = "wait"] \/ loop' = loop
      BY <2>3 DEF SendAlert, Goes, AfterCrash
    <3>. QED  BY <3>1, <3>2, ThreadStep
  <2>4. CASE Wake(t)
    <3>1. Alive(t) /\ handle' = handle
      BY <2>4 DEF Wake, Alive
    <3>2. loop' = [loop EXCEPT ![t] = "check"]
      BY <2>4 DEF Wake, Goes
    <3>. QED  BY <3>1, <3>2, ThreadStep
  <2>. QED  BY <1>5, <2>1, <2>2, <2>3, <2>4 DEF LoopStep
<1>6. CASE UNCHANGED alerts
  BY <1>6 DEF alerts, HandleInv, Alive
<1>. QED
  BY <1>1, <1>2, <1>3, <1>4, <1>5, <1>6 DEF AlertsNext

LEMMA OneHandleOneLoop == HandleInv => OneLoop
<1>. SUFFICES ASSUME HandleInv
              PROVE  Cardinality({t \in Loops : Alive(t)}) <= 1
  BY DEF OneLoop
<1>1. {t \in Loops : Alive(t)} \subseteq {handle}
  BY DEF HandleInv
<1>2. IsFiniteSet({handle}) /\ Cardinality({handle}) = 1
  BY FS_Singleton
<1>. QED  BY <1>1, <1>2, FS_Subset

\* start, whatever calls of stop() timed out before: two passes never run at
\* a time, for any number of threads started.
THEOREM OneLoopTheorem == AlertsSpec => []OneLoop
<1>1. HandleInv /\ [AlertsNext]_alerts => HandleInv'
  BY HandleStep
<1>. QED
  BY HandleInit, <1>1, OneHandleOneLoop, PTL DEF AlertsSpec

-----------------------------------------------------------------------------
(* The arithmetic of Alerts: sums over the runs, by induction on how many  *)
(* there are, then the bound on the noise.                                 *)

\* Induction takes the form of a least counterexample.
Smaller == {ss \in Nat \X Nat : ss[1] < ss[2]}

LEMMA LeastOf ==
    ASSUME NEW I, I \subseteq Nat, I # {}
    PROVE  \E x \in I : \A y \in I : x <= y
<1>1. OpToRel(<, Nat) = Smaller
  BY Zenon DEF OpToRel, Smaller
<1>2. IsWellFoundedOn(Smaller, Nat)
  BY <1>1, NatLessThanWellFounded, Zenon
<1>3. PICK x \in I : \A y \in I : ~ (<<y, x>> \in Smaller)
  BY <1>2, WFMin
<1>4. \A y \in I : x <= y
  <2>. SUFFICES ASSUME NEW y \in I, y < x
                PROVE  FALSE
    OBVIOUS
  <2>1. <<y, x>> \in Nat \X Nat
    OBVIOUS
  <2>. QED  BY <1>3, <2>1 DEF Smaller
<1>. QED  BY <1>4

\* The equation of MapThenSumSet, for the costs w of the runs in S.
First(s) == CHOOSE x \in s : TRUE

Folds(w, S, g) ==
    g = [s \in SUBSET S |->
            IF s = {} THEN 0 ELSE w[First(s)] + g[s \ {First(s)}]]

\* The same for the subsets of at most n runs.
Small(S, n) == {s \in SUBSET S : Cardinality(s) <= n}

FoldsUpTo(w, S, n, g) ==
    g = [s \in Small(S, n) |->
            IF s = {} THEN 0 ELSE w[First(s)] + g[s \ {First(s)}]]

LEMMA FoldGrows ==
    ASSUME NEW S, IsFiniteSet(S), NEW w, NEW n \in Nat, NEW g, FoldsUpTo(w, S, n, g)
    PROVE  \E h : FoldsUpTo(w, S, n + 1, h)
<1>. DEFINE h == [s \in Small(S, n + 1) |->
                    IF s = {} THEN 0 ELSE w[First(s)] + g[s \ {First(s)}]]
<1>1. \A s \in Small(S, n + 1) :
        /\ IsFiniteSet(s) /\ s \in SUBSET S /\ Cardinality(s) \in Nat
        /\ Cardinality(s) <= n + 1
  BY FS_Subset, FS_CardinalityType DEF Small
<1>2. \A s \in Small(S, n + 1) : s # {} => s \ {First(s)} \in Small(S, n)
  <2>. SUFFICES ASSUME NEW s \in Small(S, n + 1), s # {}
                PROVE  s \ {First(s)} \in Small(S, n)
    OBVIOUS
  <2>1. First(s) \in s
    BY DEF First
  <2>2. Cardinality(s \ {First(s)}) = Cardinality(s) - 1
    BY <1>1, <2>1, FS_RemoveElement
  <2>3. Cardinality(s \ {First(s)}) <= n
    BY <1>1, <2>2
  <2>. QED  BY <1>1, <2>3 DEF Small
<1>3. \A s \in Small(S, n) : s \in Small(S, n + 1) /\ h[s] = g[s]
  <2>. SUFFICES ASSUME NEW s \in Small(S, n)
                PROVE  s \in Small(S, n + 1) /\ h[s] = g[s]
    OBVIOUS
  <2>1. s \in SUBSET S /\ Cardinality(s) <= n /\ Cardinality(s) \in Nat
    BY FS_Subset, FS_CardinalityType DEF Small
  <2>2. s \in Small(S, n + 1)
    BY <2>1 DEF Small
  <2>3. g[s] = IF s = {} THEN 0 ELSE w[First(s)] + g[s \ {First(s)}]
    BY DEF FoldsUpTo
  <2>. QED  BY <2>2, <2>3
<1>4. h = [s \in Small(S, n + 1) |->
             IF s = {} THEN 0 ELSE w[First(s)] + h[s \ {First(s)}]]
  BY <1>2, <1>3
<1>. QED  BY <1>4 DEF FoldsUpTo

LEMMA FoldExists ==
    ASSUME NEW S, IsFiniteSet(S), NEW w
    PROVE  \E g : Folds(w, S, g)
<1>. DEFINE None == {n \in Nat : ~ \E g : FoldsUpTo(w, S, n, g)}
<1>1. None = {}
  <2>. SUFFICES ASSUME None # {}
                PROVE  FALSE
    OBVIOUS
  <2>1. PICK n \in None : \A k \in None : n <= k
    BY LeastOf
  <2>2. CASE n = 0
    <3>1. \A s \in Small(S, 0) : s = {}
      <4>. SUFFICES ASSUME NEW s \in Small(S, 0)
                    PROVE  s = {}
        OBVIOUS
      <4>1. IsFiniteSet(s) /\ Cardinality(s) \in Nat /\ Cardinality(s) <= 0
        BY FS_Subset, FS_CardinalityType DEF Small
      <4>2. Cardinality(s) = 0
        BY <4>1
      <4>. QED  BY <4>1, <4>2, FS_EmptySet
    <3>. DEFINE g == [s \in Small(S, 0) |-> 0]
    <3>2. g = [s \in Small(S, 0) |->
                 IF s = {} THEN 0 ELSE w[First(s)] + g[s \ {First(s)}]]
      BY <3>1
    <3>3. FoldsUpTo(w, S, 0, g)
      BY <3>2 DEF FoldsUpTo
    <3>. QED  BY <2>2, <3>3
  <2>3. CASE n # 0
    <3>1. n \in Nat /\ n - 1 \in Nat /\ (n - 1) + 1 = n /\ ~ (n <= n - 1)
      BY <2>3
    <3>2. n - 1 \notin None
      BY <2>1, <3>1
    <3>3. PICK g : FoldsUpTo(w, S, n - 1, g)
      BY <3>1, <3>2
    <3>4. \E h : FoldsUpTo(w, S, (n - 1) + 1, h)
      BY <3>1, <3>3, FoldGrows
    <3>. QED  BY <3>1, <3>4
  <2>. QED  BY <2>2, <2>3
<1>2. Cardinality(S) \in Nat /\ SUBSET S = Small(S, Cardinality(S))
  BY FS_Subset, FS_CardinalityType DEF Small
<1>3. PICK g : FoldsUpTo(w, S, Cardinality(S), g)
  BY <1>1, <1>2
<1>. QED  BY <1>2, <1>3 DEF Folds, FoldsUpTo

LEMMA TotalFolds ==
    ASSUME NEW S, IsFiniteSet(S)
    PROVE  \E g : Folds([j \in S |-> Cost(j)], S, g) /\ Total(S) = g[S]
<1>. DEFINE w == [j \in S |-> Cost(j)]
            Iter(g) == g = [s \in SUBSET S |->
                              IF s = {} THEN 0
                              ELSE Cost(CHOOSE x \in s : TRUE)
                                     + g[s \ {CHOOSE x \in s : TRUE}]]
            h == CHOOSE g : Iter(g)
<1>1. Total(S) = h[S]
  BY DEF Total, MapThenSumSet, MapThenFoldSet
<1>2. \A g : Iter(g) <=> Folds(w, S, g)
  <2>1. \A s \in SUBSET S : s # {} => Cost(CHOOSE x \in s : TRUE) = w[First(s)]
    BY DEF First
  <2>2. ASSUME NEW g
        PROVE  [s \in SUBSET S |->
                  IF s = {} THEN 0
                  ELSE Cost(CHOOSE x \in s : TRUE) + g[s \ {CHOOSE x \in s : TRUE}]]
               = [s \in SUBSET S |->
                    IF s = {} THEN 0 ELSE w[First(s)] + g[s \ {First(s)}]]
    <3>. HIDE DEF w
    <3>. QED  BY <2>1 DEF First
  <2>. QED  BY <2>2 DEF Folds
<1>3. Iter(h)
  <2>. HIDE DEF w, Iter
  <2>1. PICK g : Folds(w, S, g)
    BY FoldExists
  <2>2. Iter(g)
    BY <1>2, <2>1
  <2>. QED  BY <2>2
<1>4. Folds(w, S, h)
  <2>. HIDE DEF w, h
  <2>. QED  BY <1>2, <1>3
<1>. QED  BY <1>1, <1>4

LEMMA SquaresFold ==
    ASSUME NEW S, IsFiniteSet(S)
    PROVE  \E g : Folds([j \in S |-> Cost(j) * Cost(j)], S, g) /\ Squares(S) = g[S]
<1>. DEFINE w == [j \in S |-> Cost(j) * Cost(j)]
            Iter(g) == g = [s \in SUBSET S |->
                              IF s = {} THEN 0
                              ELSE Cost(CHOOSE x \in s : TRUE)
                                     * Cost(CHOOSE x \in s : TRUE)
                                     + g[s \ {CHOOSE x \in s : TRUE}]]
            h == CHOOSE g : Iter(g)
<1>1. Squares(S) = h[S]
  BY DEF Squares, MapThenSumSet, MapThenFoldSet
<1>2. \A g : Iter(g) <=> Folds(w, S, g)
  <2>1. \A s \in SUBSET S :
          s # {} => Cost(CHOOSE x \in s : TRUE) * Cost(CHOOSE x \in s : TRUE) = w[First(s)]
    BY DEF First
  <2>2. ASSUME NEW g
        PROVE  [s \in SUBSET S |->
                  IF s = {} THEN 0
                  ELSE Cost(CHOOSE x \in s : TRUE) * Cost(CHOOSE x \in s : TRUE)
                         + g[s \ {CHOOSE x \in s : TRUE}]]
               = [s \in SUBSET S |->
                    IF s = {} THEN 0 ELSE w[First(s)] + g[s \ {First(s)}]]
    <3>. HIDE DEF w
    <3>. QED  BY <2>1 DEF First
  <2>. QED  BY <2>2 DEF Folds
<1>3. Iter(h)
  <2>. HIDE DEF w, Iter
  <2>1. PICK g : Folds(w, S, g)
    BY FoldExists
  <2>2. Iter(g)
    BY <1>2, <2>1
  <2>. QED  BY <2>2
<1>4. Folds(w, S, h)
  <2>. HIDE DEF w, h
  <2>. QED  BY <1>2, <1>3
<1>. QED  BY <1>1, <1>4

\* One more run x, with the costs of the others summed to t and q.
LEMMA OneMoreSquare ==
    ASSUME NEW a \in Int, NEW b \in Int, NEW c \in Int, NEW t \in Int, NEW q \in Int,
           NEW m \in Int
    PROVE  a * a * (c * c + q) + 2 * a * b * (c + t) + (m + 1) * b * b
             = (a * a * q + 2 * a * b * t + m * b * b) + (a * c + b) * (a * c + b)
OBVIOUS

LEMMA SquareIsNat == \A x \in Int : x * x >= 0
OBVIOUS

LEMMA SquaresAbove ==
    ASSUME NEW S, IsFiniteSet(S), \A j \in S : Cost(j) \in Nat,
           NEW R \in SUBSET S, NEW a \in Int, NEW b \in Int, NEW v \in Nat,
           \A j \in R : v <= (a * Cost(j) + b) * (a * Cost(j) + b)
    PROVE  /\ Total(S) \in Int /\ Squares(S) \in Int
           /\ Cardinality(R) * v
                <= a * a * Squares(S) + 2 * a * b * Total(S) + Cardinality(S) * b * b
<1>. DEFINE c == [j \in S |-> Cost(j)]
            d == [j \in S |-> Cost(j) * Cost(j)]
<1>1. PICK t : Folds(c, S, t) /\ Total(S) = t[S]
  BY TotalFolds
<1>2. PICK q : Folds(d, S, q) /\ Squares(S) = q[S]
  BY SquaresFold
<1>3. \A j \in S : c[j] \in Int /\ d[j] = c[j] * c[j]
  OBVIOUS
<1>4. \A j \in R : v <= (a * c[j] + b) * (a * c[j] + b)
  OBVIOUS
<1>. HIDE DEF c, d
<1>. DEFINE Holds(s) ==
              /\ t[s] \in Int /\ q[s] \in Int
              /\ Cardinality(s \cap R) * v
                   <= a * a * q[s] + 2 * a * b * t[s] + Cardinality(s) * b * b
            Sizes == {Cardinality(s) : s \in {s \in SUBSET S : ~Holds(s)}}
<1>5. \A s \in SUBSET S : /\ IsFiniteSet(s) /\ Cardinality(s) \in Nat
                          /\ IsFiniteSet(s \cap R) /\ Cardinality(s \cap R) \in Nat
  BY FS_Subset, FS_CardinalityType
<1>6. \A s \in SUBSET S : t[s] = IF s = {} THEN 0 ELSE c[First(s)] + t[s \ {First(s)}]
  BY <1>1 DEF Folds
<1>7. \A s \in SUBSET S : q[s] = IF s = {} THEN 0 ELSE d[First(s)] + q[s \ {First(s)}]
  BY <1>2 DEF Folds
<1>8. Holds({})
  <2>1. t[{}] = 0 /\ q[{}] = 0
    BY <1>6, <1>7
  <2>2. Cardinality({}) = 0 /\ {} \cap R = {}
    BY FS_EmptySet
  <2>3. 0 * v <= a * a * 0 + 2 * a * b * 0 + 0 * b * b
    OBVIOUS
  <2>. QED  BY <2>1, <2>2, <2>3
<1>9. ASSUME NEW s \in SUBSET S, s # {}, Holds(s \ {First(s)})
      PROVE  Holds(s)
  <2>. DEFINE x == First(s)
              r == s \ {x}
              k == Cardinality(r \cap R)
              m == Cardinality(r)
              y == c[x]
  <2>1. x \in s /\ x \in S /\ r \in SUBSET S /\ y \in Int
    BY <1>3, <1>9 DEF First
  <2>2. k \in Nat /\ m \in Nat
    BY <1>5, <2>1
  <2>3. t[s] = y + t[r] /\ q[s] = y * y + q[r]
    BY <1>3, <1>6, <1>7, <1>9, <2>1
  <2>4. t[r] \in Int /\ q[r] \in Int
        /\ k * v <= a * a * q[r] + 2 * a * b * t[r] + m * b * b
    BY <1>9
  <2>5. Cardinality(s) = m + 1
    <3>1. m = Cardinality(s) - 1
      BY <1>5, <2>1, FS_RemoveElement
    <3>2. Cardinality(s) \in Nat
      BY <1>5
    <3>. HIDE DEF m
    <3>. QED  BY <2>2, <3>1, <3>2
  <2>6. /\ Cardinality(s \cap R) * v <= k * v + (a * y + b) * (a * y + b)
        /\ Cardinality(s \cap R) * v \in Int
    <3>1. CASE x \in R
      <4>1. s \cap R = (r \cap R) \cup {x} /\ x \notin r \cap R
        BY <2>1, <3>1
      <4>2. Cardinality(s \cap R) = k + 1
        BY <1>5, <2>1, <4>1, FS_AddElement
      <4>3. v <= (a * y + b) * (a * y + b)
        BY <1>4, <3>1
      <4>. HIDE DEF k, y
      <4>. QED  BY <2>1, <2>2, <4>2, <4>3
    <3>2. CASE x \notin R
      <4>1. s \cap R = r \cap R
        BY <3>2
      <4>2. (a * y + b) * (a * y + b) >= 0
        <5>1. a * y + b \in Int
          BY <2>1
        <5>. QED  BY <5>1, SquareIsNat
      <4>. HIDE DEF y
      <4>3. Cardinality(s \cap R) = k
        BY <4>1
      <4>. HIDE DEF k
      <4>. QED  BY <2>1, <2>2, <4>2, <4>3
    <3>. QED  BY <3>1, <3>2
  <2>. HIDE DEF y, k, m, r, x
  <2>7. a * a * (y * y + q[r]) + 2 * a * b * (y + t[r]) + (m + 1) * b * b
          = (a * a * q[r] + 2 * a * b * t[r] + m * b * b) + (a * y + b) * (a * y + b)
    BY <2>1, <2>2, <2>4, OneMoreSquare
  <2>8. t[s] \in Int /\ q[s] \in Int
    BY <2>1, <2>3, <2>4
  <2>9. k * v \in Int /\ a * a * q[r] + 2 * a * b * t[r] + m * b * b \in Int
        /\ (a * y + b) * (a * y + b) \in Int
    BY <2>1, <2>2, <2>4
  <2>. DEFINE u == (a * y + b) * (a * y + b)
              z == a * a * q[r] + 2 * a * b * t[r] + m * b * b
              kv == k * v
              o == Cardinality(s \cap R) * v
  <2>10. o <= z + u
    <3>1. o <= kv + u /\ kv <= z /\ o \in Int /\ kv \in Int /\ z \in Int /\ u \in Int
      BY <2>4, <2>6, <2>9
    <3>. HIDE DEF o, kv, z, u
    <3>. QED  BY <3>1
  <2>11. z + u = a * a * q[s] + 2 * a * b * t[s] + Cardinality(s) * b * b
    BY <2>3, <2>5, <2>7
  <2>. QED  BY <2>8, <2>10, <2>11
<1>. HIDE DEF Holds
<1>10. \A s \in SUBSET S : Holds(s)
  <2>. SUFFICES ASSUME Sizes # {}
                PROVE  FALSE
    OBVIOUS
  <2>1. Sizes \subseteq Nat
    BY <1>5
  <2>2. PICK n \in Sizes : \A k \in Sizes : n <= k
    BY <2>1, LeastOf
  <2>3. PICK s \in SUBSET S : ~Holds(s) /\ n = Cardinality(s)
    BY <2>2
  <2>4. s # {}
    BY <1>8, <2>3
  <2>5. First(s) \in s
    BY <2>4 DEF First
  <2>6. Cardinality(s \ {First(s)}) = n - 1 /\ n \in Nat
    BY <1>5, <2>3, <2>5, FS_RemoveElement
  <2>7. s \ {First(s)} \in SUBSET S /\ ~ (n <= n - 1)
    BY <2>6
  <2>8. Holds(s \ {First(s)})
    BY <2>2, <2>6, <2>7
  <2>. QED  BY <1>9, <2>3, <2>4, <2>8
<1>11. S \cap R = R /\ S \in SUBSET S
  OBVIOUS
<1>12. Holds(S)
  BY <1>10, <1>11
<1>. QED  BY <1>1, <1>2, <1>11, <1>12 DEF Holds

\* n runs, their costs summed to t and squared to q; the distance m of one of
\* them from the mean is the least of the k runs that stand out.
LEMMA SpreadOfSquares ==
    ASSUME NEW n \in Int, NEW t \in Int, NEW q \in Int, NEW m \in Int, NEW v \in Int,
           v = n * q - t * t
    PROVE  (m * n) * (m * n) * q + 2 * (m * n) * (v - m * t) * t
               + n * (v - m * t) * (v - m * t)
             = (n * v) * (m * m + v)
OBVIOUS

LEMMA SpreadItself ==
    ASSUME NEW n \in Int, NEW t \in Int, NEW q \in Int
    PROVE  n * n * q + 2 * n * (0 - t) * t + n * (0 - t) * (0 - t) = n * (n * q - t * t)
OBVIOUS

LEMMA CancelFactor ==
    ASSUME NEW a \in Int, NEW b \in Int, NEW p \in Int, p > 0, a * p <= b * p
    PROVE  a <= b
<1>1. CASE a > b
  <2>. DEFINE e == a - b
  <2>1. e \in Int /\ e > 0 /\ e * p <= 0
    BY <1>1
  <2>. HIDE DEF e
  <2>2. e * p > 0
    BY <2>1
  <2>. QED  BY <2>1, <2>2
<1>. QED  BY <1>1

LEMMA FewStandOut ==
    ASSUME NEW n \in Nat, NEW k \in Nat, NEW m \in Nat, NEW v \in Nat, NEW s \in Nat,
           v > 0, s * v <= m * m, k * ((m * m + v) * (m * m + v)) <= (n * v) * (m * m + v)
    PROVE  k * (1 + s) <= n
<1>. DEFINE w == m * m + v
<1>1. w \in Int /\ w > 0 /\ (1 + s) * v <= w
  <2>1. m * m >= 0 /\ m * m \in Int
    OBVIOUS
  <2>2. (1 + s) * v = v + s * v /\ s * v \in Int
    OBVIOUS
  <2>. QED  BY <2>1, <2>2
<1>. HIDE DEF w
<1>2. (k * w) * w <= (n * v) * w
  <2>1. k * (w * w) <= (n * v) * w
    BY DEF w
  <2>2. k * (w * w) = (k * w) * w
    BY <1>1
  <2>. QED  BY <2>1, <2>2
<1>3. k * w <= n * v
  <2>1. k * w \in Int /\ n * v \in Int
    BY <1>1
  <2>. DEFINE a == k * w
              b == n * v
  <2>. HIDE DEF a, b
  <2>2. a \in Int /\ b \in Int /\ a * w <= b * w
    BY <1>2, <2>1 DEF a, b
  <2>3. a <= b
    BY <1>1, <2>2, CancelFactor
  <2>. QED  BY <2>3 DEF a, b
<1>4. k * ((1 + s) * v) <= k * w
  <2>. DEFINE y == (1 + s) * v
  <2>1. y \in Int /\ y <= w
    BY <1>1
  <2>. HIDE DEF y
  <2>2. k * y <= k * w
    BY <1>1, <2>1
  <2>. QED  BY <2>2 DEF y
<1>5. (k * (1 + s)) * v <= n * v
  <2>1. (k * (1 + s)) * v = k * ((1 + s) * v)
    OBVIOUS
  <2>2. k * ((1 + s) * v) \in Int /\ k * w \in Int /\ n * v \in Int
    BY <1>1
  <2>. QED  BY <1>3, <1>4, <2>1, <2>2
<1>6. k * (1 + s) \in Int
  OBVIOUS
<1>. QED  BY <1>5, <1>6, CancelFactor

LEMMA NoiseIsBounded ==
    ASSUME NEW B, IsFiniteSet(B), B = Baseline, \A j \in B : Cost(j) \in Nat
    PROVE  NoiseBounded
<1>. DEFINE n == Cardinality(B)
            t == Total(B)
            q == Squares(B)
            v == n * q - t * t
            R == Regressions
            k == Cardinality(R)
<1>1. R \in SUBSET B /\ n \in Nat /\ k \in Nat
  <2>1. R \in SUBSET B
    BY DEF Regressions, Baseline
  <2>. QED  BY <2>1, FS_Subset, FS_CardinalityType
<1>2. Sigma \in Nat /\ Sigma * Sigma \in Nat
  BY AlertsAssumption
<1>3. CASE R = {}
  <2>1. k = 0
    BY <1>3, FS_EmptySet
  <2>2. k * (1 + Sigma * Sigma) <= n
    BY <1>1, <1>2, <2>1
  <2>. QED  BY <2>2 DEF NoiseBounded
<1>4. CASE R # {}
  <2>1. {Cost(j) : j \in R} \subseteq Nat /\ {Cost(j) : j \in R} # {}
    BY <1>1, <1>4
  <2>2. PICK y \in {Cost(j) : j \in R} : \A z \in {Cost(j) : j \in R} : y <= z
    BY <2>1, LeastOf
  <2>3. PICK r \in R : y = Cost(r)
    BY <2>2
  <2>4. \A j \in R : Cost(r) <= Cost(j) /\ Cost(j) \in Nat
    BY <1>1, <2>2, <2>3
  <2>. DEFINE m == n * Cost(r) - t
  \* A set of no runs gives the types, one of one run the sign of the spread.
  <2>5. t \in Int /\ q \in Int /\ v \in Int
    <3>1. t \in Int /\ q \in Int
      <4>. DEFINE z == 0
      <4>1. z \in Int /\ z \in Nat /\ {} \in SUBSET B
        OBVIOUS
      <4>2. \A j \in {} : z <= (z * Cost(j) + z) * (z * Cost(j) + z)
        OBVIOUS
      <4>. HIDE DEF z
      <4>. QED  BY <4>1, <4>2, SquaresAbove
    <3>. HIDE DEF t, q, n
    <3>. QED  BY <1>1, <3>1
  <2>6. m > 0 /\ Sigma * Sigma * v <= m * m /\ m \in Nat
    <3>1. Above(r) = m /\ Spread = v
      BY DEF Above, Spread
    <3>2. IsAbove(r)
      BY <2>3 DEF Regressions
    <3>3. m > 0 /\ m * m >= Sigma * Sigma * v
      BY <3>1, <3>2 DEF IsAbove
    <3>4. m \in Int
      <4>1. Cost(r) \in Nat
        BY <2>4
      <4>. HIDE DEF t, n
      <4>. QED  BY <1>1, <2>5, <4>1
    <3>5. Sigma * Sigma * v \in Int
      <4>. HIDE DEF v
      <4>. QED  BY <1>2, <2>5
    <3>. HIDE DEF m, v
    <3>. QED  BY <3>3, <3>4, <3>5
  <2>7. v > 0
    <3>1. Cardinality({r}) = 1 /\ {r} \in SUBSET B
      BY <1>1, <2>3, FS_Singleton
    <3>2. m * m \in Nat /\ m * m > 0 /\ 0 - t \in Int
      <4>. HIDE DEF m, t
      <4>. QED  BY <2>5, <2>6
    <3>3. \A j \in {r} : m * m <= (n * Cost(j) + (0 - t)) * (n * Cost(j) + (0 - t))
      <4>1. n * Cost(r) + (0 - t) = m
        <5>1. Cost(r) \in Nat
          BY <2>4
        <5>. HIDE DEF t, n
        <5>. QED  BY <1>1, <2>5, <5>1
      <4>2. m * m <= m * m
        <5>. HIDE DEF m
        <5>. QED  BY <2>6
      <4>. QED  BY <4>1, <4>2
    <3>4. 1 * (m * m) <= n * n * q + 2 * n * (0 - t) * t + n * (0 - t) * (0 - t)
      <4>. DEFINE mm == m * m
                  nt == 0 - t
      <4>1. mm \in Nat /\ nt \in Int /\ n \in Int
        BY <1>1, <3>2
      <4>2. \A j \in {r} : mm <= (n * Cost(j) + nt) * (n * Cost(j) + nt)
        BY <3>3
      <4>. HIDE DEF mm, nt, n
      <4>3. Cardinality({r}) * mm
              <= n * n * Squares(B) + 2 * n * nt * Total(B) + Cardinality(B) * nt * nt
        BY <3>1, <4>1, <4>2, SquaresAbove
      <4>. QED  BY <3>1, <4>3 DEF mm, nt, n
    <3>5. n * n * q + 2 * n * (0 - t) * t + n * (0 - t) * (0 - t) = n * v
      <4>. HIDE DEF n, t, q
      <4>. QED  BY <1>1, <2>5, SpreadItself
    <3>6. n * v > 0
      <4>1. m * m <= n * v
        <5>1. 1 * (m * m) <= n * v
          BY <3>4, <3>5
        <5>. HIDE DEF m, n, v
        <5>. QED  BY <3>2, <5>1
      <4>. HIDE DEF m, n, v
      <4>. QED  BY <1>1, <2>5, <3>2, <4>1
    <3>. HIDE DEF n, v
    <3>. QED  BY <1>1, <2>5, <3>6
  <2>. DEFINE w == m * m + v
              a == m * n
              b == v - m * t
  <2>8. w \in Nat /\ w * w \in Nat /\ a \in Int /\ b \in Int
    <3>. HIDE DEF m, v, n, t
    <3>1. m * m >= 0 /\ m * m \in Int
      BY <2>6
    <3>2. w \in Nat
      BY <2>5, <2>7, <3>1
    <3>3. a \in Int /\ b \in Int
      BY <1>1, <2>5, <2>6
    <3>4. w * w >= 0
      BY <3>2
    <3>. QED  BY <3>2, <3>3, <3>4
  <2>9. ASSUME NEW j \in R
        PROVE  w * w <= (a * Cost(j) + b) * (a * Cost(j) + b)
    <3>. DEFINE d == n * Cost(j) - t
    <3>1. d \in Int /\ m <= d
      <4>1. Cost(r) \in Nat /\ Cost(j) \in Nat /\ Cost(r) <= Cost(j)
        BY <2>4
      <4>. DEFINE cr == Cost(r)
                  cj == Cost(j)
      <4>. HIDE DEF n, t, cr, cj
      <4>2. cr \in Nat /\ cj \in Nat /\ cr <= cj
        BY <4>1 DEF cr, cj
      <4>3. n * cr <= n * cj /\ n * cr \in Int /\ n * cj \in Int
        BY <1>1, <4>2
      <4>4. n * cj - t \in Int /\ n * cr - t <= n * cj - t
        BY <2>5, <4>3
      <4>. QED  BY <4>4 DEF cr, cj
    <3>2. a * Cost(j) + b = m * d + v
      <4>1. Cost(j) \in Nat
        BY <2>4
      <4>. HIDE DEF m, v, n, t
      <4>. QED  BY <1>1, <2>5, <2>6, <4>1
    <3>3. w <= m * d + v /\ m * d + v \in Int
      <4>. HIDE DEF m, v, d
      <4>1. m * m <= m * d /\ m * d \in Int /\ m * m \in Int
        BY <2>6, <3>1
      <4>. QED  BY <2>5, <4>1
    <3>. DEFINE u == m * d + v
    <3>4. w * w <= u * u
      <4>1. w \in Nat /\ u \in Int /\ w <= u
        BY <2>8, <3>3
      <4>. HIDE DEF w, u
      <4>2. w * w <= w * u /\ w * u <= u * u
        BY <4>1
      <4>3. w * w \in Int /\ w * u \in Int /\ u * u \in Int
        BY <4>1
      <4>. QED  BY <4>2, <4>3
    <3>. QED  BY <3>2, <3>4
  <2>10. k * (w * w) <= a * a * q + 2 * a * b * t + n * b * b
    <3>. DEFINE ww == w * w
    <3>1. ww \in Nat /\ \A j \in R : ww <= (a * Cost(j) + b) * (a * Cost(j) + b)
      BY <2>8, <2>9
    <3>. HIDE DEF ww, a, b, R
    <3>. QED  BY <1>1, <2>8, <3>1, SquaresAbove DEF ww
  <2>11. a * a * q + 2 * a * b * t + n * b * b = (n * v) * (m * m + v)
    <3>1. v = n * q - t * t
      OBVIOUS
    <3>. HIDE DEF m, v, n, t, q
    <3>. QED  BY <1>1, <2>5, <2>6, <3>1, SpreadOfSquares
  <2>12. k * (1 + Sigma * Sigma) <= n
    <3>1. k * ((m * m + v) * (m * m + v)) <= (n * v) * (m * m + v)
      BY <2>10, <2>11
    <3>2. v \in Nat
      <4>. HIDE DEF v
      <4>. QED  BY <2>5, <2>7
    <3>. DEFINE s == Sigma * Sigma
    <3>3. s \in Nat /\ s * v <= m * m
      BY <1>2, <2>6
    <3>. HIDE DEF m, v, n, k, s
    <3>4. k * (1 + s) <= n
      BY <1>1, <2>6, <2>7, <3>1, <3>2, <3>3, FewStandOut
    <3>. QED  BY <3>4 DEF s
  <2>. QED  BY <2>12 DEF NoiseBounded
<1>. QED  BY <1>3, <1>4

RanInv ==
    /\ hours \in Nat
    /\ ran \in [RunIds -> [cost : Nat, ok : BOOLEAN, at : Int]]

LEMMA RanStep == RanInv /\ [AlertsNext]_alerts => RanInv'
<1>. SUFFICES ASSUME RanInv, [AlertsNext]_alerts
              PROVE  RanInv'
  OBVIOUS
<1>1. ASSUME NEW j \in RunIds, NEW cost \in Prices, NEW ok \in BOOLEAN,
             RunEnds(j, cost, ok)
      PROVE  RanInv'
  <2>1. cost \in Nat /\ hours \in Int
    BY AlertsAssumption DEF RanInv
  <2>. DEFINE row == [cost |-> cost, ok |-> ok, at |-> hours]
  <2>2. row \in [cost : Nat, ok : BOOLEAN, at : Int]
    BY <2>1
  <2>3. ran' = [ran EXCEPT ![j] = row] /\ hours' = hours
    BY <1>1 DEF RunEnds
  <2>. HIDE DEF row
  <2>. QED  BY <2>2, <2>3 DEF RanInv
<1>2. CASE AnHourPasses
  BY <1>2 DEF AnHourPasses, RanInv
<1>3. ASSUME NEW t \in Loops, StartLoop(t) \/ LoopStep(t)
      PROVE  RanInv'
  BY <1>3 DEF StartLoop, LoopStep, CheckFlag, ComputePass, SendAlert, Wake, RanInv
<1>4. CASE StopLoop
  BY <1>4 DEF StopLoop, RanInv
<1>5. CASE UNCHANGED alerts
  BY <1>5 DEF alerts, RanInv
<1>. QED
  BY <1>1, <1>2, <1>3, <1>4, <1>5 DEF AlertsNext

\* compute_cost_regression_alerts: of an org's runs at most one in 1 + sigma^2
\* is a regression, whatever the runs cost and however many there are.
THEOREM NoiseStaysBounded == AlertsSpec => []NoiseBounded
<1>1. AlertsInit => RanInv
  BY DEF AlertsInit, RanInv, NotRun
<1>2. RanInv => NoiseBounded
  <2>. SUFFICES ASSUME RanInv
                PROVE  NoiseBounded
    OBVIOUS
  <2>1. Baseline \subseteq RunIds /\ \A j \in RunIds : Cost(j) \in Nat
    BY DEF RanInv, Baseline, Finished, Cost
  <2>2. IsFiniteSet(RunIds)
    <3>1. 1 \in Int /\ NumRuns \in Int
      BY AlertsAssumption
    <3>. QED  BY <3>1, FS_Interval DEF RunIds
  <2>3. IsFiniteSet(Baseline)
    BY <2>1, <2>2, FS_Subset
  <2>. QED  BY <2>1, <2>3, NoiseIsBounded
<1>. QED
  BY <1>1, <1>2, RanStep, PTL DEF AlertsSpec

-----------------------------------------------------------------------------
(* InstallTokens.                                                          *)

PostSteps == {"idle", "look", "mint", "store", "call"}

TokenInv ==
    /\ hour \in Nat /\ cached \in Nat
    /\ post \in [Posters -> [step : PostSteps, at : Nat, expires : Nat]]
    /\ \A p \in Posters :
        /\ post[p].at <= hour
        /\ post[p].step \in {"store", "call"}
            => post[p].expires > post[p].at + Buffer

LEMMA TokenInitInv == TokenInit => TokenInv
BY TokenAssumption DEF TokenInit, TokenInv, Idle, PostSteps

\* A fresh look-up and a new token both give what TokenInv asks; an older
\* answer that replaces a newer one changes nothing for those that hold it.
LEMMA TokenStep ==
    ASSUME TokenInv, [TokenNext]_tokenVars
    PROVE  TokenInv'
<1>. USE TokenAssumption DEF TokenInv, PostSteps
<1>1. CASE HourPasses
  BY <1>1 DEF HourPasses
<1>2. ASSUME NEW p \in Posters, StartPost(p)
      PROVE  TokenInv'
  BY <1>2 DEF StartPost
<1>3. ASSUME NEW p \in Posters, LookUp(p)
      PROVE  TokenInv'
  <2>1. CASE Fresh(cached, post[p].at)
    <3>1. cached > post[p].at + Buffer
      BY <2>1 DEF Fresh
    <3>. QED  BY <1>3, <2>1, <3>1 DEF LookUp
  <2>2. CASE ~Fresh(cached, post[p].at)
    BY <1>3, <2>2 DEF LookUp
  <2>. QED  BY <2>1, <2>2
<1>4. ASSUME NEW p \in Posters, Mint(p)
      PROVE  TokenInv'
  <2>1. CASE post' = [post EXCEPT ![p] = Idle]
    BY <1>4, <2>1 DEF Mint, Idle
  <2>2. CASE post' = [post EXCEPT ![p].step = "store",
                                  ![p].expires = hour + Lifetime]
    <3>1. hour + Lifetime > post[p].at + Buffer
      OBVIOUS
    <3>. QED  BY <1>4, <2>2, <3>1 DEF Mint
  <2>. QED  BY <1>4, <2>1, <2>2 DEF Mint
<1>5. ASSUME NEW p \in Posters, Store(p)
      PROVE  TokenInv'
  BY <1>5 DEF Store, Stored
<1>6. ASSUME NEW p \in Posters, CallGitHub(p)
      PROVE  TokenInv'
  BY <1>6 DEF CallGitHub, Idle
<1>7. CASE UNCHANGED tokenVars
  BY <1>7 DEF tokenVars
<1>. QED
  BY <1>1, <1>2, <1>3, <1>4, <1>5, <1>6, <1>7 DEF TokenNext

LEMMA InvAuthorises == TokenInv => CallsAuthorised
BY TokenAssumption DEF TokenInv, CallsAuthorised, PostSteps

\* REFRESH_BUFFER: whatever token the threads left in the cache, a call within
\* the buffer of asking for one is made with a token that is still valid.
THEOREM CallsStayAuthorised == TokenSpec => []CallsAuthorised
<1>1. TokenInv /\ [TokenNext]_tokenVars => TokenInv'
  BY TokenStep
<1>. QED
  BY TokenInitInv, <1>1, InvAuthorises, PTL DEF TokenSpec

\* The tokens the App is given while one stays fresh.  A thread that may mint
\* now is worth one token, a thread that holds an older token as many as there
\* are threads: storing it makes every look-up fail again.
Stale(t) == cached < t + Lifetime

MayMint(t) ==
    {p \in Posters :
        post[p].step = "mint" \/ (Stale(t) /\ post[p].step \in {"idle", "look", "call"})}

Outdated(t) == {p \in Posters : post[p].step = "store" /\ post[p].expires < t + Lifetime}

Credit(t) ==
    Cardinality(MayMint(t)) + Cardinality(Posters) * Cardinality(Outdated(t))

MintInv(t) ==
    /\ t <= hour /\ hour < t + Lifetime - Buffer
        => Cardinality(Minted(t)) + Credit(t) <= Cardinality(Posters) * Cardinality(Posters)
    /\ t <= hour
        => Cardinality(Minted(t)) <= Cardinality(Posters) * Cardinality(Posters)

MintTypes ==
    /\ hour \in 0..LastHour
    /\ mints \in [0..LastHour -> Nat]
    /\ \A u \in 0..LastHour : u > hour => mints[u] = 0

LEMMA MintTypesStep ==
    ASSUME TokenInv, MintTypes, [TokenNext]_tokenVars
    PROVE  MintTypes'
<1>. USE TokenAssumption DEF MintTypes
<1>1. CASE HourPasses
  BY <1>1 DEF HourPasses
<1>2. ASSUME NEW p \in Posters, Mint(p)
      PROVE  MintTypes'
  BY <1>2 DEF Mint
<1>3. ASSUME NEW p \in Posters, StartPost(p) \/ LookUp(p) \/ Store(p) \/ CallGitHub(p)
      PROVE  MintTypes'
  BY <1>3 DEF StartPost, LookUp, Store, CallGitHub
<1>4. CASE UNCHANGED tokenVars
  BY <1>4 DEF tokenVars
<1>. QED  BY <1>1, <1>2, <1>3, <1>4 DEF TokenNext

LEMMA PostersCounted ==
    ASSUME NEW ps, ps \subseteq Posters
    PROVE  /\ IsFiniteSet(ps) /\ Cardinality(ps) \in Nat
           /\ Cardinality(ps) <= Cardinality(Posters)
           /\ \A qs \in SUBSET ps : Cardinality(qs) <= Cardinality(ps)
           /\ \A p \in ps : Cardinality(ps \ {p}) + 1 = Cardinality(ps)
<1>1. IsFiniteSet(ps) /\ Cardinality(ps) \in Nat /\ Cardinality(ps) <= Cardinality(Posters)
  BY TokenAssumption, FS_Subset, FS_CardinalityType
<1>2. \A qs \in SUBSET ps : Cardinality(qs) <= Cardinality(ps)
  BY <1>1, FS_Subset
<1>3. ASSUME NEW p \in ps
      PROVE  Cardinality(ps \ {p}) + 1 = Cardinality(ps)
  <2>1. Cardinality(ps \ {p}) = Cardinality(ps) - 1
    BY <1>1, FS_RemoveElement
  <2>. QED  BY <1>1, <2>1
<1>. QED  BY <1>1, <1>2, <1>3

\* One more token is one more, the others stay.
LEMMA MintedCounted ==
    ASSUME MintTypes
    PROVE  \A t \in Nat : IsFiniteSet(Minted(t)) /\ Cardinality(Minted(t)) \in Nat
<1>. SUFFICES ASSUME NEW t \in Nat
              PROVE  IsFiniteSet(Minted(t)) /\ Cardinality(Minted(t)) \in Nat
  OBVIOUS
<1>. DEFINE Of(u) == {u} \X (1..mints[u])
            all == {Of(u) : u \in StillFresh(t)}
<1>1. IsFiniteSet(StillFresh(t))
  <2>1. IsFiniteSet(0..LastHour)
    BY TokenAssumption, FS_Interval
  <2>. QED  BY <2>1, FS_Subset DEF StillFresh
<1>2. IsFiniteSet(all)
  <2>. DEFINE of == [u \in StillFresh(t) |-> Of(u)]
  <2>1. of \in Surjection(StillFresh(t), all)
    BY DEF Surjection
  <2>. HIDE DEF of, all
  <2>. QED  BY <1>1, <2>1, FS_Surjection
<1>3. \A u \in StillFresh(t) : IsFiniteSet(Of(u))
  <2>. SUFFICES ASSUME NEW u \in StillFresh(t)
                PROVE  IsFiniteSet({u} \X (1..mints[u]))
    OBVIOUS
  <2>1. mints[u] \in Nat
    BY DEF MintTypes, StillFresh
  <2>2. IsFiniteSet(1..mints[u])
    <3>1. 1 \in Int /\ mints[u] \in Int
      BY <2>1
    <3>. QED  BY <3>1, FS_Interval
  <2>3. IsFiniteSet({u})
    BY FS_Singleton
  <2>. QED  BY <2>2, <2>3, FS_Product
<1>4. \A s \in all : IsFiniteSet(s)
  BY <1>3
<1>5. IsFiniteSet(UNION all)
  BY <1>2, <1>4, FS_UNION
<1>6. Minted(t) = UNION all
  BY DEF Minted
<1>. QED  BY <1>5, <1>6, FS_CardinalityType

\* A token of this hour is one more for the hours it counts in.
LEMMA MintedGrows ==
    ASSUME MintTypes, NEW t \in Nat, mints' = [mints EXCEPT ![hour] = @ + 1]
    PROVE  /\ hour < t + Lifetime - Buffer => Cardinality(Minted(t)') <= Cardinality(Minted(t)) + 1
           /\ ~(hour < t + Lifetime - Buffer) => Minted(t)' = Minted(t)
           /\ Cardinality(Minted(t)') \in Nat
<1>. DEFINE new == <<hour, mints[hour] + 1>>
<1>1. /\ hour \in 0..LastHour /\ mints[hour] \in Nat /\ mints'[hour] = mints[hour] + 1
      /\ \A u \in 0..LastHour : u # hour => mints'[u] = mints[u]
  BY DEF MintTypes
<1>2. IsFiniteSet(Minted(t)) /\ Cardinality(Minted(t)) \in Nat
  BY MintedCounted
<1>3. CASE hour \in StillFresh(t)
  <2>1. Minted(t)' = Minted(t) \cup {new}
    <3>1. 1..mints'[hour] = (1..mints[hour]) \cup {mints[hour] + 1}
      BY <1>1
    <3>2. {hour} \X (1..mints'[hour]) = ({hour} \X (1..mints[hour])) \cup {new}
      BY <3>1
    <3>3. \A u \in StillFresh(t) \ {hour} : mints'[u] = mints[u]
      BY <1>1 DEF StillFresh
    <3>4. Minted(t)' = UNION {{u} \X (1..mints'[u]) : u \in StillFresh(t)}
      BY DEF Minted, StillFresh
    <3>. QED  BY <1>3, <3>2, <3>3, <3>4 DEF Minted
  <2>2. /\ Cardinality(Minted(t) \cup {new}) <= Cardinality(Minted(t)) + 1
        /\ Cardinality(Minted(t) \cup {new}) \in Nat
    <3>1. CASE new \in Minted(t)
      <4>1. Minted(t) \cup {new} = Minted(t)
        BY <3>1
      <4>2. Cardinality(Minted(t) \cup {new}) = Cardinality(Minted(t))
        BY <4>1, Zenon
      <4>. QED  BY <1>2, <4>2
    <3>2. CASE new \notin Minted(t)
      <4>1. Cardinality(Minted(t) \cup {new}) = Cardinality(Minted(t)) + 1
        BY <1>2, <3>2, FS_AddElement
      <4>. QED  BY <1>2, <4>1
    <3>. QED  BY <3>1, <3>2
  <2>3. ~(~(hour < t + Lifetime - Buffer))
    BY <1>3 DEF StillFresh
  <2>. QED  BY <2>1, <2>2, <2>3
<1>4. CASE hour \notin StillFresh(t)
  <2>1. Minted(t)' = Minted(t)
    BY <1>1, <1>4 DEF Minted, StillFresh
  <2>. QED  BY <1>2, <2>1
<1>. QED  BY <1>3, <1>4

\* Arithmetic of the credit: n threads, b answers worth n tokens each.
LEMMA Weights ==
    ASSUME NEW n \in Nat, NEW a \in Nat, NEW b \in Nat, NEW c \in Nat, NEW d \in Nat
    PROVE  /\ a + n * b \in Nat
           /\ c <= a /\ d <= b => c + n * d <= a + n * b
           /\ c <= n /\ d + 1 = b => c + n * d <= a + n * b
           /\ a + b <= n => a + n * b <= n * n
<1>1. n * b \in Nat /\ n * d \in Nat /\ n * a \in Nat
  OBVIOUS
<1>2. ASSUME d <= b
      PROVE  n * d <= n * b
  <2>1. b - d \in Nat /\ n * (b - d) \in Nat
    BY <1>2
  <2>2. n * b = n * d + n * (b - d)
    BY <2>1
  <2>. QED  BY <1>1, <2>1, <2>2
<1>3. ASSUME d + 1 = b
      PROVE  n * b = n * d + n
  BY <1>3
<1>4. ASSUME a + b <= n
      PROVE  a + n * b <= n * n
  <2>1. CASE n = 0
    BY <1>4, <2>1
  <2>2. CASE n > 0
    <3>1. a <= n * a
      <4>1. n - 1 \in Nat /\ (n - 1) * a \in Nat
        BY <2>2
      <4>2. n * a = a + (n - 1) * a
        BY <4>1
      <4>. QED  BY <1>1, <4>1, <4>2
    <3>2. n - a - b \in Nat /\ n * (n - a - b) \in Nat
      BY <1>4
    <3>3. n * n = n * a + n * b + n * (n - a - b)
      BY <3>2
    <3>. QED  BY <1>1, <3>1, <3>2, <3>3
  <2>. QED  BY <2>1, <2>2
<1>. QED  BY <1>1, <1>2, <1>3, <1>4

\* A thread that may mint holds no answer, so the credit never exceeds what
\* one fresh token is allowed.
LEMMA CreditCounted ==
    ASSUME TokenInv, NEW t \in Nat
    PROVE  /\ Cardinality(MayMint(t)) \in Nat /\ Cardinality(Outdated(t)) \in Nat
           /\ Credit(t) \in Nat
           /\ Credit(t) <= Cardinality(Posters) * Cardinality(Posters)
<1>1. MayMint(t) \subseteq Posters /\ Outdated(t) \subseteq Posters
  BY DEF MayMint, Outdated
<1>2. /\ IsFiniteSet(MayMint(t)) /\ Cardinality(MayMint(t)) \in Nat
      /\ IsFiniteSet(Outdated(t)) /\ Cardinality(Outdated(t)) \in Nat
      /\ Cardinality(Posters) \in Nat
  BY <1>1, PostersCounted
<1>3. Cardinality(MayMint(t)) + Cardinality(Outdated(t)) <= Cardinality(Posters)
  <2>1. MayMint(t) \cap Outdated(t) = {}
    BY DEF MayMint, Outdated
  <2>2. Cardinality(MayMint(t) \cap Outdated(t)) = 0
    BY <2>1, FS_EmptySet
  <2>3. /\ Cardinality(MayMint(t) \cup Outdated(t))
            = Cardinality(MayMint(t)) + Cardinality(Outdated(t))
              - Cardinality(MayMint(t) \cap Outdated(t))
    BY <1>2, FS_Union
  <2>4. Cardinality(MayMint(t) \cup Outdated(t)) <= Cardinality(Posters)
    BY <1>1, PostersCounted
  <2>. QED  BY <1>2, <2>2, <2>3, <2>4
<1>. QED  BY <1>2, <1>3, Weights DEF Credit

\* A step that mints nothing and adds no credit.
LEMMA CreditFalls ==
    ASSUME TokenInv, TokenInv', MintTypes, NEW t \in Nat, MintInv(t),
           hour' = hour, mints' = mints, Credit(t)' <= Credit(t)
    PROVE  MintInv(t)'
<1>1. Minted(t)' = Minted(t)
  BY DEF Minted, StillFresh
<1>2. Cardinality(Minted(t)) \in Nat /\ Cardinality(Posters) \in Nat
  BY MintedCounted, PostersCounted
<1>3. Credit(t) \in Nat /\ Credit(t)' \in Nat
  <2>1. Credit(t) \in Nat
    BY CreditCounted
  <2>2. (TokenInv => Credit(t) \in Nat)'
    BY CreditCounted, PTL
  <2>. QED  BY <2>1, <2>2
<1>4. Cardinality(Posters) * Cardinality(Posters) \in Nat
  BY <1>2
<1>. DEFINE most == Cardinality(Posters) * Cardinality(Posters)
            minted == Cardinality(Minted(t))
<1>5. (Cardinality(Minted(t)))' = minted
  BY <1>1
<1>6. minted + Credit(t) <= most => minted + Credit(t)' <= most
  <2>. HIDE DEF minted, most
  <2>. QED  BY <1>2, <1>3, <1>4 DEF minted, most
<1>. QED  BY <1>5, <1>6 DEF MintInv

LEMMA FirstToken ==
    ASSUME NEW m, NEW credit \in Nat, NEW n \in Nat, m = 0, credit <= n * n
    PROVE  m + credit <= n * n /\ m <= n * n
<1>. DEFINE most == n * n
<1>1. most \in Nat
  OBVIOUS
<1>. HIDE DEF most
<1>2. m + credit <= most /\ m <= most
  BY <1>1 DEF most
<1>. QED  BY <1>2 DEF most

LEMMA NothingMinted ==
    ASSUME MintTypes, NEW t \in Nat, ~(t <= hour)
    PROVE  Minted(t) = {}
<1>1. \A u \in StillFresh(t) : mints[u] = 0
  BY DEF MintTypes, StillFresh
<1>. QED  BY <1>1 DEF Minted

\* The same, from the threads that carry the credit.
LEMMA SmallerCredit ==
    ASSUME TokenInv, TokenInv', MintTypes, NEW t \in Nat, MintInv(t),
           hour' = hour, mints' = mints,
           MayMint(t)' \subseteq MayMint(t), Outdated(t)' \subseteq Outdated(t)
    PROVE  MintInv(t)'
<1>. DEFINE n == Cardinality(Posters)
            a == Cardinality(MayMint(t))
            b == Cardinality(Outdated(t))
            c == Cardinality(MayMint(t)')
            d == Cardinality(Outdated(t)')
<1>1. c <= a /\ d <= b /\ a \in Nat /\ b \in Nat /\ c \in Nat /\ d \in Nat /\ n \in Nat
  <2>1. MayMint(t) \subseteq Posters /\ Outdated(t) \subseteq Posters
    BY DEF MayMint, Outdated
  <2>2. MayMint(t)' \subseteq Posters /\ Outdated(t)' \subseteq Posters
    BY <2>1
  <2>. QED  BY <2>1, <2>2, PostersCounted
<1>2. c + n * d <= a + n * b
  <2>. HIDE DEF a, b, c, d, n
  <2>. QED  BY <1>1, Weights
<1>3. Credit(t)' <= Credit(t)
  BY <1>2 DEF Credit
<1>. QED  BY <1>3, CreditFalls

\* A thread that neither mints nor stores changes no credit: within the window
\* a token that outlives the hour t is fresh for every look-up.
LEMMA QuietPost ==
    ASSUME TokenInv, TokenInv', MintTypes, NEW t \in Nat, MintInv(t), NEW p \in Posters,
           StartPost(p) \/ LookUp(p) \/ CallGitHub(p)
    PROVE  MintInv(t)'
<1>1. hour' = hour /\ mints' = mints /\ cached' = cached
  BY DEF StartPost, LookUp, CallGitHub
<1>2. ASSUME t <= hour, hour < t + Lifetime - Buffer
      PROVE  MayMint(t)' \subseteq MayMint(t) /\ Outdated(t)' \subseteq Outdated(t)
  <2>1. CASE StartPost(p)
    BY <1>1, <2>1 DEF TokenInv, StartPost, MayMint, Outdated, Stale
  <2>2. CASE CallGitHub(p)
    BY <1>1, <2>2 DEF TokenInv, CallGitHub, MayMint, Outdated, Stale, Idle
  <2>3. CASE LookUp(p) /\ Fresh(cached, post[p].at)
    BY <1>1, <2>3 DEF TokenInv, LookUp, MayMint, Outdated, Stale
  <2>4. CASE LookUp(p) /\ ~Fresh(cached, post[p].at)
    <3>1. Stale(t)
      BY <1>2, <2>4, TokenAssumption DEF TokenInv, LookUp, Fresh, Stale
    <3>2. \A q \in Posters : q # p => post'[q] = post[q]
      BY <2>4 DEF TokenInv, LookUp
    <3>3. post[p].step = "look" /\ post'[p].step = "mint"
      BY <2>4 DEF TokenInv, LookUp
    <3>. QED  BY <1>1, <3>1, <3>2, <3>3 DEF MayMint, Outdated, Stale
  <2>. QED  BY <2>1, <2>2, <2>3, <2>4
<1>3. CASE t <= hour /\ hour < t + Lifetime - Buffer
  BY <1>1, <1>2, <1>3, SmallerCredit
<1>4. CASE ~(t <= hour /\ hour < t + Lifetime - Buffer)
  <2>1. Minted(t)' = Minted(t)
    BY <1>1 DEF Minted, StillFresh
  <2>2. Cardinality(Minted(t)') = Cardinality(Minted(t))
    BY <2>1
  <2>. QED  BY <1>1, <1>4, <2>2 DEF MintInv
<1>. QED  BY <1>3, <1>4

\* Storing an outdated answer spends its worth; storing a new one leaves
\* nothing stale.
LEMMA StorePost ==
    ASSUME TokenInv, TokenInv', MintTypes, NEW t \in Nat, MintInv(t), NEW p \in Posters,
           Store(p)
    PROVE  MintInv(t)'
<1>1. hour' = hour /\ mints' = mints /\ cached' = post[p].expires /\ post[p].step = "store"
  BY DEF Store, Stored
<1>2. /\ post'[p].step = "call"
      /\ \A q \in Posters : q # p => post'[q] = post[q]
  BY DEF Store, TokenInv
<1>. DEFINE n == Cardinality(Posters)
            a == Cardinality(MayMint(t))
            b == Cardinality(Outdated(t))
            c == Cardinality(MayMint(t)')
            d == Cardinality(Outdated(t)')
<1>3. MayMint(t) \subseteq Posters /\ Outdated(t) \subseteq Posters
  BY DEF MayMint, Outdated
<1>4. MayMint(t)' \subseteq Posters
  BY DEF MayMint
<1>5. Outdated(t)' = Outdated(t) \ {p}
  BY <1>1, <1>2 DEF Outdated
<1>6. a \in Nat /\ b \in Nat /\ c \in Nat /\ d \in Nat /\ n \in Nat /\ c <= n
  <2>1. Outdated(t)' \subseteq Posters
    BY <1>3, <1>5
  <2>. QED  BY <1>3, <1>4, <2>1, PostersCounted
<1>7. CASE post[p].expires < t + Lifetime
  <2>1. p \in Outdated(t)
    BY <1>1, <1>7 DEF Outdated
  <2>2. Cardinality(Outdated(t) \ {p}) + 1 = Cardinality(Outdated(t))
    BY <1>3, <2>1, PostersCounted
  <2>3. d + 1 = b
    BY <1>5, <2>2
  <2>4. c + n * d <= a + n * b
    <3>. HIDE DEF a, b, c, d, n
    <3>. QED  BY <1>6, <2>3, Weights
  <2>5. Credit(t)' <= Credit(t)
    BY <2>4 DEF Credit
  <2>. QED  BY <1>1, <2>5, CreditFalls
<1>8. CASE ~(post[p].expires < t + Lifetime)
  <2>1. ~(cached' < t + Lifetime)
    BY <1>1, <1>8
  <2>2. MayMint(t)' \subseteq MayMint(t)
    BY <1>2, <2>1 DEF MayMint, Stale
  <2>3. Outdated(t)' \subseteq Outdated(t)
    BY <1>5
  <2>. QED  BY <1>1, <2>2, <2>3, SmallerCredit
<1>. QED  BY <1>7, <1>8

\* A new token is paid for by the thread that minted it, and is not outdated.
LEMMA MintPost ==
    ASSUME TokenInv, TokenInv', MintTypes, NEW t \in Nat, MintInv(t), NEW p \in Posters,
           Mint(p)
    PROVE  MintInv(t)'
<1>1. /\ hour' = hour /\ cached' = cached /\ post[p].step = "mint"
      /\ \A q \in Posters : q # p => post'[q] = post[q]
  BY DEF Mint, TokenInv
<1>2. MayMint(t) \subseteq Posters /\ Outdated(t) \subseteq Posters /\ p \in MayMint(t)
  BY <1>1 DEF MayMint, Outdated
<1>. DEFINE n == Cardinality(Posters)
            a == Cardinality(MayMint(t))
            b == Cardinality(Outdated(t))
            c == Cardinality(MayMint(t)')
            d == Cardinality(Outdated(t)')
<1>3. a \in Nat /\ b \in Nat /\ n \in Nat
  BY <1>2, PostersCounted
<1>4. CASE post' = [post EXCEPT ![p] = Idle] /\ mints' = mints
  <2>1. post'[p] = Idle
    BY <1>4 DEF TokenInv
  <2>2. MayMint(t)' \subseteq MayMint(t) /\ Outdated(t)' \subseteq Outdated(t)
    BY <1>1, <1>2, <2>1 DEF MayMint, Outdated, Stale, Idle
  <2>. QED  BY <1>1, <1>4, <2>2, SmallerCredit
<1>5. CASE /\ post' = [post EXCEPT ![p].step = "store", ![p].expires = hour + Lifetime]
           /\ mints' = [mints EXCEPT ![hour] = @ + 1]
  <2>1. post'[p].step = "store" /\ post'[p].expires = hour + Lifetime
    BY <1>5 DEF TokenInv
  <2>2. CASE ~(t <= hour)
    BY <1>1, <2>2 DEF MintInv
  <2>3. CASE t <= hour /\ ~(hour < t + Lifetime - Buffer)
    <3>1. Minted(t)' = Minted(t)
      BY <1>5, <2>3, MintedGrows
    <3>2. Cardinality(Minted(t)') = Cardinality(Minted(t))
      BY <3>1
    <3>. QED  BY <1>1, <2>3, <3>2 DEF MintInv
  <2>4. CASE t <= hour /\ hour < t + Lifetime - Buffer
    <3>1. Cardinality(Minted(t)') <= Cardinality(Minted(t)) + 1
      BY <1>5, <2>4, MintedGrows
    <3>2. MayMint(t)' \subseteq MayMint(t) \ {p}
      BY <1>1, <2>1 DEF MayMint, Stale
    <3>3. Outdated(t)' \subseteq Outdated(t)
      <4>1. p \notin Outdated(t)'
        BY <2>1, <2>4, TokenAssumption DEF Outdated, TokenInv
      <4>2. \A q \in Outdated(t)' : q \in Outdated(t)
        BY <1>1, <4>1 DEF Outdated
      <4>. QED  BY <4>2
    <3>4. c + 1 <= a /\ d <= b /\ c \in Nat /\ d \in Nat
      <4>1. Cardinality(MayMint(t) \ {p}) + 1 = a
        BY <1>2, PostersCounted
      <4>2. MayMint(t) \ {p} \subseteq Posters
        BY <1>2
      <4>3. c <= Cardinality(MayMint(t) \ {p})
        BY <3>2, <4>2, PostersCounted
      <4>4. d <= b
        BY <1>2, <3>3, PostersCounted
      <4>5. MayMint(t)' \subseteq Posters /\ Outdated(t)' \subseteq Posters
        BY <1>2, <3>2, <3>3
      <4>6. c \in Nat /\ d \in Nat /\ Cardinality(MayMint(t) \ {p}) \in Nat
        BY <4>2, <4>5, PostersCounted
      <4>. HIDE DEF c, d, a, b
      <4>. QED  BY <1>3, <4>1, <4>3, <4>4, <4>6
    <3>5. (c + 1) + n * d <= a + n * b
      <4>. HIDE DEF a, b, c, d, n
      <4>1. c + 1 \in Nat
        BY <3>4
      <4>. QED  BY <1>3, <3>4, <4>1, Weights
    <3>6. /\ Credit(t)' + 1 <= Credit(t) /\ Credit(t) \in Nat /\ Credit(t)' \in Nat
      <4>1. n * d \in Nat /\ n * b \in Nat /\ Credit(t)' = c + n * d /\ Credit(t) = a + n * b
        BY <1>3, <3>4 DEF Credit
      <4>. HIDE DEF a, b, c, d, n
      <4>. QED  BY <1>3, <3>4, <3>5, <4>1
    <3>7. /\ Cardinality(Minted(t)) \in Nat /\ Cardinality(Minted(t)') \in Nat
          /\ n * n \in Nat
      BY <1>3, <1>5, MintedCounted, MintedGrows
    <3>8. Cardinality(Minted(t)) + Credit(t) <= n * n
      BY <2>4 DEF MintInv
    <3>9. /\ Cardinality(Minted(t)') + Credit(t)' <= n * n
          /\ Cardinality(Minted(t)') <= n * n
      <4>. DEFINE m == Cardinality(Minted(t))
                  m2 == Cardinality(Minted(t)')
                  most == n * n
                  cr == Credit(t)
                  cr2 == Credit(t)'
      <4>. HIDE DEF m, m2, most, cr, cr2
      <4>1. m2 + cr2 <= most /\ m2 <= most
        BY <3>1, <3>6, <3>7, <3>8 DEF m, m2, most, cr, cr2
      <4>. QED  BY <4>1 DEF m2, cr2, most
    <3>. QED  BY <3>9, <1>1 DEF MintInv
  <2>. QED  BY <2>2, <2>3, <2>4
<1>. QED  BY <1>4, <1>5 DEF Mint

\* The hour that opens the window of t finds no token of it, and the credit
\* of one fresh token.
LEMMA HourMints ==
    ASSUME TokenInv, TokenInv', MintTypes, NEW t \in Nat, MintInv(t), HourPasses
    PROVE  MintInv(t)'
<1>1. hour' = hour + 1 /\ mints' = mints /\ post' = post /\ cached' = cached /\ hour \in Nat
  BY DEF HourPasses, TokenInv
<1>2. Minted(t)' = Minted(t) /\ Credit(t)' = Credit(t)
  BY <1>1 DEF Minted, StillFresh, Credit, MayMint, Outdated, Stale
<1>3. Cardinality(Minted(t)') = Cardinality(Minted(t))
  BY <1>2
<1>4. Credit(t) \in Nat /\ Credit(t) <= Cardinality(Posters) * Cardinality(Posters)
  BY CreditCounted
<1>5. CASE t <= hour
  <2>1. hour + 1 < t + Lifetime - Buffer => hour < t + Lifetime - Buffer
    BY <1>1, TokenAssumption
  <2>. QED  BY <1>1, <1>2, <1>3, <1>5, <2>1 DEF MintInv
<1>6. CASE ~(t <= hour)
  <2>1. Minted(t) = {}
    BY <1>6, NothingMinted
  <2>2. Cardinality(Minted(t)') = 0
    BY <1>2, <2>1, FS_EmptySet
  <2>3. Cardinality(Posters) \in Nat
    BY PostersCounted
  <2>4. /\ Cardinality(Minted(t)') + Credit(t)' <= Cardinality(Posters) * Cardinality(Posters)
        /\ Cardinality(Minted(t)') <= Cardinality(Posters) * Cardinality(Posters)
    BY <1>2, <1>4, <2>2, <2>3, FirstToken
  <2>. QED  BY <2>4 DEF MintInv
<1>. QED  BY <1>5, <1>6

\* One fresh token: all hours, one per thread and one more for every answer
\* another thread stores over it.
MintsInv == MintTypes /\ \A t \in Nat : MintInv(t)

LEMMA MintsInit == TokenInit => MintsInv
<1>. SUFFICES ASSUME TokenInit
              PROVE  MintsInv
  OBVIOUS
<1>1. MintTypes
  BY TokenAssumption DEF TokenInit, MintTypes
<1>2. ASSUME NEW t \in Nat
      PROVE  MintInv(t)
  <2>1. Credit(t) \in Nat /\ Credit(t) <= Cardinality(Posters) * Cardinality(Posters)
    BY TokenInitInv, CreditCounted
  <2>2. Minted(t) = {}
    BY DEF TokenInit, Minted, StillFresh
  <2>3. Cardinality(Minted(t)) = 0
    BY <2>2, FS_EmptySet
  <2>4. Cardinality(Posters) \in Nat
    BY PostersCounted
  <2>5. /\ Cardinality(Minted(t)) + Credit(t) <= Cardinality(Posters) * Cardinality(Posters)
        /\ Cardinality(Minted(t)) <= Cardinality(Posters) * Cardinality(Posters)
    BY <2>1, <2>3, <2>4, FirstToken
  <2>. QED  BY <2>5 DEF MintInv
<1>. QED  BY <1>1, <1>2 DEF MintsInv

LEMMA MintsStep ==
    ASSUME TokenInv, MintsInv, [TokenNext]_tokenVars
    PROVE  MintsInv'
<1>1. TokenInv'
  BY TokenStep
<1>2. MintTypes /\ MintTypes'
  BY MintTypesStep DEF MintsInv
<1>3. ASSUME NEW t \in Nat
      PROVE  MintInv(t)'
  <2>. MintInv(t)
    BY DEF MintsInv
  <2>1. CASE HourPasses
    BY <1>1, <1>2, <2>1, HourMints
  <2>2. ASSUME NEW p \in Posters, Mint(p)
        PROVE  MintInv(t)'
    BY <1>1, <1>2, <2>2, MintPost
  <2>3. ASSUME NEW p \in Posters, Store(p)
        PROVE  MintInv(t)'
    BY <1>1, <1>2, <2>3, StorePost
  <2>4. ASSUME NEW p \in Posters, StartPost(p) \/ LookUp(p) \/ CallGitHub(p)
        PROVE  MintInv(t)'
    BY <1>1, <1>2, <2>4, QuietPost
  <2>5. CASE UNCHANGED tokenVars
    <3>1. Minted(t)' = Minted(t) /\ Credit(t)' = Credit(t) /\ hour' = hour
      BY <2>5 DEF tokenVars, Minted, StillFresh, Credit, MayMint, Outdated, Stale
    <3>2. Cardinality(Minted(t)') = Cardinality(Minted(t))
      BY <3>1
    <3>. QED  BY <3>1, <3>2 DEF MintInv
  <2>. QED  BY <2>1, <2>2, <2>3, <2>4, <2>5 DEF TokenNext
<1>. QED  BY <1>2, <1>3 DEF MintsInv

LEMMA MintsInvBounds == TokenInv /\ MintsInv => MintsBounded
<1>. SUFFICES ASSUME TokenInv, MintsInv, NEW t \in 0..LastHour
              PROVE  Cardinality(Minted(t)) <= Cardinality(Posters) * Cardinality(Posters)
  BY DEF MintsBounded
<1>1. t \in Nat /\ MintInv(t) /\ MintTypes
  BY DEF MintsInv
<1>2. CASE t <= hour
  BY <1>1, <1>2 DEF MintInv
<1>3. CASE ~(t <= hour)
  <2>1. Minted(t) = {}
    BY <1>1, <1>3, NothingMinted DEF TokenInv
  <2>2. Cardinality(Minted(t)) = 0
    BY <2>1, FS_EmptySet
  <2>3. Cardinality(Posters) * Cardinality(Posters) \in Nat
    <3>1. Cardinality(Posters) \in Nat
      BY PostersCounted
    <3>. QED  BY <3>1
  <2>. QED  BY <2>2, <2>3
<1>. QED  BY <1>2, <1>3

\* _token_cache: while a token stays fresh, no more tokens are minted than one
\* per thread and one more for every older answer another thread stores over
\* the new one, for any number of threads, any lifetime and any buffer.
THEOREM MintsStayFew == TokenSpec => []MintsBounded
<1>1. TokenInit => TokenInv /\ MintsInv
  BY TokenInitInv, MintsInit
<1>2. TokenInv /\ MintsInv /\ [TokenNext]_tokenVars => (TokenInv /\ MintsInv)'
  BY TokenStep, MintsStep
<1>. QED
  BY <1>1, <1>2, MintsInvBounds, PTL DEF TokenSpec

-----------------------------------------------------------------------------
(* BotPr.                                                                  *)

AttemptSteps == {"idle", "clone", "commit", "push", "open", "record"}

BotPrTypes ==
    /\ base \in Nat
    /\ branch \in [PrRuns -> Commits \cup {NoCommit}]
    /\ prs \in [PrRuns -> Nat]
    /\ prNumber \in [PrRuns -> {"none", "opened"}]
    /\ attempt \in [run : PrRuns \cup {NoCommit}, step : AttemptSteps,
                    commit : Commits \cup {NoCommit}]
    /\ attempts \in [PrRuns -> Nat]

\* A request needs its branch, the row its request.
Published ==
    \A r \in PrRuns : /\ prs[r] > 0 => branch[r] # NoCommit
                      /\ prNumber[r] = "opened" => prs[r] > 0

\* What the steps so far of the attempt under way have done.
Under ==
    /\ attempt.step # "idle" => attempt.run \in PrRuns
    /\ attempt.step \in {"commit", "push"} => attempt.commit \in Commits
    /\ attempt.step = "open" => branch[attempt.run] # NoCommit
    /\ attempt.step = "record" => prs[attempt.run] > 0

BotPrInv == BotPrTypes /\ Published /\ Under

LEMMA BotPrInitInv == BotPrInit => BotPrInv
BY DEF BotPrInit, BotPrInv, BotPrTypes, Published, Under, NoAttempt, AttemptSteps

\* Giving up leaves GitHub and the row as they are.
LEMMA GiveUpKeeps ==
    ASSUME BotPrInv, GiveUp, UNCHANGED <<base, branch, prs, prNumber, attempts>>
    PROVE  BotPrInv'
BY DEF GiveUp, BotPrInv, BotPrTypes, Published, Under, NoAttempt, AttemptSteps

LEMMA BotPrStep ==
    ASSUME BotPrInv, [BotPrNext]_botPr
    PROVE  BotPrInv'
<1>. USE BotPrAssumption DEF BotPrInv, BotPrTypes, Published, Under, AttemptSteps
<1>1. CASE BaseMoves
  BY <1>1 DEF BaseMoves
<1>2. ASSUME NEW r \in PrRuns, StartAttempt(r)
      PROVE  BotPrInv'
  <2>1. attempt' = [run |-> r, step |-> "clone", commit |-> NoCommit]
    BY <1>2 DEF StartAttempt, NoAttempt
  <2>. QED  BY <1>2, <2>1 DEF StartAttempt
<1>3. CASE Clone
  <2>1. attempt.run \in PrRuns
    BY <1>3 DEF Clone
  <2>2. PICK c \in Commits : attempt' = [attempt EXCEPT !.step = "commit",
                                                        !.commit = c]
    BY <1>3, <2>1 DEF Clone, Commits
  <2>3. attempt' = [run |-> attempt.run, step |-> "commit", commit |-> c]
    BY <2>2
  <2>. QED  BY <1>3, <2>1, <2>3 DEF Clone
<1>4. CASE CommitClone
  <2>1. CASE GiveUp
    BY <1>4, <2>1, GiveUpKeeps DEF CommitClone
  <2>2. CASE attempt' = [attempt EXCEPT !.step = "push"]
    BY <1>4, <2>2 DEF CommitClone
  <2>. QED  BY <1>4, <2>1, <2>2 DEF CommitClone
<1>5. CASE PushBranch
  <2>1. CASE GiveUp /\ UNCHANGED branch
    BY <1>5, <2>1, GiveUpKeeps DEF PushBranch
  <2>2. CASE /\ branch' = [branch EXCEPT ![attempt.run] = attempt.commit]
             /\ attempt' = [attempt EXCEPT !.step = "open"]
    BY <1>5, <2>2, NoCommit \notin Commits DEF PushBranch
  <2>. QED  BY <1>5, <2>1, <2>2 DEF PushBranch
<1>6. CASE OpenRequest
  <2>1. CASE GiveUp /\ UNCHANGED prs
    BY <1>6, <2>1, GiveUpKeeps DEF OpenRequest
  <2>2. CASE /\ prs' = [prs EXCEPT ![attempt.run] = 1]
             /\ attempt' = [attempt EXCEPT !.step = "record"]
    BY <1>6, <2>2 DEF OpenRequest
  <2>. QED  BY <1>6, <2>1, <2>2 DEF OpenRequest
<1>7. CASE Record
  <2>1. attempt.run \in PrRuns /\ prs[attempt.run] > 0
    BY <1>7 DEF Record
  <2>. QED  BY <1>7, <2>1 DEF Record, GiveUp, NoAttempt
<1>8. CASE FailAttempt
  BY <1>8, GiveUpKeeps DEF FailAttempt
<1>9. CASE UNCHANGED botPr
  BY <1>9 DEF botPr
<1>. QED
  BY <1>1, <1>2, <1>3, <1>4, <1>5, <1>6, <1>7, <1>8, <1>9 DEF BotPrNext

\* Only PushBranch moves a branch, and only one that is not there: one with a
\* pull request is.
LEMMA StepKeepsBranch ==
    ASSUME BotPrInv, BotPrNext, NEW r \in PrRuns, prs[r] > 0
    PROVE  branch'[r] = branch[r]
<1>1. CASE PushBranch
  <2>1. CASE UNCHANGED branch
    BY <2>1
  <2>2. CASE /\ PushAccepted(attempt.run)
             /\ branch' = [branch EXCEPT ![attempt.run] = attempt.commit]
    <3>1. branch[r] # NoCommit
      BY DEF BotPrInv, Published
    <3>2. r # attempt.run
      BY <2>2, <3>1 DEF PushAccepted
    <3>. QED  BY <2>2, <3>2 DEF BotPrInv, BotPrTypes
  <2>. QED  BY <1>1, <2>1, <2>2 DEF PushBranch
<1>2. CASE ~PushBranch
  <2>1. UNCHANGED branch
    BY <1>2 DEF BotPrNext, BaseMoves, StartAttempt, Clone, CommitClone,
                OpenRequest, Record, FailAttempt
  <2>. QED  BY <2>1
<1>. QED  BY <1>1, <1>2

\* The row names a pull request only when Record finds it opened.
LEMMA StepRecordsOpened ==
    ASSUME BotPrInv, BotPrNext, NEW r \in PrRuns, prNumber'[r] = "opened"
    PROVE  prs[r] > 0 /\ branch[r] # NoCommit
<1>1. CASE prNumber[r] = "opened"
  BY <1>1 DEF BotPrInv, Published
<1>2. CASE prNumber[r] # "opened"
  <2>1. Record
    BY <1>2 DEF BotPrNext, BaseMoves, StartAttempt, Clone, CommitClone,
                PushBranch, OpenRequest, FailAttempt
  <2>2. r = attempt.run
    BY <1>2, <2>1 DEF Record, BotPrInv, BotPrTypes
  <2>3. prs[r] > 0
    BY <2>1, <2>2 DEF Record, BotPrInv, Under
  <2>. QED  BY <2>3 DEF BotPrInv, Published
<1>. QED  BY <1>1, <1>2

\* However often a run is executed and wherever its attempts fail, the pull
\* request a reviewer sees holds one commit, and the row points at it only
\* once it is there.
THEOREM ReviewedBranchTheorem == BotPrSpec => ReviewedBranchStays
<1>. DEFINE Kept ==
       \A r \in PrRuns :
        /\ prs[r] > 0 => branch'[r] = branch[r]
        /\ prNumber'[r] = "opened" => prs[r] > 0 /\ branch[r] # NoCommit
<1>1. BotPrInv /\ [BotPrNext]_botPr => BotPrInv'
  BY BotPrStep
<1>2. BotPrInv /\ [BotPrNext]_botPr => [Kept]_botPr
  <2>1. ASSUME BotPrInv, BotPrNext
        PROVE  Kept
    BY <2>1, StepKeepsBranch, StepRecordsOpened
  <2>. QED  BY <2>1
<1>. QED
  BY BotPrInitInv, <1>1, <1>2, PTL DEF BotPrSpec, ReviewedBranchStays

=============================================================================

--------------------------- MODULE JobQueueProofs ---------------------------
(***************************************************************************)
(* Proofs about JobQueue.  First how many entries of a job are left on a   *)
(* list when one is put on it, popped from it or removed from it; then     *)
(* type correctness; then OneLiveCopy, for any number of jobs, processes,  *)
(* failures and requeues.  The invariant behind it counts: no step adds a  *)
(* live copy of a submitted job but the race that `raced` counts, and a    *)
(* job that was never submitted has none.  The same counts from below show *)
(* that no job vanishes and none is stranded but through a failure.  Last  *)
(* the bound on runs: every copy of a job is worth the runs it is still    *)
(* good for, and a job never owes more runs than were paid for by its      *)
(* submission, by requeues and by raced requeues.                          *)
(***************************************************************************)
EXTENDS JobQueue, SequenceTheorems, FunctionTheorems, FiniteSetTheorems,
        WellFoundedInduction, TLAPS

One(b) == IF b THEN 1 ELSE 0

Where(list, j) == {i \in DOMAIN list : list[i].id = j}

LEMMA CopiesCount ==
    ASSUME NEW s \in Seq(Entries), NEW j
    PROVE  /\ IsFiniteSet(Where(s, j))
           /\ Copies(s, j) = Cardinality(Where(s, j))
           /\ Copies(s, j) \in Nat
<1>1. Len(s) \in Nat /\ DOMAIN s = 1..Len(s)
  BY LenProperties
<1>2. IsFiniteSet(1..Len(s))
  BY <1>1, FS_Interval
<1>3. Where(s, j) \in SUBSET (1..Len(s))
  BY <1>1 DEF Where
<1>4. IsFiniteSet(Where(s, j))
  BY <1>2, <1>3, FS_Subset
<1>5. Copies(s, j) = Cardinality(Where(s, j))
  BY DEF Copies, Where
<1>. QED  BY <1>4, <1>5, FS_CardinalityType

LEMMA CopiesEmpty == \A j : Copies(<< >>, j) = 0
<1>1. \A j : {i \in DOMAIN << >> : << >>[i].id = j} = {}
  OBVIOUS
<1>. QED  BY <1>1, FS_EmptySet DEF Copies

\* lPush
LEMMA PutFirst ==
    ASSUME NEW s \in Seq(Entries), NEW e \in Entries, NEW j
    PROVE  /\ <<e>> \o s \in Seq(Entries)
           /\ Copies(<<e>> \o s, j) <= Copies(s, j) + One(e.id = j)
<1>. DEFINE t == <<e>> \o s
            f == [i \in Where(t, j) |-> i - 1]
            T == IF e.id = j THEN Where(s, j) \cup {0} ELSE Where(s, j)
<1>1. <<e>> \in Seq(Entries) /\ Len(<<e>>) = 1 /\ <<e>>[1] = e
  OBVIOUS
<1>2. /\ t \in Seq(Entries) /\ Len(t) = 1 + Len(s)
      /\ \A i \in 1..(1 + Len(s)) : t[i] = IF i <= 1 THEN e ELSE s[i - 1]
  BY <1>1, ConcatProperties
<1>. HIDE DEF t
<1>3. /\ Len(s) \in Nat /\ DOMAIN s = 1..Len(s)
      /\ Len(t) \in Nat /\ DOMAIN t = 1..(1 + Len(s))
  BY <1>2, LenProperties
<1>4. \A i \in Where(t, j) : i \in Nat /\ i - 1 \in T
  <2>. SUFFICES ASSUME NEW i \in Where(t, j)
                PROVE  i \in Nat /\ i - 1 \in T
    OBVIOUS
  <2>1. i \in 1..(1 + Len(s)) /\ t[i].id = j
    BY <1>3 DEF Where
  <2>2. CASE i = 1
    BY <1>2, <1>3, <2>1, <2>2
  <2>3. CASE i # 1
    <3>1. i - 1 \in 1..Len(s) /\ t[i] = s[i - 1]
      BY <1>2, <1>3, <2>1, <2>3
    <3>2. i - 1 \in Where(s, j)
      BY <1>3, <2>1, <3>1 DEF Where
    <3>. QED  BY <2>1, <3>2
  <2>. QED  BY <2>2, <2>3
<1>5. f \in Injection(Where(t, j), T)
  <2>1. f \in [Where(t, j) -> T]
    BY <1>4
  <2>2. \A a, b \in Where(t, j) : f[a] = f[b] => a = b
    BY <1>4
  <2>. QED  BY <2>1, <2>2, Fun_IsInj
<1>6. IsFiniteSet(T) /\ Cardinality(T) <= Copies(s, j) + One(e.id = j)
  <2>1. IsFiniteSet(Where(s, j)) /\ Copies(s, j) = Cardinality(Where(s, j))
        /\ Copies(s, j) \in Nat
    BY CopiesCount
  <2>2. /\ IsFiniteSet(Where(s, j) \cup {0})
        /\ Cardinality(Where(s, j) \cup {0})
              = IF 0 \in Where(s, j) THEN Copies(s, j) ELSE Copies(s, j) + 1
    BY <2>1, FS_AddElement
  <2>. QED  BY <2>1, <2>2 DEF One
<1>7. Copies(t, j) = Cardinality(Where(t, j))
  BY <1>2, CopiesCount
<1>8. Cardinality(Where(t, j)) <= Cardinality(T)
  BY <1>5, <1>6, FS_Injection
<1>9. /\ Cardinality(T) \in Nat /\ Copies(s, j) \in Nat
      /\ Cardinality(Where(t, j)) \in Nat
  BY <1>2, <1>6, CopiesCount, FS_CardinalityType
<1>10. Copies(t, j) <= Copies(s, j) + One(e.id = j)
  BY <1>6, <1>7, <1>8, <1>9 DEF One
<1>. QED  BY <1>2, <1>10 DEF t

\* rPopLPush
LEMMA TakeLast ==
    ASSUME NEW s \in Seq(Entries), s # << >>, NEW j
    PROVE  /\ Last(s) \in Entries /\ Front(s) \in Seq(Entries)
           /\ Copies(Front(s), j) + One(Last(s).id = j) <= Copies(s, j)
<1>1. /\ Len(s) \in Nat \ {0} /\ DOMAIN s = 1..Len(s)
      /\ \A i \in 1..Len(s) : s[i] \in Entries
  BY LenProperties, EmptySeq, ElementOfSeq
<1>2. Last(s) \in Entries
  BY <1>1 DEF Last
<1>. DEFINE t == SubSeq(s, 1, Len(s) - 1)
<1>3. /\ t \in Seq(Entries) /\ Len(t) = Len(s) - 1
      /\ \A i \in 1..(Len(s) - 1) : t[i] = s[i]
  <2>1. \A i \in 1..(Len(s) - 1) : s[i] \in Entries
    BY <1>1
  <2>2. /\ t \in Seq(Entries)
        /\ Len(t) = IF 1 <= Len(s) - 1 THEN (Len(s) - 1) - 1 + 1 ELSE 0
        /\ \A i \in 1..((Len(s) - 1) - 1 + 1) : t[i] = s[1 + i - 1]
    BY <1>1, <2>1, SubSeqProperties
  <2>. QED  BY <1>1, <2>2
<1>. HIDE DEF t
<1>4. DOMAIN t = 1..(Len(s) - 1)
  BY <1>3, LenProperties
<1>5. Where(t, j) \in SUBSET (Where(s, j) \ {Len(s)})
  BY <1>1, <1>3, <1>4 DEF Where
<1>6. Len(s) \in Where(s, j) <=> Last(s).id = j
  BY <1>1 DEF Where, Last
<1>7. /\ IsFiniteSet(Where(s, j)) /\ Copies(s, j) = Cardinality(Where(s, j))
      /\ Copies(s, j) \in Nat
      /\ Copies(t, j) = Cardinality(Where(t, j)) /\ Copies(t, j) \in Nat
  BY <1>3, CopiesCount
<1>8. /\ IsFiniteSet(Where(s, j) \ {Len(s)})
      /\ Cardinality(Where(s, j) \ {Len(s)})
            = Copies(s, j) - One(Last(s).id = j)
  BY <1>6, <1>7, FS_RemoveElement DEF One
<1>9. Cardinality(Where(t, j)) <= Cardinality(Where(s, j) \ {Len(s)})
  BY <1>5, <1>8, FS_Subset
<1>10. Copies(t, j) + One(Last(s).id = j) <= Copies(s, j)
  BY <1>7, <1>8, <1>9 DEF One
<1>. QED  BY <1>2, <1>3, <1>10 DEF t, Front

Less == {ss \in Nat \X Nat : ss[1] < ss[2]}

LEMMA MinIsMember ==
    ASSUME NEW I, I \subseteq Nat, I # {}
    PROVE  Min(I) \in I
<1>1. OpToRel(<, Nat) = Less
  BY Zenon DEF OpToRel, Less
<1>2. IsWellFoundedOn(Less, Nat)
  BY <1>1, NatLessThanWellFounded, Zenon
<1>3. PICK x \in I : \A y \in I : ~ (<<y, x>> \in Less)
  BY <1>2, WFMin
<1>4. \A y \in I : x <= y
  <2>. SUFFICES ASSUME NEW y \in I, y < x
                PROVE  FALSE
    OBVIOUS
  <2>1. <<y, x>> \in Nat \X Nat
    OBVIOUS
  <2>2. <<y, x>> \in Less
    BY <2>1 DEF Less
  <2>. QED  BY <1>3, <2>2
<1>. QED  BY <1>4 DEF Min

\* The list without its place k.
Without(s, k) == SubSeq(s, 1, k - 1) \o SubSeq(s, k + 1, Len(s))

LEMMA WithoutPlace ==
    ASSUME NEW s \in Seq(Entries), NEW k \in 1..Len(s)
    PROVE  /\ Without(s, k) \in Seq(Entries)
           /\ Len(Without(s, k)) = Len(s) - 1
           /\ \A i \in 1..(Len(s) - 1) :
                Without(s, k)[i] = IF i < k THEN s[i] ELSE s[i + 1]
<1>. DEFINE a == SubSeq(s, 1, k - 1)
            b == SubSeq(s, k + 1, Len(s))
<1>1. Len(s) \in Nat /\ k \in Nat /\ 1 <= k /\ k <= Len(s)
  BY LenProperties
<1>2. \A i \in 1..Len(s) : s[i] \in Entries
  BY LenProperties
<1>3. /\ a \in Seq(Entries) /\ Len(a) = k - 1
      /\ \A i \in 1..(k - 1) : a[i] = s[i]
  <2>1. /\ 1 \in Int /\ k - 1 \in Int
        /\ \A i \in 1..(k - 1) : s[i] \in Entries
    BY <1>1, <1>2
  <2>2. /\ a \in Seq(Entries)
        /\ Len(a) = IF 1 <= k - 1 THEN (k - 1) - 1 + 1 ELSE 0
        /\ \A i \in 1..((k - 1) - 1 + 1) : a[i] = s[1 + i - 1]
    BY <2>1, SubSeqProperties
  <2>. QED  BY <1>1, <2>2
<1>4. /\ b \in Seq(Entries) /\ Len(b) = Len(s) - k
      /\ \A i \in 1..(Len(s) - k) : b[i] = s[k + i]
  <2>1. /\ k + 1 \in Int /\ Len(s) \in Int
        /\ \A i \in (k + 1)..Len(s) : s[i] \in Entries
    BY <1>1, <1>2
  <2>2. /\ b \in Seq(Entries)
        /\ Len(b) = IF k + 1 <= Len(s) THEN Len(s) - (k + 1) + 1 ELSE 0
        /\ \A i \in 1..(Len(s) - (k + 1) + 1) : b[i] = s[(k + 1) + i - 1]
    BY <2>1, SubSeqProperties
  <2>. QED  BY <1>1, <2>2
<1>. HIDE DEF a, b
<1>5. /\ a \o b \in Seq(Entries) /\ Len(a \o b) = Len(a) + Len(b)
      /\ \A i \in 1..(Len(a) + Len(b)) :
            (a \o b)[i] = IF i <= Len(a) THEN a[i] ELSE b[i - Len(a)]
  BY <1>3, <1>4, ConcatProperties
<1>6. \A i \in 1..(Len(s) - 1) : (a \o b)[i] = IF i < k THEN s[i] ELSE s[i + 1]
  <2>. SUFFICES ASSUME NEW i \in 1..(Len(s) - 1)
                PROVE  (a \o b)[i] = IF i < k THEN s[i] ELSE s[i + 1]
    OBVIOUS
  <2>1. CASE i < k
    BY <1>1, <1>3, <1>4, <1>5, <2>1
  <2>2. CASE ~(i < k)
    <3>1. i - (k - 1) \in 1..(Len(s) - k)
      BY <1>1, <2>2
    <3>2. b[i - (k - 1)] = s[k + (i - (k - 1))]
      BY <1>4, <3>1
    <3>. QED  BY <1>1, <1>3, <1>4, <1>5, <2>2, <3>2
  <2>. QED  BY <2>1, <2>2
<1>7. Len(a \o b) = Len(s) - 1
  BY <1>1, <1>3, <1>4, <1>5
<1>8. Without(s, k) = a \o b
  BY DEF Without, a, b
<1>. QED  BY <1>5, <1>6, <1>7, <1>8

LEMMA WithoutCopies ==
    ASSUME NEW s \in Seq(Entries), NEW k \in 1..Len(s), NEW j
    PROVE  Copies(Without(s, k), j) + One(s[k].id = j) <= Copies(s, j)
<1>. DEFINE t == Without(s, k)
            f == [i \in Where(t, j) |-> IF i < k THEN i ELSE i + 1]
            T == Where(s, j) \ {k}
<1>1. /\ t \in Seq(Entries) /\ Len(t) = Len(s) - 1
      /\ \A i \in 1..(Len(s) - 1) : t[i] = IF i < k THEN s[i] ELSE s[i + 1]
  BY WithoutPlace
<1>. HIDE DEF t
<1>2. /\ Len(s) \in Nat /\ DOMAIN s = 1..Len(s) /\ k \in Nat
      /\ DOMAIN t = 1..(Len(s) - 1)
  BY <1>1, LenProperties
<1>3. ASSUME NEW i \in Where(t, j)
      PROVE  i \in Nat /\ (IF i < k THEN i ELSE i + 1) \in T
  <2>1. i \in 1..(Len(s) - 1) /\ t[i].id = j
    BY <1>2 DEF Where
  <2>2. CASE i < k
    BY <1>1, <1>2, <2>1, <2>2 DEF Where
  <2>3. CASE ~(i < k)
    <3>1. i + 1 \in 1..Len(s) /\ i + 1 # k /\ t[i] = s[i + 1]
      BY <1>1, <1>2, <2>1, <2>3
    <3>. QED  BY <1>2, <2>1, <2>3, <3>1 DEF Where
  <2>. QED  BY <2>2, <2>3
<1>4. f \in Injection(Where(t, j), T)
  <2>1. f \in [Where(t, j) -> T]
    BY <1>3
  <2>2. \A a, b \in Where(t, j) : f[a] = f[b] => a = b
    BY <1>2, <1>3
  <2>. QED  BY <2>1, <2>2, Fun_IsInj
<1>5. /\ IsFiniteSet(Where(s, j)) /\ Copies(s, j) = Cardinality(Where(s, j))
      /\ Copies(s, j) \in Nat
      /\ Copies(t, j) = Cardinality(Where(t, j)) /\ Copies(t, j) \in Nat
  BY <1>1, CopiesCount
<1>6. k \in Where(s, j) <=> s[k].id = j
  BY <1>2 DEF Where
<1>7. IsFiniteSet(T) /\ Cardinality(T) = Copies(s, j) - One(s[k].id = j)
  <2>1. /\ IsFiniteSet(Where(s, j) \ {k})
        /\ Cardinality(Where(s, j) \ {k})
              = IF k \in Where(s, j) THEN Copies(s, j) - 1 ELSE Copies(s, j)
    BY <1>5, FS_RemoveElement
  <2>. QED  BY <1>5, <1>6, <2>1 DEF One
<1>8. Cardinality(Where(t, j)) <= Cardinality(T)
  BY <1>4, <1>7, FS_Injection
<1>9. Copies(t, j) + One(s[k].id = j) <= Copies(s, j)
  BY <1>5, <1>7, <1>8 DEF One
<1>. QED  BY <1>9 DEF t

\* lRem(list, 1, e)
LEMMA TakeOut ==
    ASSUME NEW s \in Seq(Entries), NEW e, NEW j
    PROVE  /\ RemoveFirst(s, e) \in Seq(Entries)
           /\ Copies(RemoveFirst(s, e), j)
                + (IF Contains(s, e) THEN One(e.id = j) ELSE 0) <= Copies(s, j)
<1>1. CASE ~Contains(s, e)
  <2>1. RemoveFirst(s, e) = s
    BY <1>1 DEF Contains, RemoveFirst
  <2>. QED  BY <1>1, <2>1, CopiesCount
<1>2. CASE Contains(s, e)
  <2>. DEFINE I == {i \in 1..Len(s) : s[i] = e}
  <2>1. I \subseteq Nat /\ I # {} /\ Len(s) \in Nat
    BY <1>2, LenProperties DEF Contains
  <2>2. Min(I) \in 1..Len(s) /\ s[Min(I)] = e
    BY <2>1, MinIsMember
  <2>3. RemoveFirst(s, e) = Without(s, Min(I))
    BY <1>2, <2>1 DEF Contains, RemoveFirst, RemoveAt, SelectInSeq, Without
  <2>. QED  BY <1>2, <2>2, <2>3, WithoutPlace, WithoutCopies
<1>. QED  BY <1>1, <1>2

-----------------------------------------------------------------------------
(* Types.                                                                  *)

Lists ==
    queue \in Seq(Entries) /\ processing \in Seq(Entries) /\ dead \in Seq(Entries)

\* What TypeOK says of the processes, and two facts it rests on: an outcome is
\* there from the end of runJob to the end of the iteration, and only a job is
\* run, and only a malformed entry buried.
Local ==
    /\ pc \in [Workers -> Phases]
    /\ job \in [Workers -> Entries \cup {Nothing}]
    /\ item \in [Workers -> Entries \cup {Nothing}]
    /\ outcome \in [Workers -> {"none", "ok", "failed"}]
    /\ stop \in [Workers -> BOOLEAN]
    /\ \A w \in Workers :
        /\ job[w] = Nothing <=> pc[w] \in {"down", "loop", "polling"}
        /\ pc[w] \in {"down", "loop", "polling", "bury", "ready", "running"}
            => outcome[w] = "none"
        /\ pc[w] \in {"ready", "running", "scan", "remove", "push", "beat"}
            => job[w].id \in Jobs
        /\ pc[w] = "bury" => Malformed(job[w])
        /\ pc[w] = "push" => outcome[w] # "ok"

Rest ==
    /\ admin \in Entries \cup {Nothing} /\ stripped \in BOOLEAN
    /\ stripped => admin # Nothing
    /\ submitted \subseteq Jobs \cup Junk /\ completed \subseteq Jobs
    /\ runs \in [Jobs -> Nat]
    /\ requeues \in Nat /\ failures \in Nat /\ signals \in Nat /\ raced \in Nat

Lapses ==
    /\ interrupted \subseteq Jobs /\ expired \subseteq Jobs
    /\ owed \subseteq Jobs /\ ttl \in BOOLEAN

Types == Lists /\ Local /\ Rest /\ Lapses

LEMMA TypesInit == Init => Types
<1>. SUFFICES ASSUME Init
              PROVE  Types
  OBVIOUS
<1>1. Lists
  BY DEF Init, Lists
<1>2. Local
  BY DEF Init, Local, Phases
<1>3. Rest /\ Lapses
  BY DEF Init, Rest, Lapses
<1>. QED  BY <1>1, <1>2, <1>3 DEF Types

LEMMA TypesGiveTypeOK == Types => TypeOK
BY DEF Types, Lists, Local, Rest, Lapses, TypeOK

\* Whatever is popped is an entry.
LEMMA Popped ==
    ASSUME NEW s \in Seq(Entries), s # << >>
    PROVE  /\ Last(s) \in Entries /\ Front(s) \in Seq(Entries)
           /\ Last(s) # Nothing
           /\ ~Malformed(Last(s)) => Last(s).id \in Jobs
<1>1. Last(s) \in Entries /\ Front(s) \in Seq(Entries)
  BY TakeLast
<1>2. Nothing \notin Entries
  BY JobQueueAssumption
<1>3. Last(s).id \in Jobs \cup Junk
  BY <1>1 DEF Entries
<1>. QED  BY <1>1, <1>2, <1>3 DEF Malformed

LEMMA Retried ==
    ASSUME NEW e \in Entries
    PROVE  /\ [e EXCEPT !.retries = @ + 1] \in Entries
           /\ [e EXCEPT !.retries = @ + 1].id = e.id
           /\ [e EXCEPT !.retries = 0] \in Entries
           /\ [e EXCEPT !.retries = 0].id = e.id
<1>1. e.retries \in Nat /\ e.retries + 1 \in Nat
  BY DEF Entries
<1>. QED  BY <1>1 DEF Entries

\* The place a scan stops holds an entry.
PlaceOf(s, id) == SelectInSeq(s, LAMBDA e : e.id = id)

LEMMA Scanned ==
    ASSUME NEW s \in Seq(Entries), NEW id, PlaceOf(s, id) # 0
    PROVE  s[PlaceOf(s, id)] \in Entries
<1>. DEFINE I == {i \in 1..Len(s) : s[i].id = id}
<1>1. I # {} /\ PlaceOf(s, id) = Min(I)
  BY DEF PlaceOf, SelectInSeq
<1>2. I \subseteq Nat /\ Len(s) \in Nat
  BY LenProperties
<1>3. Min(I) \in 1..Len(s)
  BY <1>1, <1>2, MinIsMember
<1>. QED  BY <1>1, <1>3, ElementOfSeq

LEMMA ScannedId ==
    ASSUME NEW s \in Seq(Entries), NEW id, PlaceOf(s, id) # 0
    PROVE  /\ PlaceOf(s, id) \in 1..Len(s)
           /\ s[PlaceOf(s, id)].id = id
<1>. DEFINE I == {i \in 1..Len(s) : s[i].id = id}
<1>1. I # {} /\ PlaceOf(s, id) = Min(I)
  BY DEF PlaceOf, SelectInSeq
<1>2. I \subseteq Nat /\ Len(s) \in Nat
  BY LenProperties
<1>3. Min(I) \in I
  BY <1>1, <1>2, MinIsMember
<1>. QED  BY <1>1, <1>3

LEMMA ListsStep ==
    ASSUME Types, Next
    PROVE  Lists'
<1>. USE DEF Types, Lists
<1>1. ASSUME NEW x \in Jobs \cup Junk, Submit(x) \/ PushJunk(x)
      PROVE  Lists'
  <2>1. [id |-> x, retries |-> 0] \in Entries
    BY DEF Entries
  <2>. QED  BY <1>1, <2>1, PutFirst DEF Submit, PushJunk
<1>2. ASSUME NEW w \in Workers, Dequeue(w)
      PROVE  Lists'
  <2>1. Last(queue) \in Entries /\ Front(queue) \in Seq(Entries)
    BY <1>2, Popped DEF Dequeue
  <2>. QED  BY <1>2, <2>1, PutFirst DEF Dequeue
<1>3. ASSUME NEW w \in Workers, Bury(w)
      PROVE  Lists'
  <2>1. job[w] \in Entries
    BY <1>3 DEF Bury, Local
  <2>. QED  BY <1>3, <2>1, PutFirst DEF Bury, DeadLettered
<1>4. ASSUME NEW w \in Workers, Unlist(w)
      PROVE  Lists'
  BY <1>4, TakeOut DEF Unlist, Unlisted
<1>5. ASSUME NEW w \in Workers, Push(w)
      PROVE  Lists'
  <2>1. job[w] \in Entries
    BY <1>5 DEF Push, Local
  <2>2. [job[w] EXCEPT !.retries = @ + 1] \in Entries
    BY <2>1, Retried
  <2>. QED  BY <1>5, <2>2, PutFirst DEF Push, DeadLettered
<1>6. CASE MoveDead
  <2>1. Last(dead) \in Entries /\ Front(dead) \in Seq(Entries)
    BY <1>6, Popped DEF MoveDead
  <2>. QED  BY <1>6, <2>1, PutFirst DEF MoveDead
<1>7. CASE StripMoved
  BY <1>7, TakeOut DEF StripMoved, TakenBack
<1>8. CASE PushReset
  <2>1. admin \in Entries
    BY <1>8 DEF PushReset, Rest
  <2>2. [admin EXCEPT !.retries = 0] \in Entries
    BY <2>1, Retried
  <2>. QED  BY <1>8, <2>2, PutFirst DEF PushReset
<1>9. ASSUME UNCHANGED redis
      PROVE  Lists'
  BY <1>9 DEF redis
<1>10. CASE Expire
  BY <1>10 DEF Expire
<1>. QED
  BY <1>1, <1>2, <1>3, <1>4, <1>5, <1>6, <1>7, <1>8, <1>9, <1>10
  DEF Next, SetExpiry, WorkerStep, Admin, Start, CheckStop, FindEmpty, Run, Finish, Scan,
      EndIteration, Terminate, Interrupt, LoseWorker, CommandFails, LoseAdmin

\* A process that is gone, or found nothing to do.
LEMMA GoneLocal ==
    ASSUME Local, NEW w \in Workers, Gone(w)
    PROVE  Local'
BY DEF Local, Gone, Goto, Phases

LEMMA NoJobLocal ==
    ASSUME Local, NEW w \in Workers, pc[w] \in {"polling", "bury"}, NoJob(w)
    PROVE  Local'
<1>1. CASE Gone(w)
  BY <1>1, GoneLocal
<1>2. CASE ~Gone(w)
  BY <1>2 DEF NoJob, Local, Goto, Phases
<1>. QED  BY <1>1, <1>2

LEMMA WorkerLocal ==
    ASSUME Types, NEW w \in Workers, WorkerStep(w)
    PROVE  Local'
<1>. USE DEF Types
<1>1. CASE CheckStop(w)
  <2>1. CASE Gone(w)
    BY <2>1, GoneLocal
  <2>2. CASE ~Gone(w)
    BY <1>1, <2>2 DEF CheckStop, Local, Goto, Phases
  <2>. QED  BY <2>1, <2>2
<1>2. CASE Dequeue(w)
  <2>1. /\ Last(queue) \in Entries /\ Last(queue) # Nothing
        /\ ~Malformed(Last(queue)) => Last(queue).id \in Jobs
    BY <1>2, Popped DEF Dequeue, Lists
  <2>. DEFINE phase == IF Malformed(Last(queue)) THEN "bury" ELSE "ready"
  <2>2. /\ pc[w] = "polling" /\ pc' = [pc EXCEPT ![w] = phase]
        /\ job' = [job EXCEPT ![w] = Last(queue)]
        /\ UNCHANGED <<item, outcome, stop>>
    BY <1>2 DEF Dequeue, Claimed, Goto
  <2>3. /\ phase \in {"bury", "ready"}
        /\ phase = "ready" => Last(queue).id \in Jobs
        /\ phase = "bury" => Malformed(Last(queue))
    BY <2>1
  <2>. HIDE DEF phase
  <2>. QED  BY <2>1, <2>2, <2>3 DEF Local, Phases
<1>3. CASE FindEmpty(w)
  BY <1>3, NoJobLocal DEF FindEmpty
<1>4. CASE Bury(w)
  BY <1>4, NoJobLocal DEF Bury
<1>5. CASE Run(w)
  BY <1>5 DEF Run, Local, Goto, Phases
<1>6. CASE Finish(w)
  BY <1>6 DEF Finish, Local, Goto, Phases
<1>7. CASE Scan(w)
  <2>. DEFINE at == PlaceOf(processing, job[w].id)
  <2>1. CASE at # 0
    <3>1. processing[at] \in Entries
      BY <2>1, Scanned DEF Lists
    <3>2. /\ pc[w] = "scan" /\ pc' = [pc EXCEPT ![w] = "remove"]
          /\ item' = [item EXCEPT ![w] = processing[at]]
          /\ UNCHANGED <<job, outcome, stop>>
      BY <1>7, <2>1 DEF Scan, Goto, PlaceOf
    <3>. HIDE DEF at
    <3>. QED  BY <3>1, <3>2 DEF Local, Phases
  <2>2. CASE at = 0
    <3>1. /\ pc[w] = "scan" /\ pc' = [pc EXCEPT ![w] = AfterRemoval(w)]
          /\ UNCHANGED <<job, item, outcome, stop>>
      BY <1>7, <2>2 DEF Scan, Goto, PlaceOf
    <3>. QED  BY <3>1 DEF Local, Phases, AfterRemoval
  <2>. QED  BY <2>1, <2>2
<1>8. CASE Unlist(w)
  BY <1>8 DEF Unlist, Local, Goto, Phases, AfterRemoval
<1>9. CASE Push(w)
  BY <1>9 DEF Push, Local, Goto, Phases
<1>10. CASE EndIteration(w)
  BY <1>10 DEF EndIteration, Local, Goto, Phases
<1>. QED
  BY <1>1, <1>2, <1>3, <1>4, <1>5, <1>6, <1>7, <1>8, <1>9, <1>10 DEF WorkerStep

LEMMA LocalStep ==
    ASSUME Types, Next
    PROVE  Local'
<1>. USE DEF Types
<1>1. ASSUME NEW w \in Workers, WorkerStep(w)
      PROVE  Local'
  BY <1>1, WorkerLocal
<1>2. ASSUME NEW w \in Workers, Start(w)
      PROVE  Local'
  BY <1>2 DEF Start, Local, Goto, Phases
<1>3. ASSUME NEW w \in Workers, Terminate(w)
      PROVE  Local'
  BY <1>3 DEF Terminate, Local
<1>4. ASSUME NEW w \in Workers, Interrupt(w) \/ LoseWorker(w)
      PROVE  Local'
  BY <1>4, GoneLocal DEF Interrupt, LoseWorker
<1>5. ASSUME NEW w \in Workers, CommandFails(w)
      PROVE  Local'
  BY <1>5 DEF CommandFails, Local, Goto, Phases
<1>6. ASSUME UNCHANGED worker
      PROVE  Local'
  BY <1>6 DEF worker, Local
<1>. QED
  BY <1>1, <1>2, <1>3, <1>4, <1>5, <1>6
  DEF Next, Admin, Submit, SetExpiry, Expire, PushJunk, MoveDead, StripMoved,
      PushReset, LoseAdmin

LEMMA RestStep ==
    ASSUME Types, Next
    PROVE  Rest'
<1>. USE DEF Types, Rest
<1>1. ASSUME NEW x \in Jobs \cup Junk, Submit(x) \/ PushJunk(x)
      PROVE  Rest'
  BY <1>1 DEF Submit, PushJunk, requeue
<1>2. ASSUME NEW w \in Workers, Run(w)
      PROVE  Rest'
  <2>1. job[w].id \in Jobs
    BY <1>2 DEF Run, Local
  <2>. QED  BY <1>2, <2>1 DEF Run, requeue
<1>3. ASSUME NEW w \in Workers, Finish(w)
      PROVE  Rest'
  <2>1. job[w].id \in Jobs
    BY <1>3 DEF Finish, Local
  <2>. QED  BY <1>3, <2>1 DEF Finish, requeue
<1>4. ASSUME NEW w \in Workers,
             Terminate(w) \/ Interrupt(w) \/ LoseWorker(w) \/ CommandFails(w)
      PROVE  Rest'
  BY <1>4 DEF Terminate, Interrupt, LoseWorker, CommandFails, requeue
<1>5. CASE MoveDead
  <2>1. Last(dead) \in Entries /\ Last(dead) # Nothing
    BY <1>5, Popped DEF MoveDead, Lists
  <2>. QED  BY <1>5, <2>1 DEF MoveDead, history
<1>6. CASE StripMoved
  BY <1>6 DEF StripMoved, history
<1>7. CASE PushReset \/ LoseAdmin
  <2>1. CASE PushReset
    BY <2>1 DEF PushReset, history
  <2>2. CASE LoseAdmin
    <3>1. /\ admin' = Nothing /\ stripped' = FALSE
          /\ failures' = failures + 1 /\ UNCHANGED <<requeues, raced, signals>>
      BY <2>2 DEF LoseAdmin
    <3>2. UNCHANGED <<submitted, completed, runs>>
      BY <2>2 DEF LoseAdmin
    <3>3. /\ admin' \in Entries \cup {Nothing} /\ stripped' \in BOOLEAN
          /\ (stripped => admin # Nothing)'
      BY <3>1, Zenon
    <3>4. /\ (submitted \subseteq Jobs \cup Junk /\ completed \subseteq Jobs)'
          /\ (runs \in [Jobs -> Nat])'
      BY <3>2
    <3>5. /\ requeues' \in Nat /\ failures' \in Nat /\ signals' \in Nat
          /\ raced' \in Nat
      BY <3>1
    <3>. QED  BY <3>3, <3>4, <3>5
  <2>. QED  BY <1>7, <2>1, <2>2
<1>8. ASSUME UNCHANGED <<requeue, history>>
      PROVE  Rest'
  BY <1>8 DEF requeue, history
<1>. QED
  BY <1>1, <1>2, <1>3, <1>4, <1>5, <1>6, <1>7, <1>8
  DEF Next, WorkerStep, Admin, SetExpiry, Expire, Start, CheckStop, Dequeue, FindEmpty,
      Bury, Scan, Unlist, Push, EndIteration

LEMMA LapsesStep ==
    ASSUME Types, Next
    PROVE  Lapses'
<1>. USE DEF Types, Lapses
<1>1. ASSUME NEW w \in Workers, Interrupt(w)
      PROVE  Lapses'
  <2>1. job[w].id \in Jobs
    BY <1>1 DEF Interrupt, Local
  <2>. QED  BY <1>1, <2>1 DEF Interrupt, expiry
<1>2. ASSUME NEW j \in Jobs, Submit(j) \/ SetExpiry(j)
      PROVE  Lapses'
  BY <1>2 DEF Submit, SetExpiry, history
<1>3. CASE Expire
  BY <1>3 DEF Expire, history
<1>4. ASSUME KeyOfQueue, UNCHANGED interrupted
      PROVE  Lapses'
  BY <1>4 DEF KeyOfQueue
<1>5. ASSUME UNCHANGED <<expiry, interrupted>>
      PROVE  Lapses'
  BY <1>5 DEF expiry
<1>. QED
  BY <1>1, <1>2, <1>3, <1>4, <1>5
  DEF Next, WorkerStep, Admin, PushJunk, Start, CheckStop, Dequeue, FindEmpty, Bury, Run,
      Finish, Scan, Unlist, Push, EndIteration, Terminate, LoseWorker, CommandFails,
      MoveDead, StripMoved, PushReset, LoseAdmin, history

LEMMA TypesStep ==
    ASSUME Types, [Next]_vars
    PROVE  Types'
<1>1. CASE Next
  BY <1>1, ListsStep, LocalStep, RestStep, LapsesStep DEF Types
<1>2. CASE UNCHANGED vars
  BY <1>2 DEF Types, Lists, Local, Rest, Lapses, vars, redis, worker, requeue, history,
              expiry
<1>. QED  BY <1>1, <1>2

\* Every variable keeps its type, and a worker holds a job exactly between the
\* dequeue and the end of the iteration.
THEOREM QueueTypeCorrect == Spec => []TypeOK
<1>1. Types /\ [Next]_vars => Types'
  BY TypesStep
<1>. QED
  BY TypesInit, <1>1, TypesGiveTypeOK, PTL DEF Spec

-----------------------------------------------------------------------------
(* Live copies.                                                            *)

Tally(j) == LiveCopies(j) + One(j \in completed)

Parts(j) ==
    /\ Copies(queue, j) \in Nat /\ Copies(dead, j) \in Nat
    /\ IsFiniteSet(Holders(j)) /\ Cardinality(Holders(j)) \in Nat
    /\ InTransfer(j) \in {0, 1}
    /\ Tally(j) = Copies(queue, j) + Copies(dead, j) + Cardinality(Holders(j))
                    + InTransfer(j) + One(j \in completed)
    /\ Tally(j) \in Nat

LEMMA TallyParts == Types => \A j \in Jobs : Parts(j)
<1>. SUFFICES ASSUME Types, NEW j \in Jobs
              PROVE  Parts(j)
  OBVIOUS
<1>1. Copies(queue, j) \in Nat /\ Copies(dead, j) \in Nat
  BY CopiesCount DEF Types, Lists
<1>2. IsFiniteSet(Holders(j)) /\ Cardinality(Holders(j)) \in Nat
  <2>1. Holders(j) \in SUBSET Workers
    BY DEF Holders
  <2>. QED  BY <2>1, JobQueueAssumption, FS_Subset, FS_CardinalityType
<1>3. InTransfer(j) \in {0, 1}
  BY DEF InTransfer
<1>4. One(j \in completed) \in {0, 1}
  BY DEF One
<1>. QED  BY <1>1, <1>2, <1>3, <1>4 DEF Parts, Tally, LiveCopies

LEMMA TallyPartsNext == Types' => (\A j \in Jobs : Parts(j))'
BY TallyParts, PTL

LEMMA SameElsewhere ==
    ASSUME NEW A, NEW B, NEW w, IsFiniteSet(A), IsFiniteSet(B),
           B \ {w} = A \ {w}
    PROVE  Cardinality(B) + One(w \in A) = Cardinality(A) + One(w \in B)
<1>1. Cardinality(A) \in Nat /\ Cardinality(B) \in Nat
  BY FS_CardinalityType
<1>2. Cardinality(A \ {w}) = IF w \in A THEN Cardinality(A) - 1 ELSE Cardinality(A)
  BY FS_RemoveElement
<1>3. Cardinality(B \ {w}) = IF w \in B THEN Cardinality(B) - 1 ELSE Cardinality(B)
  BY FS_RemoveElement
<1>4. Cardinality(A \ {w}) = Cardinality(B \ {w})
  OBVIOUS
<1>5. CASE w \in A
  BY <1>1, <1>2, <1>3, <1>4, <1>5 DEF One
<1>6. CASE w \notin A
  BY <1>1, <1>2, <1>3, <1>4, <1>6 DEF One
<1>. QED  BY <1>5, <1>6

\* The processes but w stay where they are.
Elsewhere(w) ==
    \A u \in Workers \ {w} : /\ job'[u] = job[u] /\ pc'[u] = pc[u]
                             /\ outcome'[u] = outcome[u]

\* A step of one process changes the holders by that process at most.
LEMMA HoldersMove ==
    ASSUME Types, Types', NEW j \in Jobs, NEW w \in Workers,
           Elsewhere(w)
    PROVE  Cardinality(Holders(j)') + One(w \in Holders(j))
                = Cardinality(Holders(j)) + One(w \in Holders(j)')
<1>1. Holders(j)' \ {w} = Holders(j) \ {w}
  BY DEF Holders, Elsewhere
<1>2. IsFiniteSet(Holders(j))
  BY TallyParts DEF Parts
<1>3. IsFiniteSet(Holders(j)')
  BY TallyPartsNext DEF Parts
<1>. QED  BY <1>1, <1>2, <1>3, SameElsewhere

\* A process that becomes no holder, lists that stay.
LEMMA NoNewHolder ==
    ASSUME Types, Types', NEW j \in Jobs, NEW w \in Workers,
           Elsewhere(w),
           w \in Holders(j)' => w \in Holders(j),
           UNCHANGED <<queue, dead, admin, stripped, completed>>
    PROVE  Tally(j)' <= Tally(j)
<1>1. Cardinality(Holders(j)') <= Cardinality(Holders(j))
  <2>1. Cardinality(Holders(j)') \in Nat /\ Cardinality(Holders(j)) \in Nat
    BY TallyParts, TallyPartsNext DEF Parts
  <2>. QED  BY <2>1, HoldersMove DEF One
<1>2. InTransfer(j)' = InTransfer(j) /\ One(j \in completed') = One(j \in completed)
  BY DEF InTransfer
<1>3. Parts(j) /\ Parts(j)'
  BY TallyParts, TallyPartsNext
<1>4. One(j \in completed) \in Nat
  BY DEF One
<1>. QED  BY <1>1, <1>2, <1>3, <1>4 DEF Parts

LEMMA GoneIsNoHolder ==
    ASSUME Types, NEW j \in Jobs, NEW w \in Workers, Gone(w)
    PROVE  Elsewhere(w) /\ w \notin Holders(j)'
BY DEF Types, Local, Gone, Goto, Elsewhere, Holders

LEMMA NoJobIsNoHolder ==
    ASSUME Types, NEW j \in Jobs, NEW w \in Workers, NoJob(w)
    PROVE  Elsewhere(w) /\ w \notin Holders(j)'
<1>1. CASE Gone(w)
  BY <1>1, GoneIsNoHolder
<1>2. CASE ~Gone(w)
  BY <1>2 DEF NoJob, Types, Local, Goto, Elsewhere, Holders
<1>. QED  BY <1>1, <1>2

\* The steps that touch neither the queue nor the dead letters.
LEMMA QuietTally ==
    ASSUME Types, Types', NEW j \in Jobs, NEW w \in Workers,
           \/ Start(w) \/ CheckStop(w) \/ FindEmpty(w) \/ Run(w) \/ Scan(w)
           \/ Unlist(w) \/ EndIteration(w) \/ Terminate(w) \/ Interrupt(w)
           \/ LoseWorker(w) \/ CommandFails(w)
    PROVE  Tally(j)' <= Tally(j)
<1>1. UNCHANGED <<queue, dead, admin, stripped, completed>>
  BY DEF Start, CheckStop, FindEmpty, Run, Scan, Unlist, EndIteration, Terminate,
         Interrupt, LoseWorker, CommandFails, redis, requeue, history
<1>2. Elsewhere(w) /\ (w \in Holders(j)' => w \in Holders(j))
  <2>1. CASE FindEmpty(w)
    BY <2>1, NoJobIsNoHolder DEF FindEmpty
  <2>2. CASE Gone(w)
    BY <2>2, GoneIsNoHolder
  <2>3. CASE Start(w) \/ (CheckStop(w) /\ ~Gone(w))
    BY <2>3 DEF Start, CheckStop, Types, Local, Goto, Elsewhere, Holders
  <2>4. CASE Run(w)
    BY <2>4 DEF Run, Types, Local, Goto, Elsewhere, Holders
  <2>5. CASE Scan(w)
    <3>1. /\ pc[w] = "scan" /\ UNCHANGED <<job, outcome>>
          /\ \E p \in {"remove", "beat", "push"} : pc' = [pc EXCEPT ![w] = p]
      BY <2>5 DEF Scan, Goto, AfterRemoval
    <3>. QED  BY <3>1 DEF Types, Local, Elsewhere, Holders
  <2>6. CASE Unlist(w) \/ EndIteration(w)
    BY <2>6 DEF Unlist, EndIteration, AfterRemoval, Types, Local, Goto,
                Elsewhere, Holders
  <2>7. CASE Terminate(w) \/ CommandFails(w)
    BY <2>7 DEF Terminate, CommandFails, Types, Local, Goto, Elsewhere, Holders
  <2>. QED
    BY <2>1, <2>2, <2>3, <2>4, <2>5, <2>6, <2>7 DEF Interrupt, LoseWorker
<1>. QED  BY <1>1, <1>2, NoNewHolder

LEMMA DequeueTally ==
    ASSUME Types, Types', NEW j \in Jobs, NEW w \in Workers, Dequeue(w)
    PROVE  Tally(j)' <= Tally(j)
<1>1. UNCHANGED <<dead, admin, stripped, completed>>
  BY DEF Dequeue, requeue, history
<1>2. Copies(queue', j) + One(Last(queue).id = j) <= Copies(queue, j)
  BY TakeLast DEF Dequeue, Types, Lists
<1>3. /\ pc[w] = "polling" /\ job' = [job EXCEPT ![w] = Last(queue)]
      /\ \E p \in {"bury", "ready"} : pc' = [pc EXCEPT ![w] = p]
      /\ UNCHANGED outcome
  BY DEF Dequeue, Claimed, Goto
<1>4. /\ Elsewhere(w) /\ w \notin Holders(j)
      /\ w \in Holders(j)' => Last(queue).id = j
  BY <1>3 DEF Types, Local, Elsewhere, Holders
<1>5. Cardinality(Holders(j)') <= Cardinality(Holders(j)) + One(Last(queue).id = j)
  <2>1. Cardinality(Holders(j)') + One(w \in Holders(j))
          = Cardinality(Holders(j)) + One(w \in Holders(j)')
    BY <1>4, HoldersMove
  <2>2. Cardinality(Holders(j)') \in Nat /\ Cardinality(Holders(j)) \in Nat
    BY TallyParts, TallyPartsNext DEF Parts
  <2>. QED  BY <1>4, <2>1, <2>2 DEF One
<1>6. InTransfer(j)' = InTransfer(j) /\ One(j \in completed') = One(j \in completed)
  BY <1>1 DEF InTransfer
<1>7. /\ Parts(j) /\ Parts(j)' /\ One(j \in completed) \in Nat
      /\ One(Last(queue).id = j) \in Nat
  BY TallyParts, TallyPartsNext DEF One
<1>. QED  BY <1>1, <1>2, <1>5, <1>6, <1>7 DEF Parts

\* The dead letter is malformed, so no job gains a copy.
LEMMA BuryTally ==
    ASSUME Types, Types', NEW j \in Jobs, NEW w \in Workers, Bury(w)
    PROVE  Tally(j)' <= Tally(j)
<1>1. UNCHANGED <<queue, admin, stripped, completed>>
  BY DEF Bury, requeue, history
<1>2. Copies(dead', j) <= Copies(dead, j)
  <2>1. job[w] \in Entries /\ job[w].id # j
    BY JobQueueAssumption DEF Bury, Types, Local, Malformed
  <2>2. dead' = <<job[w]>> \o dead
    BY DEF Bury, DeadLettered
  <2>3. Copies(dead', j) <= Copies(dead, j) + One(job[w].id = j)
    BY <2>1, <2>2, PutFirst DEF Types, Lists
  <2>4. Copies(dead, j) \in Nat
    BY TallyParts DEF Parts
  <2>. QED  BY <2>1, <2>3, <2>4 DEF One
<1>3. Cardinality(Holders(j)') <= Cardinality(Holders(j))
  <2>1. Elsewhere(w) /\ w \notin Holders(j)'
    BY NoJobIsNoHolder DEF Bury
  <2>2. Cardinality(Holders(j)') + One(w \in Holders(j))
          = Cardinality(Holders(j)) + One(w \in Holders(j)')
    BY <2>1, HoldersMove
  <2>3. Cardinality(Holders(j)') \in Nat /\ Cardinality(Holders(j)) \in Nat
    BY TallyParts, TallyPartsNext DEF Parts
  <2>. QED  BY <2>1, <2>2, <2>3 DEF One
<1>4. InTransfer(j)' = InTransfer(j) /\ One(j \in completed') = One(j \in completed)
  BY <1>1 DEF InTransfer
<1>5. Parts(j) /\ Parts(j)' /\ One(j \in completed) \in Nat
  BY TallyParts, TallyPartsNext DEF One
<1>. QED  BY <1>1, <1>2, <1>3, <1>4, <1>5 DEF Parts

\* A job that completes was held by the process that ran it, and is no more.
LEMMA FinishTally ==
    ASSUME Types, Types', NEW j \in Jobs, NEW w \in Workers, Finish(w)
    PROVE  Tally(j)' <= Tally(j)
<1>1. UNCHANGED <<queue, dead, admin, stripped>>
  BY DEF Finish, redis, requeue
<1>2. /\ pc[w] = "running" /\ pc' = [pc EXCEPT ![w] = "scan"]
      /\ UNCHANGED job /\ outcome[w] = "none" /\ job[w] # Nothing
  BY DEF Finish, Goto, Types, Local
<1>3. CASE /\ outcome' = [outcome EXCEPT ![w] = "ok"]
           /\ completed' = completed \cup {job[w].id}
  <2>1. /\ Elsewhere(w) /\ w \notin Holders(j)'
        /\ w \in Holders(j) <=> job[w].id = j
    BY <1>2, <1>3 DEF Types, Local, Elsewhere, Holders
  <2>2. Cardinality(Holders(j)') + One(w \in Holders(j))
          = Cardinality(Holders(j)) + One(w \in Holders(j)')
    BY <2>1, HoldersMove
  <2>3. One(j \in completed') <= One(j \in completed) + One(job[w].id = j)
    BY <1>3 DEF One
  <2>4. One(w \in Holders(j)) = One(job[w].id = j) /\ One(w \in Holders(j)') = 0
    BY <2>1 DEF One
  <2>5. InTransfer(j)' = InTransfer(j)
    BY <1>1 DEF InTransfer
  <2>6. /\ Parts(j) /\ Parts(j)' /\ One(j \in completed) \in Nat
        /\ One(j \in completed') \in Nat /\ One(job[w].id = j) \in Nat
    BY TallyParts, TallyPartsNext DEF One
  <2>. QED  BY <1>1, <2>2, <2>3, <2>4, <2>5, <2>6 DEF Parts
<1>4. CASE outcome' = [outcome EXCEPT ![w] = "failed"] /\ UNCHANGED completed
  <2>1. Elsewhere(w) /\ (w \in Holders(j)' => w \in Holders(j))
    BY <1>2, <1>4 DEF Types, Local, Elsewhere, Holders
  <2>. QED  BY <1>1, <1>4, <2>1, NoNewHolder
<1>. QED  BY <1>3, <1>4 DEF Finish

\* The entry pushed takes the place of the process that held the job.
LEMMA PushTally ==
    ASSUME Types, Types', NEW j \in Jobs, NEW w \in Workers, Push(w)
    PROVE  Tally(j)' <= Tally(j)
<1>. DEFINE e == [job[w] EXCEPT !.retries = @ + 1]
<1>1. UNCHANGED <<admin, stripped, completed>>
  BY DEF Push, requeue, history
<1>2. /\ pc[w] = "push" /\ pc' = [pc EXCEPT ![w] = "beat"]
      /\ UNCHANGED <<job, outcome>>
      /\ job[w] \in Entries /\ job[w] # Nothing /\ outcome[w] # "ok"
  BY DEF Push, Goto, Types, Local
<1>3. e \in Entries /\ e.id = job[w].id
  BY <1>2, Retried
<1>4. Copies(queue', j) + Copies(dead', j)
        <= Copies(queue, j) + Copies(dead, j) + One(job[w].id = j)
  <2>1. Parts(j) /\ Parts(j)' /\ One(job[w].id = j) \in Nat
    BY TallyParts, TallyPartsNext DEF One
  <2>2. CASE dead' = <<e>> \o dead /\ UNCHANGED queue
    <3>1. Copies(dead', j) <= Copies(dead, j) + One(job[w].id = j)
      BY <1>3, <2>2, PutFirst DEF Types, Lists
    <3>. QED  BY <2>1, <2>2, <3>1 DEF Parts
  <2>3. CASE queue' = <<e>> \o queue /\ UNCHANGED dead
    <3>1. Copies(queue', j) <= Copies(queue, j) + One(job[w].id = j)
      BY <1>3, <2>3, PutFirst DEF Types, Lists
    <3>. QED  BY <2>1, <2>3, <3>1 DEF Parts
  <2>. QED  BY <2>2, <2>3 DEF Push, DeadLettered
<1>5. /\ Elsewhere(w) /\ w \notin Holders(j)'
      /\ w \in Holders(j) <=> job[w].id = j
  BY <1>2 DEF Types, Local, Elsewhere, Holders
<1>6. Cardinality(Holders(j)') + One(w \in Holders(j))
        = Cardinality(Holders(j)) + One(w \in Holders(j)')
  BY <1>5, HoldersMove
<1>7. One(w \in Holders(j)) = One(job[w].id = j) /\ One(w \in Holders(j)') = 0
  BY <1>5 DEF One
<1>8. InTransfer(j)' = InTransfer(j) /\ One(j \in completed') = One(j \in completed)
  BY <1>1 DEF InTransfer
<1>9. /\ Parts(j) /\ Parts(j)' /\ One(j \in completed) \in Nat
      /\ One(job[w].id = j) \in Nat
  BY TallyParts, TallyPartsNext DEF One
<1>. QED  BY <1>4, <1>6, <1>7, <1>8, <1>9 DEF Parts

LEMMA WorkerTally ==
    ASSUME Types, Types', NEW j \in Jobs, NEW w \in Workers, WorkerStep(w)
    PROVE  Tally(j)' <= Tally(j)
BY QuietTally, DequeueTally, BuryTally, FinishTally, PushTally DEF WorkerStep

-----------------------------------------------------------------------------
(* requeueDeadJobs and the producers.  None of them moves a process.       *)

LEMMA HoldersStay ==
    ASSUME UNCHANGED worker, NEW j \in Jobs
    PROVE  Holders(j)' = Holders(j)
BY DEF worker, Holders

LEMMA MoveDeadTally ==
    ASSUME Types, Types', NEW j \in Jobs, MoveDead
    PROVE  Tally(j)' <= Tally(j)
<1>1. /\ dead # << >> /\ dead' = Front(dead) /\ queue' = <<Last(dead)>> \o queue
      /\ UNCHANGED <<worker, stripped, completed>> /\ admin = Nothing
  BY DEF MoveDead, history
<1>2. /\ Last(dead) \in Entries
      /\ Copies(dead', j) + One(Last(dead).id = j) <= Copies(dead, j)
  BY <1>1, TakeLast DEF Types, Lists
<1>3. Copies(queue', j) <= Copies(queue, j) + One(Last(dead).id = j)
  BY <1>1, <1>2, PutFirst DEF Types, Lists
<1>4. InTransfer(j) = 0 /\ InTransfer(j)' = 0
  <2>1. ~stripped
    BY <1>1, Zenon DEF Types, Rest
  <2>2. stripped' = stripped
    BY <1>1
  <2>. QED  BY <2>1, <2>2 DEF InTransfer
<1>5. Holders(j)' = Holders(j) /\ One(j \in completed') = One(j \in completed)
  BY <1>1, HoldersStay
<1>6. /\ Parts(j) /\ Parts(j)' /\ One(j \in completed) \in Nat
      /\ One(Last(dead).id = j) \in Nat
  BY TallyParts, TallyPartsNext DEF One
<1>. QED  BY <1>2, <1>3, <1>4, <1>5, <1>6 DEF Parts

\* Either the entry is taken back, or the race is counted.
LEMMA StripMovedTally ==
    ASSUME Types, Types', NEW j \in Jobs, StripMoved
    PROVE  /\ raced' \in {raced, raced + 1}
           /\ Tally(j)' <= Tally(j) + (raced' - raced)
           /\ admin.id # j => Tally(j)' <= Tally(j)
<1>1. /\ ~stripped /\ stripped' = TRUE /\ queue' = RemoveFirst(queue, admin)
      /\ raced' = IF Contains(queue, admin) THEN raced ELSE raced + 1
      /\ UNCHANGED <<dead, worker, admin, completed>>
  BY DEF StripMoved, TakenBack, history
<1>2. Copies(queue', j)
        + (IF Contains(queue, admin) THEN One(admin.id = j) ELSE 0)
            <= Copies(queue, j)
  BY <1>1, TakeOut DEF Types, Lists
<1>3. InTransfer(j) = 0 /\ InTransfer(j)' = One(admin.id = j)
  BY <1>1 DEF InTransfer, One
<1>4. Holders(j)' = Holders(j) /\ One(j \in completed') = One(j \in completed)
  BY <1>1, HoldersStay
<1>5. /\ Parts(j) /\ Parts(j)' /\ One(j \in completed) \in Nat
      /\ One(admin.id = j) \in {0, 1} /\ raced \in Nat
  BY TallyParts, TallyPartsNext DEF One, Types, Rest
<1>6. admin.id # j => One(admin.id = j) = 0
  BY DEF One
<1>7. CASE Contains(queue, admin)
  <2>1. raced' = raced /\ Copies(queue', j) + One(admin.id = j) <= Copies(queue, j)
    BY <1>1, <1>2, <1>7
  <2>2. Tally(j)' <= Tally(j)
    BY <1>1, <1>3, <1>4, <1>5, <2>1 DEF Parts
  <2>. QED  BY <1>5, <2>1, <2>2 DEF Parts
<1>8. CASE ~Contains(queue, admin)
  <2>1. raced' = raced + 1 /\ Copies(queue', j) <= Copies(queue, j)
    <3>1. Copies(queue', j) + 0 <= Copies(queue, j)
      BY <1>2, <1>8
    <3>2. Copies(queue', j) \in Nat
      BY <1>5 DEF Parts
    <3>. QED  BY <1>1, <1>8, <3>1, <3>2
  <2>2. Tally(j)' <= Tally(j) + One(admin.id = j)
    BY <1>1, <1>3, <1>4, <1>5, <2>1 DEF Parts
  <2>. QED  BY <1>5, <1>6, <2>1, <2>2 DEF Parts
<1>. QED  BY <1>7, <1>8

LEMMA PushResetTally ==
    ASSUME Types, Types', NEW j \in Jobs, PushReset
    PROVE  Tally(j)' <= Tally(j)
<1>. DEFINE e == [admin EXCEPT !.retries = 0]
<1>1. /\ stripped /\ stripped' = FALSE /\ queue' = <<e>> \o queue
      /\ UNCHANGED <<dead, worker, completed>>
  BY DEF PushReset, history
<1>2. admin \in Entries
  BY <1>1, Zenon DEF Types, Rest
<1>3. e \in Entries /\ e.id = admin.id
  BY <1>2, Retried
<1>4. Copies(queue', j) <= Copies(queue, j) + One(admin.id = j)
  BY <1>1, <1>3, PutFirst DEF Types, Lists
<1>5. InTransfer(j) = One(admin.id = j) /\ InTransfer(j)' = 0
  BY <1>1 DEF InTransfer, One
<1>6. Holders(j)' = Holders(j) /\ One(j \in completed') = One(j \in completed)
  BY <1>1, HoldersStay
<1>7. /\ Parts(j) /\ Parts(j)' /\ One(j \in completed) \in Nat
      /\ One(admin.id = j) \in Nat
  BY TallyParts, TallyPartsNext DEF One
<1>. QED  BY <1>1, <1>4, <1>5, <1>6, <1>7 DEF Parts

LEMMA LoseAdminTally ==
    ASSUME Types, Types', NEW j \in Jobs, LoseAdmin
    PROVE  Tally(j)' <= Tally(j)
<1>1. stripped' = FALSE /\ UNCHANGED <<queue, dead, worker, completed>>
  BY DEF LoseAdmin, redis
<1>2. InTransfer(j)' = 0
  BY <1>1 DEF InTransfer
<1>3. Holders(j)' = Holders(j) /\ One(j \in completed') = One(j \in completed)
  BY <1>1, HoldersStay
<1>4. Parts(j) /\ Parts(j)' /\ One(j \in completed) \in Nat
  BY TallyParts, TallyPartsNext DEF One
<1>. QED  BY <1>1, <1>2, <1>3, <1>4 DEF Parts

\* The expiry of the queue.
Lapse == Expire \/ \E j \in Jobs : SetExpiry(j)

LEMMA LapseStays ==
    ASSUME Lapse
    PROVE  /\ UNCHANGED <<processing, dead, worker, requeue, history>>
           /\ \/ queue' = queue
              \/ /\ queue' = << >>
                 /\ {j \in Jobs : Copies(queue, j) > 0} \subseteq expired'
BY DEF Lapse, Expire, SetExpiry, redis

LEMMA LapseTally ==
    ASSUME Types, Types', NEW j \in Jobs, Lapse
    PROVE  Tally(j)' <= Tally(j)
<1>1. UNCHANGED <<dead, worker, admin, stripped, completed>>
  BY LapseStays DEF requeue, history
<1>2. Copies(queue, j)' = Copies(queue, j) \/ Copies(queue, j)' = 0
  BY LapseStays, CopiesEmpty
<1>3. InTransfer(j)' = InTransfer(j) /\ One(j \in completed') = One(j \in completed)
      /\ Holders(j)' = Holders(j) /\ Copies(dead, j)' = Copies(dead, j)
  BY <1>1, HoldersStay DEF InTransfer
<1>4. Parts(j) /\ Parts(j)' /\ One(j \in completed) \in Nat
  BY TallyParts, TallyPartsNext DEF One
<1>5. /\ Copies(queue, j) \in Nat /\ Copies(dead, j) \in Nat
      /\ Cardinality(Holders(j)) \in Nat /\ InTransfer(j) \in Nat
      /\ Tally(j)' = Copies(queue, j)' + Copies(dead, j) + Cardinality(Holders(j))
                     + InTransfer(j) + One(j \in completed)
  BY <1>3, <1>4 DEF Parts
<1>. QED  BY <1>2, <1>4, <1>5 DEF Parts

LEMMA SubmitTally ==
    ASSUME Types, Types', NEW j \in Jobs, NEW x \in Jobs \cup Junk,
           Submit(x) \/ PushJunk(x)
    PROVE  Tally(j)' <= Tally(j) + One(x = j)
<1>. DEFINE e == [id |-> x, retries |-> 0]
<1>1. /\ queue' = <<e>> \o queue
      /\ UNCHANGED <<dead, worker, admin, stripped, completed>>
  BY DEF Submit, PushJunk, requeue
<1>2. e \in Entries /\ e.id = x
  BY DEF Entries
<1>3. Copies(queue', j) <= Copies(queue, j) + One(x = j)
  BY <1>1, <1>2, PutFirst DEF Types, Lists
<1>4. InTransfer(j)' = InTransfer(j) /\ One(j \in completed') = One(j \in completed)
      /\ Holders(j)' = Holders(j)
  BY <1>1, HoldersStay DEF InTransfer
<1>5. Parts(j) /\ Parts(j)' /\ One(j \in completed) \in Nat /\ One(x = j) \in Nat
  BY TallyParts, TallyPartsNext DEF One
<1>6. Copies(dead, j)' = Copies(dead, j)
  BY <1>1
<1>7. /\ Copies(queue, j)' \in Nat /\ Copies(dead, j) \in Nat
      /\ Cardinality(Holders(j)) \in Nat /\ InTransfer(j) \in Nat
      /\ Tally(j)' = Copies(queue, j)' + Copies(dead, j)
                     + Cardinality(Holders(j)) + InTransfer(j)
                     + One(j \in completed)
  BY <1>4, <1>5, <1>6 DEF Parts
<1>. QED  BY <1>3, <1>5, <1>7 DEF Parts

-----------------------------------------------------------------------------
(* The invariant.                                                          *)

Conserved(j) ==
    /\ Tally(j) <= 1 + raced
    /\ j \notin submitted => Tally(j) = 0

\* The second conjunct of Conserved and the last one of QueueInv are there for
\* each other: what is moved was submitted, or there would be no such letter.
QueueInv ==
    /\ Types
    /\ \A j \in Jobs : Conserved(j)
    /\ admin # Nothing => admin.id \in submitted

LEMMA QueueInit == Init => QueueInv
<1>. SUFFICES ASSUME Init
              PROVE  QueueInv
  OBVIOUS
<1>1. Types
  BY TypesInit
<1>2. ASSUME NEW j \in Jobs
      PROVE  Tally(j) = 0
  <2>1. Copies(queue, j) = 0 /\ Copies(dead, j) = 0
    BY CopiesEmpty DEF Init
  <2>2. Holders(j) = {}
    BY DEF Init, Holders
  <2>3. Cardinality(Holders(j)) = 0
    BY <2>2, FS_EmptySet
  <2>4. InTransfer(j) = 0 /\ One(j \in completed) = 0
    BY DEF Init, InTransfer, One
  <2>. QED  BY <1>1, <2>1, <2>3, <2>4, TallyParts DEF Parts
<1>. QED  BY <1>1, <1>2 DEF QueueInv, Conserved, Init

LEMMA KeepsConserved ==
    ASSUME Types, Types', NEW j \in Jobs, Conserved(j), Tally(j)' <= Tally(j),
           raced' = raced \/ raced' = raced + 1, submitted \subseteq submitted'
    PROVE  Conserved(j)'
<1>1. Tally(j) \in Nat /\ Tally(j)' \in Nat /\ raced \in Nat
  BY TallyParts, TallyPartsNext DEF Parts, Types, Rest
<1>. QED  BY <1>1 DEF Conserved

LEMMA QueueStep ==
    ASSUME QueueInv, Next
    PROVE  QueueInv'
<1>1. Types /\ Types'
  BY TypesStep DEF QueueInv
<1>2. raced \in Nat
  BY <1>1 DEF Types, Rest
<1>3. ASSUME NEW x \in Jobs \cup Junk, Submit(x) \/ PushJunk(x)
      PROVE  QueueInv'
  <2>1. /\ x \notin submitted /\ submitted' = submitted \cup {x}
        /\ UNCHANGED <<admin, raced>>
    BY <1>3 DEF Submit, PushJunk, requeue
  <2>2. ASSUME NEW j \in Jobs
        PROVE  Conserved(j)'
    <3>1. Conserved(j) /\ Tally(j)' <= Tally(j) + One(x = j)
      BY <1>1, <1>3, SubmitTally DEF QueueInv
    <3>2. Tally(j) \in Nat /\ Tally(j)' \in Nat
      BY <1>1, TallyParts, TallyPartsNext DEF Parts
    <3>3. CASE x = j
      BY <1>2, <2>1, <3>1, <3>2, <3>3 DEF Conserved, One
    <3>4. CASE x # j
      BY <1>2, <2>1, <3>1, <3>2, <3>4 DEF Conserved, One
    <3>. QED  BY <3>3, <3>4
  <2>. QED  BY <1>1, <2>1, <2>2 DEF QueueInv
<1>4. ASSUME NEW w \in Workers,
             \/ WorkerStep(w) \/ Start(w) \/ Terminate(w) \/ Interrupt(w)
             \/ LoseWorker(w) \/ CommandFails(w)
      PROVE  QueueInv'
  <2>1. UNCHANGED <<admin, raced, submitted>>
    BY <1>4 DEF WorkerStep, Start, CheckStop, Dequeue, FindEmpty, Bury, Run,
                Finish, Scan, Unlist, Push, EndIteration, Terminate, Interrupt,
                LoseWorker, CommandFails, requeue, history
  <2>2. ASSUME NEW j \in Jobs
        PROVE  Conserved(j)'
    <3>1. Tally(j)' <= Tally(j)
      BY <1>1, <1>4, WorkerTally, QuietTally
    <3>. QED  BY <1>1, <2>1, <3>1, KeepsConserved DEF QueueInv
  <2>. QED  BY <1>1, <2>1, <2>2 DEF QueueInv
<1>5. CASE MoveDead
  <2>1. /\ dead # << >> /\ UNCHANGED <<raced, submitted>>
        /\ admin' = IF Malformed(Last(dead)) THEN Nothing ELSE Last(dead)
    BY <1>5 DEF MoveDead, history
  <2>2. ASSUME ~Malformed(Last(dead))
        PROVE  Last(dead).id \in submitted
    <3>. DEFINE i == Last(dead).id
    <3>1. i \in Jobs
      BY <1>1, <2>1, <2>2, Popped DEF Types, Lists
    <3>2. Copies(Front(dead), i) + One(i = i) <= Copies(dead, i)
      BY <1>1, <2>1, TakeLast DEF Types, Lists
    <3>3. Front(dead) \in Seq(Entries)
      BY <1>1, <2>1, Popped DEF Types, Lists
    <3>4. Copies(Front(dead), i) \in Nat /\ One(i = i) = 1
      BY <3>3, CopiesCount DEF One
    <3>5. Parts(i) /\ One(i \in completed) \in Nat
      BY <1>1, <3>1, TallyParts DEF One
    <3>6. Tally(i) # 0
      BY <3>2, <3>4, <3>5 DEF Parts
    <3>. QED  BY <3>1, <3>6 DEF QueueInv, Conserved
  <2>3. ASSUME NEW j \in Jobs
        PROVE  Conserved(j)'
    BY <1>1, <1>5, <2>1, MoveDeadTally, KeepsConserved DEF QueueInv
  <2>. QED  BY <1>1, <2>1, <2>2, <2>3 DEF QueueInv
<1>6. CASE StripMoved
  <2>1. UNCHANGED <<admin, submitted>> /\ admin # Nothing
    BY <1>6 DEF StripMoved, history
  <2>2. ASSUME NEW j \in Jobs
        PROVE  Conserved(j)'
    <3>1. /\ raced' \in {raced, raced + 1}
          /\ Tally(j)' <= Tally(j) + (raced' - raced)
          /\ admin.id # j => Tally(j)' <= Tally(j)
      BY <1>1, <1>6, StripMovedTally
    <3>2. Conserved(j) /\ Tally(j) \in Nat /\ Tally(j)' \in Nat
      BY <1>1, TallyParts, TallyPartsNext DEF Parts, QueueInv
    <3>3. CASE admin.id = j
      <4>1. j \in submitted'
        BY <2>1, <3>3 DEF QueueInv
      <4>2. Tally(j)' <= 1 + raced'
        BY <1>2, <3>1, <3>2 DEF Conserved
      <4>. QED  BY <4>1, <4>2 DEF Conserved
    <3>4. CASE admin.id # j
      BY <1>1, <2>1, <3>1, <3>2, <3>4, KeepsConserved
    <3>. QED  BY <3>3, <3>4
  <2>. QED  BY <1>1, <2>1, <2>2 DEF QueueInv
<1>7. CASE PushReset \/ LoseAdmin
  <2>1. admin' = Nothing /\ UNCHANGED <<raced, submitted>>
    BY <1>7 DEF PushReset, LoseAdmin, history
  <2>2. ASSUME NEW j \in Jobs
        PROVE  Conserved(j)'
    BY <1>1, <1>7, <2>1, PushResetTally, LoseAdminTally, KeepsConserved
    DEF QueueInv
  <2>. QED  BY <1>1, <2>1, <2>2 DEF QueueInv
<1>8. CASE Lapse
  <2>1. UNCHANGED <<admin, raced, submitted>>
    BY <1>8, LapseStays DEF requeue, history
  <2>2. ASSUME NEW j \in Jobs
        PROVE  Conserved(j)'
    BY <1>1, <1>8, <2>1, LapseTally, KeepsConserved DEF QueueInv
  <2>. QED  BY <1>1, <2>1, <2>2 DEF QueueInv
<1>. QED
  BY <1>3, <1>4, <1>5, <1>6, <1>7, <1>8 DEF Next, Admin, Lapse

LEMMA QueueStutter ==
    ASSUME QueueInv, UNCHANGED vars
    PROVE  QueueInv'
<1>1. UNCHANGED <<redis, worker, requeue, history>>
  BY DEF vars
<1>2. \A j \in Jobs : Tally(j)' = Tally(j)
  BY <1>1 DEF redis, worker, requeue, history, Tally, LiveCopies, Holders,
              InTransfer
<1>3. Types'
  BY TypesStep DEF QueueInv
<1>. QED
  BY <1>1, <1>2, <1>3 DEF QueueInv, Conserved, requeue, history

LEMMA ConservedIsLive == QueueInv => OneLiveCopy
BY DEF QueueInv, Conserved, Tally, OneLiveCopy, One

\* A job has one live copy, and none once it completed, unless a worker claimed
\* the entry that requeueDeadJobs was moving, or it expired under the move:
\* whatever fails, whoever dies and
\* however many processes share the lists.
THEOREM OneCopyLives == Spec => []OneLiveCopy
<1>1. QueueInv /\ [Next]_vars => QueueInv'
  BY QueueStep, QueueStutter
<1>. QED
  BY QueueInit, <1>1, ConservedIsLive, PTL DEF Spec

-----------------------------------------------------------------------------
(* What stays on a list: the counts above from below.                      *)

LEMMA PutFirstKeeps ==
    ASSUME NEW s \in Seq(Entries), NEW e \in Entries, NEW j
    PROVE  /\ Copies(s, j) + One(e.id = j) <= Copies(<<e>> \o s, j)
           /\ \A x : Contains(s, x) => Contains(<<e>> \o s, x)
<1>. DEFINE t == <<e>> \o s
            S == IF e.id = j THEN Where(s, j) \cup {0} ELSE Where(s, j)
            f == [i \in S |-> i + 1]
<1>1. <<e>> \in Seq(Entries) /\ Len(<<e>>) = 1 /\ <<e>>[1] = e
  OBVIOUS
<1>2. /\ t \in Seq(Entries) /\ Len(t) = 1 + Len(s)
      /\ \A i \in 1..(1 + Len(s)) : t[i] = IF i <= 1 THEN e ELSE s[i - 1]
  BY <1>1, ConcatProperties
<1>. HIDE DEF t
<1>3. /\ Len(s) \in Nat /\ DOMAIN s = 1..Len(s)
      /\ Len(t) \in Nat /\ DOMAIN t = 1..(1 + Len(s))
  BY <1>2, LenProperties
<1>4. \A i \in 1..Len(s) : i + 1 \in 1..(1 + Len(s)) /\ t[i + 1] = s[i]
  BY <1>2, <1>3
<1>5. ASSUME NEW i \in S
      PROVE  i \in Nat /\ i + 1 \in Where(t, j)
  <2>1. CASE i \in Where(s, j)
    <3>1. i \in 1..Len(s) /\ s[i].id = j
      BY <1>3, <2>1 DEF Where
    <3>2. i + 1 \in DOMAIN t /\ t[i + 1].id = j
      BY <1>3, <1>4, <3>1
    <3>. QED  BY <3>1, <3>2 DEF Where
  <2>2. CASE i = 0 /\ e.id = j
    <3>1. t[1].id = j /\ 1 \in DOMAIN t
      BY <1>2, <1>3, <2>2
    <3>. QED  BY <2>2, <3>1 DEF Where
  <2>. QED  BY <1>5, <2>1, <2>2
<1>6. f \in Injection(S, Where(t, j))
  <2>1. f \in [S -> Where(t, j)]
    BY <1>5
  <2>2. \A a, b \in S : f[a] = f[b] => a = b
    BY <1>5
  <2>. QED  BY <2>1, <2>2, Fun_IsInj
<1>7. IsFiniteSet(Where(t, j)) /\ Cardinality(Where(t, j)) = Copies(t, j)
  BY <1>2, CopiesCount
<1>8. Cardinality(S) <= Copies(t, j)
  BY <1>6, <1>7, FS_Injection
<1>9. Cardinality(S) = Copies(s, j) + One(e.id = j)
  <2>1. /\ IsFiniteSet(Where(s, j)) /\ Copies(s, j) = Cardinality(Where(s, j))
        /\ Copies(s, j) \in Nat
    BY CopiesCount
  <2>2. 0 \notin Where(s, j)
    BY <1>3 DEF Where
  <2>3. Cardinality(Where(s, j) \cup {0}) = Copies(s, j) + 1
    BY <2>1, <2>2, FS_AddElement
  <2>. QED  BY <2>1, <2>3 DEF One
<1>10. ASSUME NEW x, Contains(s, x)
       PROVE  Contains(t, x)
  <2>1. PICK i \in 1..Len(s) : s[i] = x
    BY <1>10 DEF Contains
  <2>. QED  BY <1>2, <1>4, <2>1 DEF Contains
<1>. QED  BY <1>8, <1>9, <1>10 DEF t

LEMMA WithoutKeeps ==
    ASSUME NEW s \in Seq(Entries), NEW k \in 1..Len(s), NEW j
    PROVE  /\ Copies(s, j) <= Copies(Without(s, k), j) + One(s[k].id = j)
           /\ \A x : (Contains(s, x) /\ x # s[k]) => Contains(Without(s, k), x)
<1>. DEFINE t == Without(s, k)
            S == Where(s, j) \ {k}
            f == [i \in S |-> IF i < k THEN i ELSE i - 1]
<1>1. /\ t \in Seq(Entries) /\ Len(t) = Len(s) - 1
      /\ \A i \in 1..(Len(s) - 1) : t[i] = IF i < k THEN s[i] ELSE s[i + 1]
  BY WithoutPlace
<1>. HIDE DEF t
<1>2. /\ Len(s) \in Nat /\ DOMAIN s = 1..Len(s) /\ k \in Nat
      /\ DOMAIN t = 1..(Len(s) - 1)
  BY <1>1, LenProperties
<1>3. ASSUME NEW i \in 1..Len(s), i # k
      PROVE  /\ (IF i < k THEN i ELSE i - 1) \in 1..(Len(s) - 1)
             /\ t[IF i < k THEN i ELSE i - 1] = s[i]
  <2>1. CASE i < k
    BY <1>1, <1>2, <1>3, <2>1
  <2>2. CASE ~(i < k)
    <3>1. i - 1 \in 1..(Len(s) - 1) /\ ~(i - 1 < k) /\ (i - 1) + 1 = i
      BY <1>2, <1>3, <2>2
    <3>. QED  BY <1>1, <2>2, <3>1
  <2>. QED  BY <2>1, <2>2
<1>4. ASSUME NEW i \in S
      PROVE  i \in Nat /\ (IF i < k THEN i ELSE i - 1) \in Where(t, j)
  <2>1. i \in 1..Len(s) /\ i # k /\ s[i].id = j
    BY <1>2 DEF Where
  <2>. QED  BY <1>2, <1>3, <2>1 DEF Where
<1>5. f \in Injection(S, Where(t, j))
  <2>1. f \in [S -> Where(t, j)]
    BY <1>4
  <2>2. \A a, b \in S : f[a] = f[b] => a = b
    BY <1>2, <1>4
  <2>. QED  BY <2>1, <2>2, Fun_IsInj
<1>6. /\ IsFiniteSet(Where(s, j)) /\ Copies(s, j) = Cardinality(Where(s, j))
      /\ Copies(s, j) \in Nat
      /\ IsFiniteSet(Where(t, j))
      /\ Copies(t, j) = Cardinality(Where(t, j)) /\ Copies(t, j) \in Nat
  BY <1>1, CopiesCount
<1>7. Cardinality(S) <= Copies(t, j)
  BY <1>5, <1>6, FS_Injection
<1>8. Cardinality(S) = Copies(s, j) - One(s[k].id = j)
  <2>1. k \in Where(s, j) <=> s[k].id = j
    BY <1>2 DEF Where
  <2>2. Cardinality(Where(s, j) \ {k})
          = IF k \in Where(s, j) THEN Copies(s, j) - 1 ELSE Copies(s, j)
    BY <1>6, FS_RemoveElement
  <2>. QED  BY <1>6, <2>1, <2>2 DEF One
<1>9. ASSUME NEW x, Contains(s, x), x # s[k]
      PROVE  Contains(t, x)
  <2>1. PICK i \in 1..Len(s) : s[i] = x
    BY <1>9 DEF Contains
  <2>2. i # k
    BY <1>9, <2>1
  <2>. QED  BY <1>1, <1>3, <2>1, <2>2 DEF Contains
<1>10. One(s[k].id = j) \in {0, 1}
  BY DEF One
<1>. QED  BY <1>6, <1>7, <1>8, <1>9, <1>10 DEF t

LEMMA TakeOutKeeps ==
    ASSUME NEW s \in Seq(Entries), NEW e, NEW j
    PROVE  /\ Copies(s, j) <= Copies(RemoveFirst(s, e), j)
                + (IF Contains(s, e) THEN One(e.id = j) ELSE 0)
           /\ \A x : (Contains(s, x) /\ x # e) => Contains(RemoveFirst(s, e), x)
<1>1. CASE ~Contains(s, e)
  <2>1. RemoveFirst(s, e) = s
    BY <1>1 DEF Contains, RemoveFirst
  <2>. QED  BY <1>1, <2>1, CopiesCount
<1>2. CASE Contains(s, e)
  <2>. DEFINE I == {i \in 1..Len(s) : s[i] = e}
  <2>1. I \subseteq Nat /\ I # {} /\ Len(s) \in Nat
    BY <1>2, LenProperties DEF Contains
  <2>2. Min(I) \in 1..Len(s) /\ s[Min(I)] = e
    BY <2>1, MinIsMember
  <2>3. RemoveFirst(s, e) = Without(s, Min(I))
    BY <1>2, <2>1 DEF Contains, RemoveFirst, RemoveAt, SelectInSeq, Without
  <2>. QED  BY <1>2, <2>2, <2>3, WithoutKeeps
<1>. QED  BY <1>1, <1>2

LEMMA TakeLastKeeps ==
    ASSUME NEW s \in Seq(Entries), s # << >>, NEW j
    PROVE  Copies(s, j) <= Copies(Front(s), j) + One(Last(s).id = j)
<1>1. Len(s) \in Nat \ {0} /\ Len(s) \in 1..Len(s)
  BY LenProperties, EmptySeq
<1>2. Front(s) = Without(s, Len(s))
  <2>. DEFINE a == SubSeq(s, 1, Len(s) - 1)
              b == SubSeq(s, Len(s) + 1, Len(s))
  <2>1. \A i \in 1..Len(s) : s[i] \in Entries
    BY LenProperties
  <2>2. b = << >>
    BY <1>1, <2>1, SubSeqProperties, EmptySeq
  <2>3. a \in Seq(Entries)
    BY TakeLast DEF Front
  <2>4. a \o << >> = a
    BY <2>3, ConcatEmptySeq
  <2>. QED  BY <2>2, <2>4 DEF Front, Without
<1>3. Last(s) = s[Len(s)]
  BY DEF Last
<1>. QED  BY <1>1, <1>2, <1>3, WithoutKeeps

-----------------------------------------------------------------------------
(* The processing list covers the claims.                                  *)

\* The processes that have an entry of j to take out of the processing list.
Claimers(j) ==
    {w \in Workers :
        /\ job[w] # Nothing /\ job[w].id = j
        /\ pc[w] \in {"ready", "running", "scan", "remove"}}

\* What a process remembers: the entry its scan found is one of its job, and
\* the job it ran with success completed.
Traced(w) ==
    /\ pc[w] = "remove" => item[w] \in Entries /\ item[w].id = job[w].id
    /\ outcome[w] = "ok" => job[w].id \in completed

Covered(j) == Cardinality(Claimers(j)) <= Copies(processing, j)

ClaimInv ==
    /\ QueueInv
    /\ \A w \in Workers : Traced(w)
    /\ \A j \in Jobs : Covered(j)

Claims(j) ==
    /\ IsFiniteSet(Claimers(j)) /\ Cardinality(Claimers(j)) \in Nat
    /\ Copies(processing, j) \in Nat

LEMMA ClaimsCount == Types => \A j \in Jobs : Claims(j)
<1>. SUFFICES ASSUME Types, NEW j \in Jobs
              PROVE  Claims(j)
  OBVIOUS
<1>1. Claimers(j) \in SUBSET Workers
  BY DEF Claimers
<1>2. IsFiniteSet(Claimers(j)) /\ Cardinality(Claimers(j)) \in Nat
  BY <1>1, JobQueueAssumption, FS_Subset, FS_CardinalityType
<1>. QED  BY <1>2, CopiesCount DEF Claims, Types, Lists

LEMMA ClaimsCountNext == Types' => (\A j \in Jobs : Claims(j))'
BY ClaimsCount, PTL

\* A step of one process changes the claimers by that process at most.
LEMMA ClaimersMove ==
    ASSUME Types, Types', NEW j \in Jobs, NEW w \in Workers, Elsewhere(w)
    PROVE  /\ Claimers(j)' \ {w} = Claimers(j) \ {w}
           /\ Cardinality(Claimers(j)') + One(w \in Claimers(j))
                = Cardinality(Claimers(j)) + One(w \in Claimers(j)')
<1>1. Claimers(j)' \ {w} = Claimers(j) \ {w}
  BY DEF Claimers, Elsewhere
<1>2. IsFiniteSet(Claimers(j))
  BY ClaimsCount DEF Claims
<1>3. IsFiniteSet(Claimers(j)')
  BY ClaimsCountNext DEF Claims
<1>. QED  BY <1>1, <1>2, <1>3, SameElsewhere

LEMMA ClaimersStay ==
    ASSUME UNCHANGED <<pc, job>>, NEW j
    PROVE  Claimers(j)' = Claimers(j)
BY DEF Claimers

\* The steps of a process but the two that touch the processing list.
LEMMA NoNewClaim ==
    ASSUME Types, Types', NEW w \in Workers,
           \/ Start(w) \/ CheckStop(w) \/ FindEmpty(w) \/ Bury(w) \/ Run(w)
           \/ Finish(w) \/ Scan(w) \/ Push(w) \/ EndIteration(w)
           \/ Terminate(w) \/ Interrupt(w) \/ LoseWorker(w) \/ CommandFails(w)
    PROVE  /\ processing' = processing /\ Elsewhere(w)
           /\ \A j \in Jobs : w \in Claimers(j)' => w \in Claimers(j)
<1>1. processing' = processing
  BY DEF Start, CheckStop, FindEmpty, Bury, Run, Finish, Scan, Push,
         EndIteration, Terminate, Interrupt, LoseWorker, CommandFails, redis
<1>2. Elsewhere(w) /\ (\A j \in Jobs : w \in Claimers(j)' => w \in Claimers(j))
  <2>1. CASE Gone(w)
    BY <2>1 DEF Gone, Goto, Types, Local, Elsewhere, Claimers
  <2>2. CASE pc[w] \in {"polling", "bury"} /\ NoJob(w)
    BY <2>1, <2>2 DEF NoJob, Goto, Types, Local, Elsewhere, Claimers
  <2>3. CASE \/ Start(w) \/ (CheckStop(w) /\ ~Gone(w)) \/ Push(w)
             \/ EndIteration(w)
    BY <2>3 DEF Start, CheckStop, Push, EndIteration, Types, Local, Goto,
                Elsewhere, Claimers
  <2>4. CASE Run(w) \/ Finish(w)
    BY <2>4 DEF Run, Finish, Types, Local, Goto, Elsewhere, Claimers
  <2>5. CASE Scan(w)
    <3>1. /\ pc[w] = "scan" /\ UNCHANGED <<job, outcome>>
          /\ \E p \in {"remove", "beat", "push"} : pc' = [pc EXCEPT ![w] = p]
      BY <2>5 DEF Scan, Goto, AfterRemoval
    <3>. QED  BY <3>1 DEF Types, Local, Elsewhere, Claimers
  <2>6. CASE Terminate(w) \/ CommandFails(w)
    BY <2>6 DEF Terminate, CommandFails, Types, Local, Goto, Elsewhere, Claimers
  <2>. QED
    BY <2>1, <2>2, <2>3, <2>4, <2>5, <2>6
    DEF FindEmpty, Bury, Interrupt, LoseWorker
<1>. QED  BY <1>1, <1>2

\* The claim puts the entry it adds on the processing list.
LEMMA DequeueClaims ==
    ASSUME Types, Types', NEW j \in Jobs, NEW w \in Workers, Dequeue(w)
    PROVE  /\ Elsewhere(w) /\ w \notin Claimers(j)
           /\ w \in Claimers(j)' <=> Last(queue).id = j
           /\ Copies(processing', j) = Copies(processing, j) + One(Last(queue).id = j)
           /\ \A x : Contains(processing, x) => Contains(processing', x)
<1>1. /\ queue # << >> /\ queue \in Seq(Entries) /\ processing \in Seq(Entries)
  BY DEF Dequeue, Types, Lists
<1>2. /\ Last(queue) \in Entries /\ Last(queue) # Nothing
  BY <1>1, Popped
<1>3. processing' = <<Last(queue)>> \o processing
  BY DEF Dequeue
<1>4. /\ Copies(processing', j) = Copies(processing, j) + One(Last(queue).id = j)
      /\ \A x : Contains(processing, x) => Contains(processing', x)
  <2>1. Copies(processing, j) \in Nat /\ Copies(processing', j) \in Nat
        /\ One(Last(queue).id = j) \in Nat
    BY ClaimsCount, ClaimsCountNext DEF Claims, One
  <2>. QED  BY <1>1, <1>2, <1>3, <2>1, PutFirst, PutFirstKeeps
<1>5. /\ pc[w] = "polling" /\ job' = [job EXCEPT ![w] = Last(queue)]
      /\ pc' = [pc EXCEPT ![w] =
                    IF Malformed(Last(queue)) THEN "bury" ELSE "ready"]
      /\ UNCHANGED outcome
  BY DEF Dequeue, Claimed, Goto
<1>6. Last(queue).id = j => ~Malformed(Last(queue))
  BY JobQueueAssumption DEF Malformed
<1>7. Elsewhere(w) /\ w \notin Claimers(j)
  BY <1>5 DEF Types, Local, Elsewhere, Claimers
<1>8. job'[w] = Last(queue)
      /\ pc'[w] = IF Malformed(Last(queue)) THEN "bury" ELSE "ready"
  BY <1>5 DEF Types, Local
<1>9. w \in Claimers(j)' <=> Last(queue).id = j
  BY <1>2, <1>6, <1>8 DEF Claimers
<1>. QED  BY <1>4, <1>7, <1>9

\* The removal takes out one entry of the job of the claim it ends, or none.
LEMMA UnlistClaims ==
    ASSUME ClaimInv, Types', NEW j \in Jobs, NEW w \in Workers, Unlist(w)
    PROVE  /\ Elsewhere(w) /\ w \notin Claimers(j)'
           /\ w \in Claimers(j) <=> job[w].id = j
           /\ Copies(processing, j)
                = Copies(processing', j)
                    + IF Contains(processing, item[w])
                        THEN One(job[w].id = j) ELSE 0
           /\ \A x : (Contains(processing, x) /\ x # item[w])
                        => Contains(processing', x)
<1>1. Types
  BY DEF ClaimInv, QueueInv
<1>2. /\ pc[w] = "remove" /\ UNCHANGED <<job, outcome>>
      /\ \E p \in {"beat", "push"} : pc' = [pc EXCEPT ![w] = p]
      /\ processing' = RemoveFirst(processing, item[w])
  BY DEF Unlist, Unlisted, Goto, AfterRemoval
<1>3. item[w].id = job[w].id /\ processing \in Seq(Entries) /\ job[w] # Nothing
  BY <1>1, <1>2 DEF ClaimInv, Traced, Types, Lists, Local
<1>4. Elsewhere(w) /\ w \notin Claimers(j)'
  BY <1>1, <1>2 DEF Types, Local, Elsewhere, Claimers
<1>5. w \in Claimers(j) <=> job[w].id = j
  BY <1>2, <1>3 DEF Claimers
<1>6. Copies(processing, j) \in Nat /\ Copies(processing', j) \in Nat
      /\ One(job[w].id = j) \in Nat
  BY <1>1, ClaimsCount, ClaimsCountNext DEF Claims, One
<1>7. Copies(processing, j)
        = Copies(processing', j)
            + IF Contains(processing, item[w]) THEN One(job[w].id = j) ELSE 0
  BY <1>2, <1>3, <1>6, TakeOut, TakeOutKeeps
<1>8. \A x : (Contains(processing, x) /\ x # item[w]) => Contains(processing', x)
  BY <1>2, <1>3, TakeOutKeeps
<1>. QED  BY <1>4, <1>5, <1>7, <1>8

LEMMA TracedStep ==
    ASSUME ClaimInv, Types', Next
    PROVE  \A w \in Workers : Traced(w)'
<1>1. Types /\ Local /\ \A w \in Workers : Traced(w)
  BY DEF ClaimInv, QueueInv, Types
<1>2. completed \subseteq completed'
  BY DEF Next, Submit, SetExpiry, Expire, PushJunk, WorkerStep, Start, CheckStop,
         Dequeue, FindEmpty, Bury, Run, Finish, Scan, Unlist, Push, EndIteration, Terminate,
         Interrupt, LoseWorker, CommandFails, Admin, MoveDead, StripMoved,
         PushReset, LoseAdmin, history
<1>3. ASSUME NEW w \in Workers, NEW u \in Workers,
             \/ WorkerStep(w) \/ Start(w) \/ Terminate(w) \/ Interrupt(w)
             \/ LoseWorker(w) \/ CommandFails(w)
      PROVE  Traced(u)'
  <2>1. CASE u # w
    <3>1. pc'[u] = pc[u] /\ job'[u] = job[u] /\ outcome'[u] = outcome[u]
      <4>1. CASE Dequeue(w)
        BY <1>1, <2>1, <4>1 DEF Dequeue, Claimed, Goto, Local
      <4>2. CASE Unlist(w)
        BY <1>1, <2>1, <4>2 DEF Unlist, Goto, Local
      <4>. QED  BY <1>1, <1>3, <2>1, <4>1, <4>2, NoNewClaim DEF Elsewhere, WorkerStep
    <3>2. item'[u] = item[u]
      BY <1>1, <1>3, <2>1
      DEF Local, WorkerStep, Start, CheckStop, Dequeue, Claimed, FindEmpty, NoJob, Bury, Run,
          Finish, Scan, Unlist, Push, EndIteration, Terminate, Interrupt,
          LoseWorker, CommandFails, Gone
    <3>. QED  BY <1>1, <1>2, <3>1, <3>2 DEF Traced
  <2>2. CASE Scan(w)
    <3>. DEFINE at == PlaceOf(processing, job[w].id)
    <3>1. CASE at # 0
      <4>1. processing[at] \in Entries /\ processing[at].id = job[w].id
        BY <1>1, <3>1, Scanned, ScannedId DEF Types, Lists
      <4>2. /\ pc' = [pc EXCEPT ![w] = "remove"]
            /\ item' = [item EXCEPT ![w] = processing[at]]
            /\ UNCHANGED <<job, outcome>>
        BY <2>2, <3>1 DEF Scan, Goto, PlaceOf
      <4>. HIDE DEF at
      <4>3. item'[w] = processing[at]
        BY <1>1, <4>2 DEF Local
      <4>. QED  BY <1>1, <1>2, <2>1, <4>1, <4>2, <4>3 DEF Traced
    <3>2. CASE at = 0
      <4>1. /\ \E p \in {"beat", "push"} : pc' = [pc EXCEPT ![w] = p]
            /\ UNCHANGED <<job, outcome>>
        BY <2>2, <3>2 DEF Scan, Goto, PlaceOf, AfterRemoval
      <4>2. pc'[w] # "remove"
        BY <1>1, <4>1 DEF Local
      <4>. QED  BY <1>1, <1>2, <2>1, <4>1, <4>2 DEF Traced
    <3>. QED  BY <3>1, <3>2
  <2>3. CASE u = w /\ ~Scan(w)
    <3>1. pc'[w] # "remove" \/ (pc'[w] = pc[w] /\ job'[w] = job[w] /\ item'[w] = item[w])
      BY <1>1, <1>3, <2>3
      DEF Local, WorkerStep, Start, CheckStop, Dequeue, Claimed, FindEmpty, NoJob, Bury, Run,
          Finish, Unlist, Push, EndIteration, Terminate, Interrupt, LoseWorker,
          CommandFails, Gone, Goto, AfterRemoval
    <3>2. outcome'[w] = "ok" => job'[w].id \in completed'
      <4>1. CASE Finish(w)
        BY <1>1, <4>1 DEF Finish, Local
      <4>2. CASE Dequeue(w) \/ FindEmpty(w) \/ Bury(w)
        BY <1>1, <4>2 DEF Dequeue, Claimed, FindEmpty, Bury, NoJob, Gone, Goto, Local
      <4>3. CASE Gone(w) \/ EndIteration(w)
        BY <1>1, <4>3 DEF Gone, EndIteration, Local
      <4>4. CASE UNCHANGED <<job, outcome>>
        BY <1>1, <1>2, <4>4 DEF Traced
      <4>. QED
        BY <1>3, <2>3, <4>1, <4>2, <4>3, <4>4
        DEF WorkerStep, Start, CheckStop, Run, Unlist, Push, Terminate, Interrupt,
            LoseWorker, CommandFails
    <3>. QED  BY <1>1, <2>3, <3>1, <3>2 DEF Traced
  <2>. QED  BY <2>1, <2>2, <2>3
<1>4. ASSUME UNCHANGED worker, NEW u \in Workers
      PROVE  Traced(u)'
  BY <1>1, <1>2, <1>4 DEF worker, Traced
<1>. QED
  BY <1>3, <1>4
  DEF Next, Admin, Submit, SetExpiry, Expire, PushJunk, MoveDead, StripMoved,
      PushReset, LoseAdmin

LEMMA CoveredStep ==
    ASSUME ClaimInv, Types', Next, NEW j \in Jobs
    PROVE  Covered(j)'
<1>1. Types /\ Covered(j)
  BY DEF ClaimInv, QueueInv
<1>2. Claims(j) /\ Claims(j)'
  BY <1>1, ClaimsCount, ClaimsCountNext
<1>3. ASSUME NEW w \in Workers, Dequeue(w)
      PROVE  Covered(j)'
  <2>1. /\ Elsewhere(w) /\ w \notin Claimers(j)
        /\ w \in Claimers(j)' <=> Last(queue).id = j
        /\ Copies(processing', j) = Copies(processing, j) + One(Last(queue).id = j)
    BY <1>1, <1>3, DequeueClaims
  <2>2. Cardinality(Claimers(j)') + One(w \in Claimers(j))
          = Cardinality(Claimers(j)) + One(w \in Claimers(j)')
    BY <1>1, <2>1, ClaimersMove
  <2>. QED  BY <1>1, <1>2, <2>1, <2>2 DEF Covered, Claims, One
<1>4. ASSUME NEW w \in Workers, Unlist(w)
      PROVE  Covered(j)'
  <2>1. /\ Elsewhere(w) /\ w \notin Claimers(j)'
        /\ w \in Claimers(j) <=> job[w].id = j
        /\ Copies(processing, j)
             = Copies(processing', j)
                 + IF Contains(processing, item[w])
                     THEN One(job[w].id = j) ELSE 0
    BY <1>4, UnlistClaims
  <2>2. Cardinality(Claimers(j)') + One(w \in Claimers(j))
          = Cardinality(Claimers(j)) + One(w \in Claimers(j)')
    BY <1>1, <2>1, ClaimersMove
  <2>. QED  BY <1>1, <1>2, <2>1, <2>2 DEF Covered, Claims, One
<1>5. ASSUME NEW w \in Workers, ~Dequeue(w), ~Unlist(w),
             \/ WorkerStep(w) \/ Start(w) \/ Terminate(w) \/ Interrupt(w)
             \/ LoseWorker(w) \/ CommandFails(w)
      PROVE  Covered(j)'
  <2>1. /\ processing' = processing /\ Elsewhere(w)
        /\ w \in Claimers(j)' => w \in Claimers(j)
    BY <1>1, <1>5, NoNewClaim DEF WorkerStep
  <2>2. Cardinality(Claimers(j)') + One(w \in Claimers(j))
          = Cardinality(Claimers(j)) + One(w \in Claimers(j)')
    BY <1>1, <2>1, ClaimersMove
  <2>. QED  BY <1>1, <1>2, <2>1, <2>2 DEF Covered, Claims, One
<1>6. ASSUME UNCHANGED <<worker, processing>>
      PROVE  Covered(j)'
  BY <1>1, <1>6, ClaimersStay DEF worker, Covered
<1>. QED
  BY <1>3, <1>4, <1>5, <1>6
  DEF Next, WorkerStep, Admin, Submit, SetExpiry, Expire, PushJunk, MoveDead,
      StripMoved, PushReset, LoseAdmin, redis

LEMMA ClaimStep ==
    ASSUME ClaimInv, [Next]_vars
    PROVE  ClaimInv'
<1>1. QueueInv' /\ Types'
  BY QueueStep, QueueStutter DEF ClaimInv, QueueInv
<1>2. CASE Next
  BY <1>1, <1>2, TracedStep, CoveredStep DEF ClaimInv
<1>3. CASE UNCHANGED vars
  <2>1. UNCHANGED <<pc, job, item, outcome, processing, completed>>
    BY <1>3 DEF vars, redis, worker, history
  <2>. QED  BY <1>1, <2>1, ClaimersStay DEF ClaimInv, Traced, Covered
<1>. QED  BY <1>2, <1>3

LEMMA ClaimInit == Init => ClaimInv
<1>. SUFFICES ASSUME Init
              PROVE  ClaimInv
  OBVIOUS
<1>1. QueueInv /\ Types
  BY QueueInit DEF QueueInv
<1>2. ASSUME NEW j \in Jobs
      PROVE  Covered(j)
  <2>1. Claimers(j) = {}
    BY DEF Init, Claimers
  <2>2. Cardinality(Claimers(j)) = 0
    BY <2>1, FS_EmptySet
  <2>. QED  BY <1>1, <2>2, ClaimsCount DEF Claims, Covered
<1>3. \A w \in Workers : Traced(w)
  BY DEF Init, Traced
<1>. QED  BY <1>1, <1>2, <1>3 DEF ClaimInv

-----------------------------------------------------------------------------
(* No job vanishes but through a failure.                                  *)

\* Where a submitted job can be found.
Tracked(j) ==
    \/ Copies(queue, j) > 0 \/ Copies(dead, j) > 0 \/ Copies(processing, j) > 0
    \/ \E w \in Workers : w \in Holders(j)
    \/ stripped /\ admin.id = j
    \/ j \in completed

LEMMA TrackedIsLive ==
    ASSUME Types, NEW j \in Jobs
    PROVE  Tracked(j) <=>
              ~(j \notin completed /\ LiveCopies(j) = 0 /\ Copies(processing, j) = 0)
<1>1. Parts(j) /\ Claims(j)
  BY TallyParts, ClaimsCount
<1>2. Holders(j) \subseteq Workers
  BY DEF Holders
<1>3. Cardinality(Holders(j)) = 0 <=> Holders(j) = {}
  BY <1>1, FS_EmptySet DEF Parts
<1>4. InTransfer(j) = IF stripped /\ admin.id = j THEN 1 ELSE 0
  BY DEF InTransfer
<1>5. /\ Copies(queue, j) \in Nat /\ Copies(dead, j) \in Nat
      /\ Cardinality(Holders(j)) \in Nat /\ InTransfer(j) \in Nat
      /\ Copies(processing, j) \in Nat
  BY <1>1 DEF Parts, Claims
<1>6. LiveCopies(j) = 0 <=> /\ Copies(queue, j) = 0 /\ Copies(dead, j) = 0
                            /\ Cardinality(Holders(j)) = 0 /\ InTransfer(j) = 0
  <2>. DEFINE q == Copies(queue, j)
              d == Copies(dead, j)
              h == Cardinality(Holders(j))
              t == InTransfer(j)
  <2>1. LiveCopies(j) = q + d + h + t
    BY DEF LiveCopies
  <2>2. q \in Nat /\ d \in Nat /\ h \in Nat /\ t \in Nat
    BY <1>5
  <2>. HIDE DEF q, d, h, t
  <2>3. LiveCopies(j) = 0 <=> q = 0 /\ d = 0 /\ h = 0 /\ t = 0
    BY <2>1, <2>2
  <2>. QED  BY <2>3 DEF q, d, h, t
<1>7. (\E w \in Workers : w \in Holders(j)) <=> Holders(j) # {}
  BY <1>2
<1>. QED  BY <1>3, <1>4, <1>5, <1>6, <1>7 DEF Tracked

\* A process that stays a holder, lists that lose no entry of the job.
LEMMA StaysTracked ==
    ASSUME Types, Types', NEW j \in Jobs, NEW w \in Workers, Elsewhere(w),
           w \in Holders(j) => (w \in Holders(j)' \/ Tracked(j)'),
           Copies(queue, j) > 0 => (Copies(queue', j) > 0 \/ Tracked(j)'),
           Copies(dead, j) > 0 => Copies(dead', j) > 0,
           Copies(processing, j) > 0 => (Copies(processing', j) > 0 \/ Tracked(j)'),
           UNCHANGED <<admin, stripped>>, completed \subseteq completed',
           Tracked(j)
    PROVE  Tracked(j)'
<1>1. \A u \in Workers \ {w} : u \in Holders(j) => u \in Holders(j)'
  BY DEF Elsewhere, Holders
<1>. QED  BY <1>1 DEF Tracked

LEMMA HeldIsCovered ==
    ASSUME ClaimInv, NEW j \in Jobs, NEW w \in Claimers(j)
    PROVE  Copies(processing, j) > 0
<1>1. Types /\ Covered(j)
  BY DEF ClaimInv, QueueInv
<1>2. Claims(j)
  BY <1>1, ClaimsCount
<1>3. Cardinality(Claimers(j)) # 0
  BY <1>2, FS_EmptySet DEF Claims
<1>. QED  BY <1>1, <1>2, <1>3 DEF Covered, Claims

LEMMA TrackedOnQuiet ==
    ASSUME ClaimInv, Types', NEW j \in Jobs, NEW w \in Workers, Tracked(j),
           \/ Start(w) \/ CheckStop(w) \/ FindEmpty(w) \/ Run(w) \/ Scan(w)
           \/ EndIteration(w) \/ Terminate(w) \/ Interrupt(w)
           \/ ((LoseWorker(w) \/ CommandFails(w)) /\ job[w].id # j)
    PROVE  Tracked(j)'
<1>1. Types
  BY DEF ClaimInv, QueueInv
<1>2. UNCHANGED <<queue, dead, processing, admin, stripped, completed>>
  BY DEF Start, CheckStop, FindEmpty, Run, Scan, EndIteration, Terminate,
         Interrupt, LoseWorker, CommandFails, redis, requeue, history
<1>3. Elsewhere(w)
  BY <1>1, NoNewClaim
<1>4. ASSUME w \in Holders(j)
      PROVE  w \in Holders(j)' \/ Copies(processing', j) > 0
  <2>1. /\ job[w] # Nothing /\ job[w].id = j /\ outcome[w] # "ok"
        /\ pc[w] \in {"ready", "running", "scan", "remove", "push"}
    BY <1>4 DEF Holders
  <2>2. CASE Run(w)
    BY <1>1, <2>1, <2>2 DEF Run, Goto, Types, Local, Holders
  <2>3. CASE Scan(w)
    <3>1. /\ UNCHANGED <<job, outcome>>
          /\ \E p \in {"remove", "push"} : pc' = [pc EXCEPT ![w] = p]
      BY <2>1, <2>3 DEF Scan, Goto, AfterRemoval
    <3>. QED  BY <1>1, <2>1, <3>1 DEF Types, Local, Holders
  <2>4. CASE Terminate(w)
    BY <2>1, <2>4 DEF Terminate, Holders
  <2>5. CASE Interrupt(w)
    <3>1. w \in Claimers(j)
      BY <2>1, <2>5 DEF Interrupt, Claimers
    <3>. QED  BY <1>2, <3>1, HeldIsCovered
  <2>. QED
    BY <2>1, <2>2, <2>3, <2>4, <2>5
    DEF Start, CheckStop, FindEmpty, EndIteration
<1>5. Copies(processing', j) > 0 => Tracked(j)'
  BY DEF Tracked
<1>. QED  BY <1>1, <1>2, <1>3, <1>4, <1>5, StaysTracked

LEMMA TrackedOnLists ==
    ASSUME ClaimInv, Types', NEW j \in Jobs, NEW w \in Workers, Tracked(j),
           Dequeue(w) \/ Bury(w) \/ Finish(w) \/ Unlist(w) \/ Push(w)
    PROVE  Tracked(j)'
<1>1. Types /\ Traced(w) /\ Parts(j) /\ Claims(j)
  BY TallyParts, ClaimsCount DEF ClaimInv, QueueInv
<1>2. Parts(j)' /\ Claims(j)'
  BY TallyPartsNext, ClaimsCountNext
<1>3. UNCHANGED <<admin, stripped>> /\ completed \subseteq completed'
  BY DEF Dequeue, Bury, Finish, Unlist, Push, requeue, history
<1>4. CASE Dequeue(w)
  <2>1. /\ Elsewhere(w) /\ dead' = dead /\ w \notin Holders(j)
        /\ Copies(processing', j) = Copies(processing, j) + One(Last(queue).id = j)
    BY <1>1, <1>4, DequeueClaims DEF Dequeue, Claimed, Types, Local, Holders
  <2>2. Copies(queue, j) <= Copies(queue', j) + One(Last(queue).id = j)
    BY <1>1, <1>4, TakeLastKeeps DEF Dequeue, Types, Lists
  <2>3. Copies(queue, j) > 0 =>
            Copies(queue', j) > 0 \/ Copies(processing', j) > 0
    BY <1>1, <1>2, <2>1, <2>2 DEF One, Parts, Claims
  <2>4. Copies(processing, j) > 0 => Copies(processing', j) > 0
    BY <1>1, <2>1 DEF One, Claims
  <2>5. Copies(processing', j) > 0 => Tracked(j)'
    BY DEF Tracked
  <2>. QED  BY <1>1, <1>3, <2>1, <2>3, <2>4, <2>5, StaysTracked
<1>5. CASE Bury(w)
  <2>1. /\ Elsewhere(w) /\ UNCHANGED <<queue, processing>>
        /\ dead' = <<job[w]>> \o dead /\ w \notin Holders(j)
    BY <1>1, <1>5, NoJobIsNoHolder DEF Bury, DeadLettered, Holders
  <2>2. job[w] \in Entries
    BY <1>1, <1>5 DEF Bury, Types, Local
  <2>3. Copies(dead, j) + One(job[w].id = j) <= Copies(dead', j)
    BY <1>1, <2>1, <2>2, PutFirstKeeps DEF Types, Lists
  <2>4. Copies(dead, j) > 0 => Copies(dead', j) > 0
    BY <1>1, <1>2, <2>3 DEF One, Parts
  <2>. QED  BY <1>1, <1>3, <2>1, <2>4, StaysTracked
<1>6. CASE Finish(w)
  <2>1. /\ UNCHANGED <<queue, dead, processing, job>> /\ job[w] # Nothing
        /\ pc[w] = "running" /\ pc' = [pc EXCEPT ![w] = "scan"]
        /\ \/ /\ outcome' = [outcome EXCEPT ![w] = "ok"]
              /\ job[w].id \in completed'
           \/ outcome' = [outcome EXCEPT ![w] = "failed"]
    BY <1>1, <1>6 DEF Finish, Goto, redis, Types, Local
  <2>2. Elsewhere(w)
    BY <1>1, <2>1 DEF Types, Local, Elsewhere
  <2>3. w \in Holders(j) => w \in Holders(j)' \/ j \in completed'
    BY <1>1, <2>1 DEF Types, Local, Holders
  <2>4. j \in completed' => Tracked(j)'
    BY DEF Tracked
  <2>. QED  BY <1>1, <1>3, <2>1, <2>2, <2>3, <2>4, StaysTracked
<1>7. CASE Unlist(w)
  <2>1. /\ Elsewhere(w)
        /\ Copies(processing, j)
             = Copies(processing', j)
                 + IF Contains(processing, item[w])
                     THEN One(job[w].id = j) ELSE 0
    BY <1>7, UnlistClaims
  <2>2. /\ pc[w] = "remove" /\ UNCHANGED <<queue, dead, job, outcome>>
        /\ pc' = [pc EXCEPT ![w] = AfterRemoval(w)] /\ job[w] # Nothing
    BY <1>1, <1>7 DEF Unlist, Goto, Types, Local
  <2>3. job[w].id = j => w \in Holders(j)' \/ j \in completed'
    <3>1. CASE outcome[w] = "ok"
      BY <1>1, <1>3, <3>1 DEF Traced
    <3>2. CASE outcome[w] # "ok"
      <4>1. pc'[w] = "push"
        BY <1>1, <2>2, <3>2 DEF AfterRemoval, Types, Local
      <4>. QED  BY <2>2, <3>2, <4>1 DEF Holders
    <3>. QED  BY <3>1, <3>2
  <2>4. w \in Holders(j) => job[w].id = j
    BY DEF Holders
  <2>5. Copies(processing, j) > 0 =>
            Copies(processing', j) > 0 \/ job[w].id = j
    BY <1>1, <1>2, <2>1 DEF One, Claims
  <2>6. (w \in Holders(j)' \/ j \in completed') => Tracked(j)'
    BY DEF Tracked
  <2>. QED
    BY <1>1, <1>3, <2>1, <2>2, <2>3, <2>4, <2>5, <2>6, StaysTracked
<1>8. CASE Push(w)
  <2>. DEFINE e == [job[w] EXCEPT !.retries = @ + 1]
  <2>1. /\ pc[w] = "push" /\ pc' = [pc EXCEPT ![w] = "beat"]
        /\ UNCHANGED <<processing, job, outcome>> /\ job[w] \in Entries
    BY <1>1, <1>8 DEF Push, Goto, Types, Local
  <2>2. e \in Entries /\ e.id = job[w].id
    BY <2>1, Retried
  <2>3. Elsewhere(w)
    BY <1>1, <2>1 DEF Types, Local, Elsewhere
  <2>4. /\ Copies(queue, j) > 0 => Copies(queue', j) > 0
        /\ Copies(dead, j) > 0 => Copies(dead', j) > 0
        /\ job[w].id = j => Copies(queue', j) > 0 \/ Copies(dead', j) > 0
    <3>1. CASE dead' = <<e>> \o dead /\ UNCHANGED queue
      <4>1. Copies(dead, j) + One(e.id = j) <= Copies(dead', j)
        BY <1>1, <2>2, <3>1, PutFirstKeeps DEF Types, Lists
      <4>2. Copies(dead, j) \in Nat /\ Copies(dead', j) \in Nat
        BY <1>1, <1>2 DEF Parts
      <4>. QED  BY <2>2, <3>1, <4>1, <4>2 DEF One
    <3>2. CASE queue' = <<e>> \o queue /\ UNCHANGED dead
      <4>1. Copies(queue, j) + One(e.id = j) <= Copies(queue', j)
        BY <1>1, <2>2, <3>2, PutFirstKeeps DEF Types, Lists
      <4>2. Copies(queue, j) \in Nat /\ Copies(queue', j) \in Nat
        BY <1>1, <1>2 DEF Parts
      <4>. QED  BY <2>2, <3>2, <4>1, <4>2 DEF One
    <3>. QED  BY <1>8, <3>1, <3>2 DEF Push, DeadLettered
  <2>5. w \in Holders(j) => job[w].id = j
    BY DEF Holders
  <2>6. (Copies(queue', j) > 0 \/ Copies(dead', j) > 0) => Tracked(j)'
    BY DEF Tracked
  <2>. QED  BY <1>1, <1>3, <2>1, <2>3, <2>4, <2>5, <2>6, StaysTracked
<1>. QED  BY <1>4, <1>5, <1>6, <1>7, <1>8

\* requeueDeadJobs and the producers move no process.
LEMMA TrackedOnAdmin ==
    ASSUME ClaimInv, Types', NEW j \in Jobs, Tracked(j),
           \/ MoveDead \/ StripMoved \/ PushReset
           \/ (LoseAdmin /\ admin.id # j)
    PROVE  Tracked(j)'
<1>1. Types /\ Parts(j) /\ Parts(j)'
  BY TallyParts, TallyPartsNext DEF ClaimInv, QueueInv
<1>2. /\ UNCHANGED <<processing, completed>> /\ Holders(j)' = Holders(j)
  BY HoldersStay DEF MoveDead, StripMoved, PushReset, LoseAdmin, redis, history
<1>3. CASE MoveDead
  <2>1. /\ dead # << >> /\ dead' = Front(dead) /\ queue' = <<Last(dead)>> \o queue
        /\ admin = Nothing
    BY <1>3 DEF MoveDead
  <2>2. ~stripped
    BY <1>1, <2>1 DEF Types, Rest
  <2>3. Last(dead) \in Entries
    BY <1>1, <2>1, TakeLast DEF Types, Lists
  <2>4. Copies(dead, j) <= Copies(dead', j) + One(Last(dead).id = j)
    BY <1>1, <2>1, TakeLastKeeps DEF Types, Lists
  <2>5. Copies(queue, j) + One(Last(dead).id = j) <= Copies(queue', j)
    BY <1>1, <2>1, <2>3, PutFirstKeeps DEF Types, Lists
  <2>6. /\ Copies(queue, j) > 0 => Copies(queue', j) > 0
        /\ Copies(dead, j) > 0 => Copies(queue', j) > 0 \/ Copies(dead', j) > 0
    BY <1>1, <2>4, <2>5 DEF One, Parts
  <2>. QED  BY <1>2, <2>2, <2>6 DEF Tracked
<1>4. CASE StripMoved
  <2>1. /\ ~stripped /\ stripped' = TRUE /\ queue' = RemoveFirst(queue, admin)
        /\ UNCHANGED <<dead, admin>>
    BY <1>4 DEF StripMoved, TakenBack
  <2>2. Copies(queue, j) <= Copies(queue', j)
          + (IF Contains(queue, admin) THEN One(admin.id = j) ELSE 0)
    BY <1>1, <2>1, TakeOutKeeps DEF Types, Lists
  <2>3. Copies(queue, j) > 0 => Copies(queue', j) > 0 \/ admin.id = j
    BY <1>1, <2>2 DEF One, Parts
  <2>. QED  BY <1>2, <2>1, <2>3 DEF Tracked
<1>5. CASE PushReset
  <2>. DEFINE e == [admin EXCEPT !.retries = 0]
  <2>1. /\ stripped /\ queue' = <<e>> \o queue /\ dead' = dead
    BY <1>5 DEF PushReset
  <2>2. admin \in Entries
    BY <1>1, <2>1, Zenon DEF Types, Rest
  <2>3. e \in Entries /\ e.id = admin.id
    BY <2>2, Retried
  <2>4. Copies(queue, j) + One(e.id = j) <= Copies(queue', j)
    BY <1>1, <2>1, <2>3, PutFirstKeeps DEF Types, Lists
  <2>5. /\ Copies(queue, j) > 0 => Copies(queue', j) > 0
        /\ admin.id = j => Copies(queue', j) > 0
    BY <1>1, <2>3, <2>4 DEF One, Parts
  <2>. QED  BY <1>2, <2>1, <2>5 DEF Tracked
<1>6. CASE LoseAdmin /\ admin.id # j
  <2>1. UNCHANGED <<queue, dead>>
    BY <1>6 DEF LoseAdmin, redis
  <2>. QED  BY <1>2, <1>6, <2>1 DEF Tracked
<1>. QED  BY <1>3, <1>4, <1>5, <1>6

LEMMA TrackedOnSubmit ==
    ASSUME ClaimInv, Types', NEW j \in Jobs, NEW x \in Jobs \cup Junk,
           Submit(x) \/ PushJunk(x), Tracked(j) \/ x = j
    PROVE  Tracked(j)'
<1>. DEFINE e == [id |-> x, retries |-> 0]
<1>1. Types /\ Parts(j) /\ Parts(j)'
  BY TallyParts, TallyPartsNext DEF ClaimInv, QueueInv
<1>2. /\ queue' = <<e>> \o queue
      /\ UNCHANGED <<dead, processing, worker, admin, stripped, completed>>
  BY DEF Submit, PushJunk, requeue
<1>3. e \in Entries /\ e.id = x
  BY DEF Entries
<1>4. Copies(queue, j) + One(x = j) <= Copies(queue', j)
  BY <1>1, <1>2, <1>3, PutFirstKeeps DEF Types, Lists
<1>5. /\ Copies(queue, j) > 0 => Copies(queue', j) > 0
      /\ x = j => Copies(queue', j) > 0
  BY <1>1, <1>4 DEF One, Parts
<1>6. Holders(j)' = Holders(j)
  BY <1>2, HoldersStay
<1>. QED  BY <1>2, <1>5, <1>6 DEF Tracked

\* When the queue expires, it is the jobs on it that are lost.
LEMMA TrackedOnLapse ==
    ASSUME NEW j \in Jobs, Tracked(j), Lapse
    PROVE  Tracked(j)' \/ j \in expired'
<1>1. UNCHANGED <<processing, dead, worker, admin, stripped, completed>>
  BY LapseStays DEF requeue, history
<1>2. Holders(j)' = Holders(j)
  BY <1>1, HoldersStay
<1>3. Copies(queue, j) > 0 => Copies(queue, j)' > 0 \/ j \in expired'
  BY LapseStays
<1>. QED  BY <1>1, <1>2, <1>3 DEF Tracked

LEMMA ExpiredGrows == Next => expired \subseteq expired'
BY DEF Next, Submit, SetExpiry, Expire, PushJunk, WorkerStep, Start, CheckStop, Dequeue,
       FindEmpty, Bury, Run, Finish, Scan, Unlist, Push, EndIteration, Terminate,
       Interrupt, LoseWorker, CommandFails, Admin, MoveDead, StripMoved, PushReset,
       LoseAdmin, KeyOfQueue, expiry

Lost == Vanished \ expired

LEMMA VanishedIsUntracked ==
    Types => Vanished = {j \in submitted \cap Jobs : ~Tracked(j)}
BY TrackedIsLive DEF Vanished

LEMMA VanishedIsUntrackedNext ==
    Types' => (Vanished = {j \in submitted \cap Jobs : ~Tracked(j)})'
BY VanishedIsUntracked, PTL

\* A step loses the track of one job at most, and only a failure does; the
\* expiry of the queue apart.
LEMMA OneVanishes ==
    ASSUME ClaimInv, Types', Next
    PROVE  \/ failures' = failures /\ Lost' \subseteq Lost
           \/ /\ failures' = failures + 1
              /\ \E x : Lost' \subseteq Lost \cup {x}
<1>1. Types /\ Types'
  BY DEF ClaimInv, QueueInv
<1>2. Vanished = {j \in submitted \cap Jobs : ~Tracked(j)}
  BY <1>1, VanishedIsUntracked
<1>3. Vanished' = {j \in submitted' \cap Jobs : ~Tracked(j)'}
  BY <1>1, VanishedIsUntrackedNext
<1>4. ASSUME NEW x \in Jobs \cup Junk, Submit(x) \/ PushJunk(x)
      PROVE  failures' = failures /\ Vanished' \subseteq Vanished
  <2>1. failures' = failures /\ submitted' = submitted \cup {x}
    BY <1>4 DEF Submit, PushJunk
  <2>2. \A j \in Jobs : (Tracked(j) \/ x = j) => Tracked(j)'
    BY <1>1, <1>4, TrackedOnSubmit
  <2>. QED  BY <1>2, <1>3, <2>1, <2>2
<1>5. ASSUME NEW w \in Workers,
             WorkerStep(w) \/ Start(w) \/ Terminate(w) \/ Interrupt(w)
      PROVE  failures' = failures /\ Vanished' \subseteq Vanished
  <2>1. failures' = failures /\ submitted' = submitted
    BY <1>5 DEF WorkerStep, Start, CheckStop, Dequeue, FindEmpty, Bury, Run, Finish,
                Scan, Unlist, Push, EndIteration, Terminate, Interrupt, history
  <2>2. \A j \in Jobs : Tracked(j) => Tracked(j)'
    BY <1>1, <1>5, TrackedOnQuiet, TrackedOnLists DEF WorkerStep
  <2>. QED  BY <1>2, <1>3, <2>1, <2>2
<1>6. ASSUME NEW w \in Workers, LoseWorker(w) \/ CommandFails(w)
      PROVE  failures' = failures + 1 /\ \E x : Vanished' \subseteq Vanished \cup {x}
  <2>1. failures' = failures + 1 /\ submitted' = submitted
    BY <1>6 DEF LoseWorker, CommandFails
  <2>2. \A j \in Jobs : (Tracked(j) /\ job[w].id # j) => Tracked(j)'
    BY <1>1, <1>6, TrackedOnQuiet
  <2>3. Vanished' \subseteq Vanished \cup {job[w].id}
    BY <1>2, <1>3, <2>1, <2>2
  <2>. QED  BY <2>1, <2>3
<1>7. ASSUME Admin
      PROVE  failures' = failures /\ Vanished' \subseteq Vanished
  <2>1. failures' = failures /\ submitted' = submitted
    BY <1>7 DEF Admin, MoveDead, StripMoved, PushReset, history
  <2>2. \A j \in Jobs : Tracked(j) => Tracked(j)'
    BY <1>1, <1>7, TrackedOnAdmin DEF Admin
  <2>. QED  BY <1>2, <1>3, <2>1, <2>2
<1>8. ASSUME LoseAdmin
      PROVE  failures' = failures + 1 /\ \E x : Vanished' \subseteq Vanished \cup {x}
  <2>1. failures' = failures + 1 /\ submitted' = submitted
    BY <1>8 DEF LoseAdmin
  <2>2. \A j \in Jobs : (Tracked(j) /\ admin.id # j) => Tracked(j)'
    BY <1>1, <1>8, TrackedOnAdmin
  <2>3. Vanished' \subseteq Vanished \cup {admin.id}
    BY <1>2, <1>3, <2>1, <2>2
  <2>. QED  BY <2>1, <2>3
<1>9. CASE Lapse
  <2>1. failures' = failures /\ submitted' = submitted /\ expired \subseteq expired'
    BY <1>9, LapseStays, ExpiredGrows DEF history
  <2>2. \A j \in Jobs : Tracked(j) => Tracked(j)' \/ j \in expired'
    BY <1>9, TrackedOnLapse
  <2>3. Lost' \subseteq Lost
    BY <1>2, <1>3, <2>1, <2>2 DEF Lost
  <2>. QED  BY <2>1, <2>3
<1>10. expired \subseteq expired'
  BY ExpiredGrows
<1>11. ASSUME NEW x, Vanished' \subseteq Vanished \cup {x}
       PROVE  Lost' \subseteq Lost \cup {x}
  BY <1>10, <1>11 DEF Lost
<1>12. Vanished' \subseteq Vanished => Lost' \subseteq Lost
  BY <1>10 DEF Lost
<1>. QED
  BY <1>4, <1>5, <1>6, <1>7, <1>8, <1>9, <1>11, <1>12 DEF Next, Lapse

\* A charge for one element pays for the set that grows by it.
LEMMA Charged ==
    ASSUME NEW A, NEW B, NEW m \in Nat, NEW n \in Nat,
           IsFiniteSet(A), Cardinality(A) <= m,
           \/ B \subseteq A /\ m <= n
           \/ m + 1 <= n /\ \E x : B \subseteq A \cup {x}
    PROVE  IsFiniteSet(B) /\ Cardinality(B) <= n
<1>1. Cardinality(A) \in Nat
  BY FS_CardinalityType
<1>2. CASE B \subseteq A /\ m <= n
  <2>1. IsFiniteSet(B) /\ Cardinality(B) <= Cardinality(A)
        /\ Cardinality(B) \in Nat
    BY <1>2, FS_Subset, FS_CardinalityType
  <2>. QED  BY <1>1, <1>2, <2>1
<1>3. ASSUME NEW x, B \subseteq A \cup {x}, m + 1 <= n
      PROVE  IsFiniteSet(B) /\ Cardinality(B) <= n
  <2>1. /\ IsFiniteSet(A \cup {x})
        /\ Cardinality(A \cup {x}) \in {Cardinality(A), Cardinality(A) + 1}
    BY FS_AddElement
  <2>2. IsFiniteSet(B) /\ Cardinality(B) <= Cardinality(A \cup {x})
        /\ Cardinality(B) \in Nat
    BY <1>3, <2>1, FS_Subset, FS_CardinalityType
  <2>. QED  BY <1>1, <1>3, <2>1, <2>2
<1>. QED  BY <1>2, <1>3

\* A submitted job that did not complete is on a list or in the hands of a
\* process, but for the jobs that waited on the queue when it expired and one
\* job per failure: of any number of producers, daemons, drains and requeues
\* none overwrites another's entry, and the expiry takes no job that a worker
\* holds or that waits on another list.
THEOREM LossNeedsFailure == Spec => []JobsVanishByFailure
<1>. DEFINE Inv == ClaimInv /\ JobsVanishByFailure
<1>1. Init => Inv
  <2>. SUFFICES ASSUME Init
                PROVE  Inv
    OBVIOUS
  <2>1. ClaimInv
    BY ClaimInit
  <2>2. Lost = {} /\ failures = 0
    BY DEF Init, Lost, Vanished
  <2>. QED  BY <2>1, <2>2, FS_EmptySet DEF JobsVanishByFailure, Lost
<1>2. Inv /\ [Next]_vars => Inv'
  <2>. SUFFICES ASSUME ClaimInv, JobsVanishByFailure, [Next]_vars
                PROVE  ClaimInv' /\ JobsVanishByFailure'
    OBVIOUS
  <2>1. ClaimInv'
    BY ClaimStep
  <2>2. failures \in Nat /\ failures' \in Nat /\ Types'
    BY <2>1 DEF ClaimInv, QueueInv, Types, Rest
  <2>3. IsFiniteSet(Lost)
    <3>1. Lost \in SUBSET Jobs
      BY DEF Lost, Vanished
    <3>. QED  BY <3>1, JobQueueAssumption, FS_Subset
  <2>4. \/ Lost' \subseteq Lost /\ failures <= failures'
        \/ failures + 1 <= failures' /\ \E x : Lost' \subseteq Lost \cup {x}
    <3>1. CASE Next
      BY <2>2, <3>1, OneVanishes
    <3>2. CASE UNCHANGED vars
      <4>1. Lost' = Lost /\ failures' = failures
        BY <3>2 DEF vars, redis, worker, requeue, history, expiry, Lost, Vanished, LiveCopies,
                    Holders, InTransfer
      <4>. QED  BY <2>2, <4>1
    <3>. QED  BY <3>1, <3>2
  <2>5. Cardinality(Lost') <= failures'
    BY <2>2, <2>3, <2>4, Charged DEF JobsVanishByFailure, Lost
  <2>. QED  BY <2>1, <2>5 DEF JobsVanishByFailure, Lost
<1>. QED
  BY <1>1, <1>2, PTL DEF Spec

-----------------------------------------------------------------------------
(* An entry outlives its claim only through a failure, a signal or a race. *)

\* Stranded is not preserved by every step that costs nothing: two processes
\* that hold one job take each other's entry out, and one that goes to remove
\* an entry which is gone leaves its own behind.  The job is at risk from the
\* moment the extra copy of it appears.
Astray(w) == pc[w] = "remove" /\ ~Contains(processing, item[w])

Risk(j) ==
    \/ Stranded(j)
    \/ Cardinality(Claimers(j)) > 1
    \/ Tally(j) > 1
    \/ \E w \in Claimers(j) : Astray(w)

AtRisk == {j \in Jobs : Risk(j)}

RiskInv == ClaimInv /\ Cardinality(AtRisk) <= failures + signals + raced

LEMMA TwoClaimers ==
    ASSUME Types, NEW j \in Jobs, NEW u \in Claimers(j), NEW w \in Claimers(j),
           u # w
    PROVE  Cardinality(Claimers(j)) > 1
<1>1. IsFiniteSet(Claimers(j)) /\ Cardinality(Claimers(j)) \in Nat
  BY ClaimsCount DEF Claims
<1>2. /\ IsFiniteSet(Claimers(j) \ {u})
      /\ Cardinality(Claimers(j) \ {u}) = Cardinality(Claimers(j)) - 1
  BY <1>1, FS_RemoveElement
<1>3. Cardinality(Claimers(j) \ {u}) \in Nat /\ Cardinality(Claimers(j) \ {u}) # 0
  BY <1>2, FS_EmptySet, FS_CardinalityType
<1>. QED  BY <1>1, <1>2, <1>3

\* Claims and list stay, no copy is added, and no scan goes astray.
LEMMA RiskKept ==
    ASSUME Types, Types', NEW j \in Jobs,
           Claimers(j)' = Claimers(j), processing' = processing,
           Tally(j)' <= Tally(j) \/ Tally(j)' <= 1,
           \A w \in Claimers(j) : Astray(w)' => Astray(w),
           Risk(j)'
    PROVE  Risk(j)
<1>1. Tally(j) \in Nat /\ Tally(j)' \in Nat
  BY TallyParts, TallyPartsNext DEF Parts
<1>2. Stranded(j)' => Stranded(j)
  BY DEF Stranded, Claimers
<1>. QED  BY <1>1, <1>2 DEF Risk

\* A scan finds the entry of a claim, since there is one.
LEMMA ScanFinds ==
    ASSUME ClaimInv, NEW w \in Workers, pc[w] = "scan"
    PROVE  PlaceOf(processing, job[w].id) # 0
<1>. DEFINE j == job[w].id
            I == {i \in 1..Len(processing) : processing[i].id = j}
<1>1. Types /\ j \in Jobs /\ job[w] # Nothing
  BY DEF ClaimInv, QueueInv, Types, Local
<1>2. w \in Claimers(j)
  BY <1>1 DEF Claimers
<1>3. Copies(processing, j) > 0
  BY <1>1, <1>2, HeldIsCovered
<1>4. /\ Copies(processing, j) = Cardinality(Where(processing, j))
      /\ Copies(processing, j) \in Nat
      /\ DOMAIN processing = 1..Len(processing) /\ Len(processing) \in Nat
  BY <1>1, CopiesCount, LenProperties DEF Types, Lists
<1>5. Where(processing, j) # {}
  <2>1. Cardinality(Where(processing, j)) # 0
    BY <1>3, <1>4
  <2>. QED  BY <2>1, FS_EmptySet
<1>6. I # {} /\ I \subseteq Nat
  BY <1>4, <1>5 DEF Where
<1>7. PlaceOf(processing, j) = Min(I)
  BY <1>6 DEF PlaceOf, SelectInSeq
<1>8. Min(I) \in I
  BY <1>6, MinIsMember
<1>. QED  BY <1>7, <1>8

\* The steps of a process that neither touch the lists of claims nor fail.
LEMMA RiskOnQuiet ==
    ASSUME ClaimInv, Types', NEW w \in Workers, NEW j \in Jobs, Risk(j)',
           \/ Start(w) \/ CheckStop(w) \/ FindEmpty(w) \/ Bury(w) \/ Run(w)
           \/ Finish(w) \/ Scan(w) \/ Push(w) \/ EndIteration(w) \/ Terminate(w)
    PROVE  Risk(j)
<1>1. Types
  BY DEF ClaimInv, QueueInv
<1>2. /\ processing' = processing /\ Elsewhere(w)
      /\ w \in Claimers(j)' => w \in Claimers(j)
  BY <1>1, NoNewClaim
<1>3. w \in Claimers(j) => w \in Claimers(j)'
  <2>1. CASE Scan(w)
    <3>1. pc' = [pc EXCEPT ![w] = "remove"] /\ job' = job
      BY <2>1, ScanFinds DEF Scan, Goto, PlaceOf
    <3>. QED  BY <1>1, <3>1 DEF Claimers, Types, Local
  <2>2. CASE Run(w) \/ Finish(w) \/ Terminate(w)
    BY <1>1, <2>2 DEF Run, Finish, Terminate, Goto, Claimers, Types, Local
  <2>3. CASE \/ Start(w) \/ CheckStop(w) \/ FindEmpty(w) \/ Bury(w)
             \/ Push(w) \/ EndIteration(w)
    BY <2>3 DEF Start, CheckStop, FindEmpty, Bury, Push, EndIteration, Claimers
  <2>. QED  BY <2>1, <2>2, <2>3
<1>4. Claimers(j)' = Claimers(j)
  BY <1>1, <1>2, <1>3, ClaimersMove
<1>5. Tally(j)' <= Tally(j)
  BY <1>1, QuietTally, BuryTally, FinishTally, PushTally
<1>6. ASSUME NEW u \in Claimers(j), Astray(u)'
      PROVE  Astray(u)
  <2>1. u \in Workers
    BY DEF Claimers
  <2>2. CASE Scan(w) /\ u = w
    <3>. DEFINE at == PlaceOf(processing, job[w].id)
    <3>1. item' = [item EXCEPT ![w] = processing[at]]
      BY <2>2, ScanFinds DEF Scan, PlaceOf
    <3>2. at \in 1..Len(processing)
      BY <1>1, <2>2, ScanFinds, ScannedId DEF Scan, Types, Lists
    <3>. HIDE DEF at
    <3>3. item'[w] = processing[at]
      BY <1>1, <3>1 DEF Types, Local
    <3>. QED  BY <1>2, <1>6, <2>2, <3>2, <3>3 DEF Astray, Contains
  <2>3. CASE u # w
    <3>1. pc'[u] = pc[u]
      BY <1>2, <2>1, <2>3 DEF Elsewhere
    <3>2. item'[u] = item[u]
      BY <1>1, <2>1, <2>3
      DEF Start, CheckStop, FindEmpty, NoJob, Bury, Run, Finish, Scan, Push,
          EndIteration, Terminate, Gone, Types, Local
    <3>. QED  BY <1>2, <1>6, <3>1, <3>2 DEF Astray
  <2>4. CASE u = w /\ ~Scan(w)
    <3>1. Terminate(w) \/ pc'[w] # "remove"
      BY <1>1, <2>4
      DEF Start, CheckStop, FindEmpty, NoJob, Bury, Run, Finish, Push,
          EndIteration, Gone, Goto, Types, Local
    <3>2. CASE Terminate(w)
      BY <1>2, <1>6, <2>4, <3>2 DEF Terminate, Astray
    <3>. QED  BY <1>6, <2>4, <3>1, <3>2 DEF Astray
  <2>. QED  BY <2>2, <2>3, <2>4
<1>. QED  BY <1>1, <1>2, <1>4, <1>5, <1>6, RiskKept

\* A second claim means that the job had two live copies, or was done.
LEMMA RiskOnDequeue ==
    ASSUME ClaimInv, Types', NEW w \in Workers, NEW j \in Jobs, Risk(j)',
           Dequeue(w)
    PROVE  Risk(j)
<1>1. Types /\ (\A u \in Workers : Traced(u)) /\ Parts(j) /\ Claims(j)
  BY TallyParts, ClaimsCount DEF ClaimInv, QueueInv
<1>2. Parts(j)' /\ Claims(j)'
  BY TallyPartsNext, ClaimsCountNext
<1>3. /\ Elsewhere(w) /\ w \notin Claimers(j)
      /\ w \in Claimers(j)' <=> Last(queue).id = j
      /\ Copies(processing', j) = Copies(processing, j) + One(Last(queue).id = j)
      /\ \A x : Contains(processing, x) => Contains(processing', x)
  BY <1>1, DequeueClaims
<1>4. /\ Claimers(j)' \ {w} = Claimers(j) \ {w}
      /\ Cardinality(Claimers(j)') + One(w \in Claimers(j))
           = Cardinality(Claimers(j)) + One(w \in Claimers(j)')
  BY <1>1, <1>3, ClaimersMove
<1>5. Cardinality(Claimers(j)') = Cardinality(Claimers(j)) + One(Last(queue).id = j)
  BY <1>1, <1>2, <1>3, <1>4 DEF One, Claims
<1>6. Stranded(j) <=> Copies(processing, j) > Cardinality(Claimers(j))
  BY DEF Stranded, Claimers
<1>7. Stranded(j)' <=> Copies(processing', j) > Cardinality(Claimers(j)')
  BY DEF Stranded, Claimers
<1>8. Stranded(j)' => Stranded(j)
  BY <1>1, <1>2, <1>3, <1>5, <1>6, <1>7 DEF Claims, One
<1>9. Tally(j)' > 1 => Tally(j) > 1
  <2>1. Tally(j)' <= Tally(j)
    BY <1>1, DequeueTally
  <2>. QED  BY <1>1, <1>2, <2>1 DEF Parts
<1>10. ASSUME Cardinality(Claimers(j)') > 1
       PROVE  Risk(j)
  <2>1. CASE Last(queue).id # j
    BY <1>1, <1>5, <1>10, <2>1 DEF One, Claims, Risk
  <2>2. CASE Last(queue).id = j
    <3>1. Cardinality(Claimers(j)) # 0
      BY <1>1, <1>5, <1>10, <2>2 DEF One, Claims
    <3>2. PICK u \in Claimers(j) : TRUE
      BY <3>1, FS_EmptySet
    <3>3. Copies(queue, j) >= 1
      <4>1. Copies(queue', j) + One(Last(queue).id = j) <= Copies(queue, j)
        BY <1>1, TakeLast DEF Dequeue, Types, Lists
      <4>. QED  BY <1>1, <1>2, <2>2, <4>1 DEF One, Parts
    <3>4. u \in Holders(j) \/ j \in completed
      BY <1>1 DEF Claimers, Holders, Traced
    <3>5. CASE u \in Holders(j)
      <4>1. Cardinality(Holders(j)) # 0
        BY <1>1, <3>5, FS_EmptySet DEF Parts
      <4>2. One(j \in completed) \in Nat
        BY DEF One
      <4>3. Tally(j) > 1
        BY <1>1, <3>3, <4>1, <4>2 DEF Parts
      <4>. QED  BY <4>3 DEF Risk
    <3>6. CASE j \in completed
      <4>1. One(j \in completed) = 1
        BY <3>6 DEF One
      <4>2. Tally(j) > 1
        BY <1>1, <3>3, <4>1 DEF Parts
      <4>. QED  BY <4>2 DEF Risk
    <3>. QED  BY <3>4, <3>5, <3>6
  <2>. QED  BY <2>1, <2>2
<1>11. ASSUME NEW u \in Claimers(j)', Astray(u)'
       PROVE  \E v \in Claimers(j) : Astray(v)
  <2>1. item' = item /\ pc[w] = "polling"
        /\ \E p \in {"bury", "ready"} : pc' = [pc EXCEPT ![w] = p]
    BY DEF Dequeue, Claimed, Goto
  <2>2. pc'[w] # "remove"
    BY <1>1, <2>1 DEF Types, Local
  <2>3. u # w /\ u \in Claimers(j)
    BY <1>4, <1>11, <2>2 DEF Astray
  <2>4. pc'[u] = pc[u]
    BY <1>3, <2>3 DEF Elsewhere, Claimers
  <2>5. Astray(u)
    BY <1>3, <1>11, <2>1, <2>4 DEF Astray
  <2>. QED  BY <2>3, <2>5
<1>. QED
  BY <1>8, <1>9, <1>10, <1>11 DEF Risk

\* The removal of an entry that is there ends a claim and nothing else; one
\* that another process took out first was of a job claimed twice.
LEMMA RiskOnUnlist ==
    ASSUME ClaimInv, Types', NEW w \in Workers, NEW j \in Jobs, Risk(j)',
           Unlist(w)
    PROVE  Risk(j)
<1>1. Types /\ (\A u \in Workers : Traced(u)) /\ Parts(j) /\ Claims(j)
  BY TallyParts, ClaimsCount DEF ClaimInv, QueueInv
<1>2. Parts(j)' /\ Claims(j)'
  BY TallyPartsNext, ClaimsCountNext
<1>3. /\ Elsewhere(w) /\ w \notin Claimers(j)'
      /\ w \in Claimers(j) <=> job[w].id = j
      /\ Copies(processing, j)
           = Copies(processing', j)
               + IF Contains(processing, item[w])
                   THEN One(job[w].id = j) ELSE 0
      /\ \A x : (Contains(processing, x) /\ x # item[w])
                   => Contains(processing', x)
  BY UnlistClaims
<1>4. /\ Claimers(j)' \ {w} = Claimers(j) \ {w}
      /\ Cardinality(Claimers(j)') + One(w \in Claimers(j))
           = Cardinality(Claimers(j)) + One(w \in Claimers(j)')
  BY <1>1, <1>3, ClaimersMove
<1>5. Cardinality(Claimers(j)) = Cardinality(Claimers(j)') + One(job[w].id = j)
  BY <1>1, <1>2, <1>3, <1>4 DEF One, Claims
<1>6. Stranded(j) <=> Copies(processing, j) > Cardinality(Claimers(j))
  BY DEF Stranded, Claimers
<1>7. Stranded(j)' <=> Copies(processing', j) > Cardinality(Claimers(j)')
  BY DEF Stranded, Claimers
<1>8. pc[w] = "remove" /\ item[w].id = job[w].id
  BY <1>1 DEF Unlist, Traced
<1>9. ASSUME Stranded(j)'
      PROVE  Risk(j)
  <2>1. CASE job[w].id = j /\ ~Contains(processing, item[w])
    BY <1>3, <1>8, <2>1 DEF Risk, Astray
  <2>2. CASE job[w].id # j \/ Contains(processing, item[w])
    <3>1. Stranded(j)
      BY <1>1, <1>2, <1>3, <1>5, <1>6, <1>7, <1>9, <2>2 DEF Claims, One
    <3>. QED  BY <3>1 DEF Risk
  <2>. QED  BY <2>1, <2>2
<1>10. Cardinality(Claimers(j)') > 1 => Cardinality(Claimers(j)) > 1
  BY <1>1, <1>2, <1>5 DEF Claims, One
<1>11. Tally(j)' > 1 => Tally(j) > 1
  <2>1. Tally(j)' <= Tally(j)
    BY <1>1, QuietTally
  <2>. QED  BY <1>1, <1>2, <2>1 DEF Parts
<1>12. ASSUME NEW u \in Claimers(j)', Astray(u)'
       PROVE  Risk(j)
  <2>1. u # w /\ u \in Claimers(j) /\ u \in Workers
    BY <1>3, <1>4, <1>12 DEF Claimers
  <2>2. pc[u] = "remove" /\ item'[u] = item[u]
    BY <1>1, <1>3, <1>12, <2>1 DEF Astray, Elsewhere, Unlist, Types, Local
  <2>3. CASE Contains(processing, item[u])
    <3>1. item[u] = item[w]
      BY <1>3, <1>12, <2>2, <2>3 DEF Astray
    <3>2. job[u].id = j /\ item[u].id = job[u].id
      BY <1>1, <2>1, <2>2 DEF Claimers, Traced
    <3>3. w \in Claimers(j)
      BY <1>3, <1>8, <3>1, <3>2
    <3>4. Cardinality(Claimers(j)) > 1
      BY <1>1, <2>1, <3>3, TwoClaimers
    <3>. QED  BY <3>4 DEF Risk
  <2>4. CASE ~Contains(processing, item[u])
    BY <2>1, <2>2, <2>4 DEF Risk, Astray
  <2>. QED  BY <2>3, <2>4
<1>. QED
  BY <1>9, <1>10, <1>11, <1>12 DEF Risk

\* What a failure or an interrupt charges: the job of the process it ends.
LEMMA RiskOnLoss ==
    ASSUME ClaimInv, Types', NEW w \in Workers, NEW j \in Jobs, Risk(j)',
           Interrupt(w) \/ LoseWorker(w) \/ CommandFails(w), j # job[w].id
    PROVE  Risk(j)
<1>1. Types
  BY DEF ClaimInv, QueueInv
<1>2. /\ processing' = processing /\ Elsewhere(w)
      /\ w \in Claimers(j)' => w \in Claimers(j)
  BY <1>1, NoNewClaim
<1>3. w \notin Claimers(j)
  BY DEF Claimers
<1>4. Claimers(j)' = Claimers(j)
  <2>1. Claimers(j)' \ {w} = Claimers(j) \ {w}
    BY <1>1, <1>2, ClaimersMove
  <2>. QED  BY <1>2, <1>3, <2>1
<1>5. Tally(j)' <= Tally(j)
  BY <1>1, QuietTally
<1>6. ASSUME NEW u \in Claimers(j), Astray(u)'
      PROVE  Astray(u)
  <2>1. u \in Workers /\ u # w
    BY <1>3 DEF Claimers
  <2>2. pc'[u] = pc[u]
    BY <1>2, <2>1 DEF Elsewhere
  <2>3. item'[u] = item[u]
    BY <1>1, <2>1 DEF Interrupt, LoseWorker, CommandFails, Gone, Types, Local
  <2>. QED  BY <1>2, <1>6, <2>2, <2>3 DEF Astray
<1>. QED  BY <1>1, <1>2, <1>4, <1>5, <1>6, RiskKept

\* Steps that move no process and leave the processing list.
LEMMA RiskApart ==
    ASSUME ClaimInv, Types', NEW j \in Jobs, Risk(j)',
           UNCHANGED <<worker, processing>>,
           Tally(j)' <= Tally(j) \/ Tally(j)' <= 1
    PROVE  Risk(j)
<1>1. Types
  BY DEF ClaimInv, QueueInv
<1>2. UNCHANGED <<pc, job, item>>
  BY DEF worker
<1>3. Claimers(j)' = Claimers(j)
  BY <1>2, ClaimersStay
<1>4. \A w \in Claimers(j) : Astray(w)' => Astray(w)
  BY <1>2 DEF Astray
<1>. QED  BY <1>1, <1>3, <1>4, RiskKept

Charges == failures + signals + raced

LEMMA SumGrows ==
    ASSUME NEW a \in Nat, NEW b \in Nat, NEW c \in Nat,
           NEW x \in Nat, NEW y \in Nat, NEW z \in Nat
    PROVE  /\ a + b + c \in Nat
           /\ a <= x /\ b <= y /\ c <= z => a + b + c <= x + y + z
           /\ a + 1 <= x /\ b <= y /\ c <= z => a + b + c + 1 <= x + y + z
           /\ a <= x /\ b + 1 <= y /\ c <= z => a + b + c + 1 <= x + y + z
OBVIOUS

LEMMA OneAtRisk ==
    ASSUME ClaimInv, Types', Next
    PROVE  \/ AtRisk' \subseteq AtRisk /\ Charges <= Charges'
           \/ Charges + 1 <= Charges' /\ \E x : AtRisk' \subseteq AtRisk \cup {x}
<1>1. Types /\ \A j \in Jobs : Conserved(j)
  BY DEF ClaimInv, QueueInv
<1>2. /\ failures \in Nat /\ signals \in Nat /\ raced \in Nat
      /\ failures' \in Nat /\ signals' \in Nat /\ raced' \in Nat
      /\ Charges = failures + signals + raced
      /\ Charges' = failures' + signals' + raced'
  BY <1>1 DEF Types, Rest, Charges
<1>3. ASSUME NEW x \in Jobs \cup Junk, Submit(x) \/ PushJunk(x)
      PROVE  AtRisk' \subseteq AtRisk /\ Charges <= Charges'
  <2>1. /\ UNCHANGED <<worker, processing, failures, signals, raced>>
        /\ x \notin submitted
    BY <1>3 DEF Submit, PushJunk, requeue
  <2>2. ASSUME NEW j \in Jobs, Risk(j)'
        PROVE  Risk(j)
    <3>1. Tally(j)' <= Tally(j) + One(x = j) /\ Conserved(j)
      BY <1>1, <1>3, SubmitTally
    <3>2. Tally(j) \in Nat /\ Tally(j)' \in Nat
      BY <1>1, TallyParts, TallyPartsNext DEF Parts
    <3>3. Tally(j)' <= Tally(j) \/ Tally(j)' <= 1
      BY <2>1, <3>1, <3>2 DEF Conserved, One
    <3>. QED  BY <2>1, <2>2, <3>3, RiskApart
  <2>. QED  BY <1>2, <2>1, <2>2 DEF AtRisk
<1>4. ASSUME NEW w \in Workers,
             Start(w) \/ WorkerStep(w) \/ Terminate(w)
      PROVE  AtRisk' \subseteq AtRisk /\ Charges <= Charges'
  <2>1. failures' = failures /\ signals <= signals' /\ raced' = raced
    BY <1>2, <1>4
    DEF Start, WorkerStep, CheckStop, Dequeue, FindEmpty, Bury, Run, Finish, Scan,
        Unlist, Push, EndIteration, Terminate, requeue, history
  <2>2. \A j \in Jobs : Risk(j)' => Risk(j)
    BY <1>4, RiskOnQuiet, RiskOnDequeue, RiskOnUnlist DEF WorkerStep
  <2>3. failures <= failures' /\ signals <= signals' /\ raced <= raced'
    BY <1>2, <2>1
  <2>4. Charges <= Charges'
    BY <1>2, <2>3, SumGrows
  <2>. QED  BY <2>2, <2>4 DEF AtRisk
<1>5. ASSUME NEW w \in Workers, Interrupt(w) \/ LoseWorker(w) \/ CommandFails(w)
      PROVE  Charges + 1 <= Charges' /\ \E x : AtRisk' \subseteq AtRisk \cup {x}
  <2>1. \/ failures' = failures + 1 /\ UNCHANGED <<signals, raced>>
        \/ signals' = signals + 1 /\ UNCHANGED <<failures, raced>>
    BY <1>5 DEF Interrupt, LoseWorker, CommandFails, requeue
  <2>2. \A j \in Jobs : (Risk(j)' /\ j # job[w].id) => Risk(j)
    BY <1>5, RiskOnLoss
  <2>3. AtRisk' \subseteq AtRisk \cup {job[w].id}
    BY <2>2 DEF AtRisk
  <2>4. \/ failures + 1 <= failures' /\ signals <= signals' /\ raced <= raced'
        \/ failures <= failures' /\ signals + 1 <= signals' /\ raced <= raced'
    BY <1>2, <2>1
  <2>5. Charges + 1 <= Charges'
    BY <1>2, <2>4, SumGrows
  <2>. QED  BY <2>3, <2>5
<1>6. CASE MoveDead \/ PushReset
  <2>1. UNCHANGED <<worker, processing, failures, signals, raced>>
    BY <1>6 DEF MoveDead, PushReset, history
  <2>2. \A j \in Jobs : Tally(j)' <= Tally(j)
    BY <1>1, <1>6, MoveDeadTally, PushResetTally
  <2>3. \A j \in Jobs : Risk(j)' => Risk(j)
    BY <2>1, <2>2, RiskApart
  <2>. QED  BY <1>2, <2>1, <2>3 DEF AtRisk
<1>7. CASE StripMoved
  <2>1. UNCHANGED <<worker, processing, failures, signals>>
    BY <1>7 DEF StripMoved, history
  <2>2. \A j \in Jobs : /\ raced' \in {raced, raced + 1}
                        /\ Tally(j)' <= Tally(j) + (raced' - raced)
                        /\ admin.id # j => Tally(j)' <= Tally(j)
    BY <1>1, <1>7, StripMovedTally
  <2>3. \A j \in Jobs : (Risk(j)' /\ j # admin.id) => Risk(j)
    BY <2>1, <2>2, RiskApart
  <2>4. CASE raced' = raced + 1
    <3>1. AtRisk' \subseteq AtRisk \cup {admin.id}
      BY <2>3 DEF AtRisk
    <3>. QED  BY <1>2, <2>1, <2>4, <3>1
  <2>5. CASE raced' = raced
    <3>1. \A j \in Jobs : Tally(j)' <= Tally(j)
      <4>. SUFFICES ASSUME NEW j \in Jobs PROVE Tally(j)' <= Tally(j)
        OBVIOUS
      <4>1. Tally(j) \in Nat /\ Tally(j)' \in Nat
        BY <1>1, TallyParts, TallyPartsNext DEF Parts
      <4>. QED  BY <1>2, <2>2, <2>5, <4>1
    <3>2. \A j \in Jobs : Risk(j)' => Risk(j)
      BY <2>1, <3>1, RiskApart
    <3>. QED  BY <1>2, <2>1, <2>5, <3>2 DEF AtRisk
  <2>6. raced' = raced \/ raced' = raced + 1
    BY <1>7 DEF StripMoved
  <2>. QED  BY <2>4, <2>5, <2>6
<1>8. CASE LoseAdmin
  <2>1. /\ UNCHANGED <<worker, processing, signals, raced>>
        /\ failures' = failures + 1
    BY <1>8 DEF LoseAdmin, redis
  <2>2. \A j \in Jobs : Tally(j)' <= Tally(j)
    BY <1>1, <1>8, LoseAdminTally
  <2>3. \A j \in Jobs : Risk(j)' => Risk(j)
    BY <2>1, <2>2, RiskApart
  <2>. QED  BY <1>2, <2>1, <2>3 DEF AtRisk
<1>9. CASE Lapse
  <2>1. UNCHANGED <<worker, processing, failures, signals, raced>>
    BY <1>9, LapseStays DEF requeue, history
  <2>2. \A j \in Jobs : Tally(j)' <= Tally(j)
    BY <1>1, <1>9, LapseTally
  <2>3. \A j \in Jobs : Risk(j)' => Risk(j)
    BY <2>1, <2>2, RiskApart
  <2>. QED  BY <1>2, <2>1, <2>3 DEF AtRisk
<1>. QED
  BY <1>3, <1>4, <1>5, <1>6, <1>7, <1>8, <1>9 DEF Next, Admin, Lapse

\* The processing list holds exactly the claimed jobs, but for one job per
\* failure, signal and raced requeue.
THEOREM StrandingNeedsFailure == Spec => []StrandedJobsAreFailures
<1>1. Init => RiskInv
  <2>. SUFFICES ASSUME Init
                PROVE  RiskInv
    OBVIOUS
  <2>1. ClaimInv /\ Types
    BY ClaimInit DEF ClaimInv, QueueInv
  <2>2. ASSUME NEW j \in Jobs
        PROVE  ~Risk(j)
    <3>1. Claimers(j) = {}
      BY DEF Init, Claimers
    <3>2. Cardinality(Claimers(j)) = 0 /\ Copies(processing, j) = 0
      BY <3>1, FS_EmptySet, CopiesEmpty DEF Init
    <3>3. Tally(j) = 0
      BY <2>1 DEF Init, ClaimInv, QueueInv, Conserved
    <3>4. ~Stranded(j)
      BY <3>2 DEF Stranded, Claimers
    <3>. QED  BY <3>1, <3>2, <3>3, <3>4 DEF Risk
  <2>3. AtRisk = {} /\ failures = 0 /\ signals = 0 /\ raced = 0
    BY <2>2 DEF AtRisk, Init
  <2>. QED  BY <2>1, <2>3, FS_EmptySet DEF RiskInv
<1>2. RiskInv /\ [Next]_vars => RiskInv'
  <2>. SUFFICES ASSUME RiskInv, [Next]_vars
                PROVE  RiskInv'
    OBVIOUS
  <2>1. ClaimInv /\ ClaimInv' /\ Types /\ Types'
    BY ClaimStep DEF RiskInv, ClaimInv, QueueInv
  <2>2. Charges \in Nat /\ Charges' \in Nat
    <3>1. failures \in Nat /\ signals \in Nat /\ raced \in Nat
      BY <2>1 DEF Types, Rest
    <3>2. failures' \in Nat /\ signals' \in Nat /\ raced' \in Nat
      BY <2>1 DEF Types, Rest
    <3>3. failures + signals + raced \in Nat /\ failures' + signals' + raced' \in Nat
      BY <3>1, <3>2, SumGrows
    <3>. QED  BY <3>3 DEF Charges
  <2>3. IsFiniteSet(AtRisk)
    <3>1. AtRisk \in SUBSET Jobs
      BY DEF AtRisk
    <3>. QED  BY <3>1, JobQueueAssumption, FS_Subset
  <2>4. \/ AtRisk' \subseteq AtRisk /\ Charges <= Charges'
        \/ Charges + 1 <= Charges' /\ \E x : AtRisk' \subseteq AtRisk \cup {x}
    <3>1. CASE Next
      BY <2>1, <3>1, OneAtRisk
    <3>2. CASE UNCHANGED vars
      <4>1. /\ UNCHANGED <<worker, processing, failures, signals, raced>>
            /\ \A j \in Jobs : Tally(j)' = Tally(j)
        BY <3>2 DEF vars, redis, worker, requeue, history, Tally, LiveCopies,
                    Holders, InTransfer
      <4>2. \A j \in Jobs : Tally(j)' <= Tally(j)
        <5>1. \A j \in Jobs : Tally(j) \in Nat
          BY <2>1, TallyParts DEF Parts
        <5>. QED  BY <4>1, <5>1
      <4>3. \A j \in Jobs : Risk(j)' => Risk(j)
        BY <2>1, <4>1, <4>2, RiskApart
      <4>. QED  BY <2>2, <4>1, <4>3 DEF AtRisk, Charges
    <3>. QED  BY <3>1, <3>2
  <2>5. Cardinality(AtRisk') <= Charges'
    BY <2>2, <2>3, <2>4, Charged DEF RiskInv, Charges
  <2>. QED  BY <2>1, <2>5 DEF RiskInv, Charges
<1>3. RiskInv => StrandedJobsAreFailures
  <2>. SUFFICES ASSUME RiskInv
                PROVE  StrandedJobsAreFailures
    OBVIOUS
  <2>. DEFINE S == {j \in Jobs : Stranded(j)}
  <2>1. S \subseteq AtRisk /\ AtRisk \in SUBSET Jobs
    BY DEF AtRisk, Risk
  <2>2. IsFiniteSet(AtRisk)
    BY <2>1, JobQueueAssumption, FS_Subset
  <2>3. /\ Cardinality(S) <= Cardinality(AtRisk)
        /\ Cardinality(S) \in Nat /\ Cardinality(AtRisk) \in Nat
    BY <2>1, <2>2, FS_Subset, FS_CardinalityType
  <2>4. failures \in Nat /\ signals \in Nat /\ raced \in Nat
    BY DEF RiskInv, ClaimInv, QueueInv, Types, Rest
  <2>. QED  BY <2>3, <2>4 DEF RiskInv, StrandedJobsAreFailures
<1>. QED
  BY <1>1, <1>2, <1>3, PTL DEF Spec

-----------------------------------------------------------------------------
(* How often a job runs.  A copy of a job is worth the runs it is still    *)
(* good for: the retries left to it, or one run where requeue-dead showed  *)
(* the workers an exhausted entry.  What a job has run and what its copies *)
(* are worth together is paid for by its submission, by the requeues and   *)
(* by the races.  The worth of several copies is counted as a set of       *)
(* pairs, one for each run.                                                *)

Worth(e) == IF e.retries < MaxRetries THEN MaxRetries - e.retries ELSE 1

\* The same once the run began.
Left(e) == IF e.retries + 1 < MaxRetries THEN MaxRetries - (e.retries + 1) ELSE 0

WorthTo(e, j) == IF e.id = j THEN Worth(e) ELSE 0

ListWeights(list, j) == [i \in DOMAIN list |-> WorthTo(list[i], j)]

HandWeights(j) ==
    [w \in Workers |->
        IF job[w] = Nothing \/ job[w].id # j THEN 0
        ELSE IF pc[w] = "ready" THEN Worth(job[w])
        ELSE IF pc[w] \in {"running", "scan", "remove", "push"} THEN Left(job[w])
        ELSE 0]

\* A requeue buys MaxRetries runs: one is worth of the entry that was moved,
\* until that entry is taken back or raced for.
MoveWeight(j) ==
    IF admin = Nothing \/ admin.id # j THEN 0
    ELSE IF stripped THEN MaxRetries ELSE MaxRetries - 1

Pairs(S, weights) == {p \in S \X (1..MaxRetries) : p[2] <= weights[p[1]]}

Weight(S, weights) == Cardinality(Pairs(S, weights))

InQueue(list, j) == Weight(DOMAIN list, ListWeights(list, j))

InHands(j) == Weight(Workers, HandWeights(j))

Paid(j) == MaxRetries * (One(j \in submitted) + requeues) + raced

Spent(list) == \A i \in DOMAIN list : list[i].id \in Jobs => list[i].retries >= MaxRetries

DueInv ==
    /\ Types
    /\ Spent(dead)
    /\ admin # Nothing => admin.retries >= MaxRetries
    /\ \A j \in Jobs :
        runs[j] + InQueue(queue, j) + InHands(j) + MoveWeight(j) <= Paid(j)

LEMMA WorthBounds ==
    ASSUME NEW e \in Entries, NEW j
    PROVE  /\ Worth(e) \in 1..MaxRetries /\ Left(e) \in 0..MaxRetries
           /\ Left(e) + 1 <= Worth(e)
           /\ WorthTo(e, j) \in 0..MaxRetries
<1>1. e.retries \in Nat /\ MaxRetries \in Nat \ {0}
  BY JobQueueAssumption DEF Entries
<1>. QED  BY <1>1 DEF Worth, Left, WorthTo

LEMMA WeightIsNat ==
    ASSUME NEW S, IsFiniteSet(S), NEW weights
    PROVE  IsFiniteSet(Pairs(S, weights)) /\ Weight(S, weights) \in Nat
<1>1. IsFiniteSet(1..MaxRetries)
  <2>1. 1 \in Int /\ MaxRetries \in Int
    BY JobQueueAssumption
  <2>. QED  BY <2>1, FS_Interval
<1>2. IsFiniteSet(S \X (1..MaxRetries))
  BY <1>1, FS_Product
<1>3. Pairs(S, weights) \in SUBSET (S \X (1..MaxRetries))
  BY DEF Pairs
<1>. QED  BY <1>2, <1>3, FS_Subset, FS_CardinalityType DEF Weight

\* One member apart from the others.
LEMMA WeightOfOne ==
    ASSUME NEW S, IsFiniteSet(S), NEW x \in S, NEW weights,
           weights[x] \in 0..MaxRetries
    PROVE  Weight(S, weights) = Weight(S \ {x}, weights) + weights[x]
<1>. DEFINE rest == Pairs(S \ {x}, weights)
            own == {x} \X (1..weights[x])
<1>1. IsFiniteSet(S \ {x})
  BY FS_Subset
<1>2. IsFiniteSet(rest) /\ Cardinality(rest) \in Nat
  BY <1>1, WeightIsNat DEF Weight
<1>3. IsFiniteSet(own) /\ Cardinality(own) = weights[x]
  <2>1. MaxRetries \in Nat /\ weights[x] \in Nat /\ 1 \in Int /\ weights[x] \in Int
    BY JobQueueAssumption
  <2>2. IsFiniteSet(1..weights[x])
        /\ Cardinality(1..weights[x]) = IF 1 > weights[x] THEN 0 ELSE weights[x] - 1 + 1
    BY <2>1, FS_Interval
  <2>3. Cardinality(1..weights[x]) = weights[x]
    BY <2>1, <2>2
  <2>4. IsFiniteSet({x}) /\ Cardinality({x}) = 1
    BY FS_Singleton
  <2>5. IsFiniteSet(own) /\ Cardinality(own) = Cardinality({x}) * Cardinality(1..weights[x])
    BY <2>2, <2>4, FS_Product
  <2>. QED  BY <2>1, <2>3, <2>4, <2>5
<1>4. Pairs(S, weights) = rest \cup own
  <2>1. Pairs(S, weights) \subseteq rest \cup own
    <3>. SUFFICES ASSUME NEW p \in Pairs(S, weights)
                  PROVE  p \in rest \cup own
      OBVIOUS
    <3>1. p[1] \in S /\ p[2] \in 1..MaxRetries /\ p = <<p[1], p[2]>> /\ p[2] <= weights[p[1]]
      BY DEF Pairs
    <3>2. CASE p[1] = x
      <4>1. p[2] \in 1..weights[x]
        BY <3>1, <3>2, JobQueueAssumption
      <4>. QED  BY <3>1, <3>2, <4>1
    <3>3. CASE p[1] # x
      BY <3>1, <3>3 DEF Pairs
    <3>. QED  BY <3>2, <3>3
  <2>2. rest \subseteq Pairs(S, weights)
    BY DEF Pairs
  <2>3. own \subseteq Pairs(S, weights)
    BY JobQueueAssumption DEF Pairs
  <2>. QED  BY <2>1, <2>2, <2>3
<1>5. rest \cap own = {}
  BY DEF Pairs
<1>6. Cardinality(rest \cup own) = Cardinality(rest) + Cardinality(own) - Cardinality(rest \cap own)
  BY <1>2, <1>3, FS_Union
<1>7. Cardinality(rest \cap own) = 0
  BY <1>5, FS_EmptySet
<1>8. weights[x] \in Nat
  BY JobQueueAssumption
<1>. HIDE DEF rest, own
<1>9. Cardinality(rest \cup own) = Cardinality(rest) + weights[x]
  BY <1>2, <1>3, <1>6, <1>7, <1>8
<1>10. Weight(S, weights) = Cardinality(rest \cup own)
  BY <1>4 DEF Weight
<1>. QED  BY <1>9, <1>10 DEF rest, Weight

\* Members that can be found again, each with at least its weight.
LEMMA Lighter ==
    ASSUME NEW S, NEW T, IsFiniteSet(S), IsFiniteSet(T), NEW f \in Injection(T, S),
           NEW old, NEW new,
           \A y \in T : new[y] \in Nat /\ old[f[y]] \in Nat /\ new[y] <= old[f[y]]
    PROVE  Weight(T, new) <= Weight(S, old)
<1>. DEFINE g == [p \in Pairs(T, new) |-> <<f[p[1]], p[2]>>]
<1>1. /\ f \in [T -> S]
      /\ \A a, b \in T : f[a] = f[b] => a = b
  BY DEF Injection, IsInjective
<1>2. \A p \in Pairs(T, new) :
        p[1] \in T /\ p[2] \in 1..MaxRetries /\ p = <<p[1], p[2]>> /\ p[2] <= new[p[1]]
  BY DEF Pairs
<1>3. g \in [Pairs(T, new) -> Pairs(S, old)]
  <2>. SUFFICES ASSUME NEW p \in Pairs(T, new)
                PROVE  <<f[p[1]], p[2]>> \in Pairs(S, old)
    OBVIOUS
  <2>1. f[p[1]] \in S /\ p[2] \in 1..MaxRetries
    BY <1>1, <1>2
  <2>2. p[2] <= old[f[p[1]]]
    BY <1>2, JobQueueAssumption
  <2>. QED  BY <2>1, <2>2 DEF Pairs
<1>4. \A p, q \in Pairs(T, new) : g[p] = g[q] => p = q
  <2>. SUFFICES ASSUME NEW p \in Pairs(T, new), NEW q \in Pairs(T, new), g[p] = g[q]
                PROVE  p = q
    OBVIOUS
  <2>1. f[p[1]] = f[q[1]] /\ p[2] = q[2]
    OBVIOUS
  <2>2. p[1] = q[1]
    BY <1>1, <1>2, <2>1
  <2>. QED  BY <1>2, <2>1, <2>2
<1>5. g \in Injection(Pairs(T, new), Pairs(S, old))
  <2>. HIDE DEF g
  <2>. QED  BY <1>3, <1>4, Fun_IsInj
<1>6. IsFiniteSet(Pairs(S, old))
  BY WeightIsNat
<1>. HIDE DEF g
<1>. QED  BY <1>5, <1>6, FS_Injection DEF Weight

\* One member changes its weight.
LEMMA OneChanges ==
    ASSUME NEW S, IsFiniteSet(S), NEW x \in S, NEW old, NEW new,
           \A y \in S : old[y] \in 0..MaxRetries /\ new[y] \in 0..MaxRetries,
           \A y \in S \ {x} : new[y] = old[y]
    PROVE  Weight(S, new) + old[x] = Weight(S, old) + new[x]
<1>1. Weight(S, new) = Weight(S \ {x}, new) + new[x]
  BY WeightOfOne
<1>2. Weight(S, old) = Weight(S \ {x}, old) + old[x]
  BY WeightOfOne
<1>3. Weight(S \ {x}, new) = Weight(S \ {x}, old)
  <2>1. Pairs(S \ {x}, new) = Pairs(S \ {x}, old)
    BY DEF Pairs
  <2>. QED  BY <2>1 DEF Weight
<1>4. Weight(S \ {x}, old) \in Nat
  <2>1. IsFiniteSet(S \ {x})
    BY FS_Subset
  <2>. QED  BY <2>1, WeightIsNat
<1>5. old[x] \in Nat /\ new[x] \in Nat
  BY JobQueueAssumption
<1>. QED  BY <1>1, <1>2, <1>3, <1>4, <1>5

LEMMA QueueWeighs ==
    ASSUME NEW s \in Seq(Entries), NEW j
    PROVE  /\ IsFiniteSet(DOMAIN s) /\ InQueue(s, j) \in Nat
           /\ \A i \in DOMAIN s : /\ s[i] \in Entries
                                  /\ ListWeights(s, j)[i] = WorthTo(s[i], j)
                                  /\ ListWeights(s, j)[i] \in 0..MaxRetries
                                  /\ ListWeights(s, j)[i] \in Nat
<1>1. /\ Len(s) \in Nat /\ DOMAIN s = 1..Len(s)
      /\ \A i \in 1..Len(s) : s[i] \in Entries
  BY LenProperties, ElementOfSeq
<1>2. IsFiniteSet(DOMAIN s)
  <2>1. 1 \in Int /\ Len(s) \in Int
    BY <1>1
  <2>. QED  BY <1>1, <2>1, FS_Interval
<1>3. \A i \in DOMAIN s : ListWeights(s, j)[i] = WorthTo(s[i], j)
  BY DEF ListWeights
<1>4. \A i \in DOMAIN s : WorthTo(s[i], j) \in 0..MaxRetries
  BY <1>1, WorthBounds
<1>5. \A i \in DOMAIN s : WorthTo(s[i], j) \in Nat
  BY <1>4, JobQueueAssumption
<1>. QED  BY <1>1, <1>2, <1>3, <1>4, <1>5, WeightIsNat DEF InQueue

\* lPush
LEMMA PutFirstWeighs ==
    ASSUME NEW s \in Seq(Entries), NEW e \in Entries, NEW j
    PROVE  InQueue(<<e>> \o s, j) <= InQueue(s, j) + WorthTo(e, j)
<1>. DEFINE t == <<e>> \o s
            f == [i \in (DOMAIN t) \ {1} |-> i - 1]
<1>1. <<e>> \in Seq(Entries) /\ Len(<<e>>) = 1 /\ <<e>>[1] = e
  OBVIOUS
<1>2. /\ t \in Seq(Entries) /\ Len(t) = 1 + Len(s)
      /\ \A i \in 1..(1 + Len(s)) : t[i] = IF i <= 1 THEN e ELSE s[i - 1]
  BY <1>1, ConcatProperties
<1>. HIDE DEF t
<1>3. /\ Len(s) \in Nat /\ DOMAIN s = 1..Len(s)
      /\ Len(t) \in Nat /\ DOMAIN t = 1..(1 + Len(s))
  BY <1>2, LenProperties
<1>4. /\ IsFiniteSet(DOMAIN s) /\ IsFiniteSet(DOMAIN t)
      /\ \A i \in DOMAIN s : /\ ListWeights(s, j)[i] = WorthTo(s[i], j)
                             /\ ListWeights(s, j)[i] \in Nat
      /\ \A i \in DOMAIN t : /\ ListWeights(t, j)[i] = WorthTo(t[i], j)
                             /\ ListWeights(t, j)[i] \in 0..MaxRetries
                             /\ ListWeights(t, j)[i] \in Nat
  BY <1>2, QueueWeighs
<1>5. 1 \in DOMAIN t /\ t[1] = e
  BY <1>2, <1>3
<1>6. Weight(DOMAIN t, ListWeights(t, j))
        = Weight((DOMAIN t) \ {1}, ListWeights(t, j)) + ListWeights(t, j)[1]
  BY <1>4, <1>5, WeightOfOne
<1>7. \A i \in (DOMAIN t) \ {1} : i \in Nat /\ i - 1 \in DOMAIN s /\ t[i] = s[i - 1]
  BY <1>2, <1>3
<1>8. f \in Injection((DOMAIN t) \ {1}, DOMAIN s)
  <2>1. f \in [(DOMAIN t) \ {1} -> DOMAIN s]
    BY <1>7
  <2>2. \A a, b \in (DOMAIN t) \ {1} : f[a] = f[b] => a = b
    BY <1>7
  <2>. QED  BY <2>1, <2>2, Fun_IsInj
<1>9. \A i \in (DOMAIN t) \ {1} :
        /\ ListWeights(t, j)[i] \in Nat /\ ListWeights(s, j)[f[i]] \in Nat
        /\ ListWeights(t, j)[i] <= ListWeights(s, j)[f[i]]
  BY <1>4, <1>7
<1>10. IsFiniteSet((DOMAIN t) \ {1})
  BY <1>4, FS_Subset
<1>11. Weight((DOMAIN t) \ {1}, ListWeights(t, j)) <= InQueue(s, j)
  <2>. HIDE DEF f
  <2>. QED  BY <1>4, <1>8, <1>9, <1>10, Lighter DEF InQueue
<1>12. ListWeights(t, j)[1] = WorthTo(e, j) /\ WorthTo(e, j) \in Nat
  BY <1>4, <1>5
<1>13. Weight((DOMAIN t) \ {1}, ListWeights(t, j)) \in Nat /\ InQueue(s, j) \in Nat
  BY <1>10, WeightIsNat, QueueWeighs
<1>14. InQueue(t, j) <= InQueue(s, j) + WorthTo(e, j)
  BY <1>6, <1>11, <1>12, <1>13 DEF InQueue
<1>. QED  BY <1>14 DEF t

\* A place that is taken out of the list.
LEMMA PlaceWeighs ==
    ASSUME NEW s \in Seq(Entries), NEW t \in Seq(Entries), NEW k \in DOMAIN s, NEW j,
           NEW f \in Injection(DOMAIN t, (DOMAIN s) \ {k}),
           \A i \in DOMAIN t : t[i] = s[f[i]]
    PROVE  InQueue(t, j) + WorthTo(s[k], j) <= InQueue(s, j)
<1>1. /\ IsFiniteSet(DOMAIN s) /\ IsFiniteSet(DOMAIN t)
      /\ InQueue(s, j) \in Nat /\ InQueue(t, j) \in Nat
      /\ \A i \in DOMAIN s : /\ ListWeights(s, j)[i] = WorthTo(s[i], j)
                             /\ ListWeights(s, j)[i] \in 0..MaxRetries
                             /\ ListWeights(s, j)[i] \in Nat
      /\ \A i \in DOMAIN t : /\ ListWeights(t, j)[i] = WorthTo(t[i], j)
                             /\ ListWeights(t, j)[i] \in Nat
  BY QueueWeighs
<1>2. IsFiniteSet((DOMAIN s) \ {k})
  BY <1>1, FS_Subset
<1>3. \A i \in DOMAIN t : f[i] \in (DOMAIN s) \ {k}
  BY DEF Injection
<1>4. \A i \in DOMAIN t :
        /\ ListWeights(t, j)[i] \in Nat /\ ListWeights(s, j)[f[i]] \in Nat
        /\ ListWeights(t, j)[i] <= ListWeights(s, j)[f[i]]
  BY <1>1, <1>3
<1>5. Weight(DOMAIN t, ListWeights(t, j)) <= Weight((DOMAIN s) \ {k}, ListWeights(s, j))
  BY <1>1, <1>2, <1>4, Lighter
<1>6. Weight(DOMAIN s, ListWeights(s, j))
        = Weight((DOMAIN s) \ {k}, ListWeights(s, j)) + ListWeights(s, j)[k]
  <2>. DEFINE S == DOMAIN s
              weights == ListWeights(s, j)
  <2>1. IsFiniteSet(S) /\ k \in S /\ weights[k] \in 0..MaxRetries
    BY <1>1
  <2>. HIDE DEF S, weights
  <2>2. Weight(S, weights) = Weight(S \ {k}, weights) + weights[k]
    BY <2>1, WeightOfOne
  <2>. QED  BY <2>2 DEF S, weights
<1>7. Weight((DOMAIN s) \ {k}, ListWeights(s, j)) \in Nat
  BY <1>2, WeightIsNat
<1>8. ListWeights(s, j)[k] = WorthTo(s[k], j) /\ ListWeights(s, j)[k] \in Nat
  BY <1>1
<1>. QED  BY <1>1, <1>5, <1>6, <1>7, <1>8 DEF InQueue

\* rPopLPush
LEMMA TakeLastWeighs ==
    ASSUME NEW s \in Seq(Entries), s # << >>, NEW j
    PROVE  InQueue(Front(s), j) + WorthTo(Last(s), j) <= InQueue(s, j)
<1>1. /\ Len(s) \in Nat \ {0} /\ DOMAIN s = 1..Len(s)
      /\ \A i \in 1..Len(s) : s[i] \in Entries
  BY LenProperties, EmptySeq, ElementOfSeq
<1>. DEFINE t == SubSeq(s, 1, Len(s) - 1)
            f == [i \in DOMAIN t |-> i]
<1>2. /\ t \in Seq(Entries) /\ Len(t) = Len(s) - 1
      /\ \A i \in 1..(Len(s) - 1) : t[i] = s[i]
  <2>1. \A i \in 1..(Len(s) - 1) : s[i] \in Entries
    BY <1>1
  <2>2. /\ t \in Seq(Entries)
        /\ Len(t) = IF 1 <= Len(s) - 1 THEN (Len(s) - 1) - 1 + 1 ELSE 0
        /\ \A i \in 1..((Len(s) - 1) - 1 + 1) : t[i] = s[1 + i - 1]
    BY <1>1, <2>1, SubSeqProperties
  <2>. QED  BY <1>1, <2>2
<1>. HIDE DEF t
<1>3. DOMAIN t = 1..(Len(s) - 1)
  BY <1>2, LenProperties
<1>4. f \in Injection(DOMAIN t, (DOMAIN s) \ {Len(s)})
  <2>1. f \in [DOMAIN t -> (DOMAIN s) \ {Len(s)}]
    BY <1>1, <1>3
  <2>2. \A a, b \in DOMAIN t : f[a] = f[b] => a = b
    OBVIOUS
  <2>. QED  BY <2>1, <2>2, Fun_IsInj
<1>5. \A i \in DOMAIN t : t[i] = s[f[i]]
  BY <1>2, <1>3
<1>6. Len(s) \in DOMAIN s
  BY <1>1
<1>7. InQueue(t, j) + WorthTo(s[Len(s)], j) <= InQueue(s, j)
  <2>. HIDE DEF f
  <2>. QED  BY <1>2, <1>4, <1>5, <1>6, PlaceWeighs
<1>. QED  BY <1>7 DEF t, Front, Last

\* lRem(list, 1, e)
LEMMA TakeOutWeighs ==
    ASSUME NEW s \in Seq(Entries), NEW e, NEW j
    PROVE  InQueue(RemoveFirst(s, e), j)
              + (IF Contains(s, e) THEN WorthTo(e, j) ELSE 0) <= InQueue(s, j)
<1>1. CASE ~Contains(s, e)
  <2>1. RemoveFirst(s, e) = s
    BY <1>1 DEF Contains, RemoveFirst
  <2>2. InQueue(s, j) \in Nat
    BY QueueWeighs
  <2>. QED  BY <1>1, <2>1, <2>2
<1>2. CASE Contains(s, e)
  <2>. DEFINE I == {i \in 1..Len(s) : s[i] = e}
              k == Min(I)
              t == Without(s, k)
              f == [i \in DOMAIN t |-> IF i < k THEN i ELSE i + 1]
  <2>1. I \subseteq Nat /\ I # {} /\ Len(s) \in Nat
    BY <1>2, LenProperties DEF Contains
  <2>2. k \in 1..Len(s) /\ s[k] = e
    BY <2>1, MinIsMember
  <2>3. RemoveFirst(s, e) = t
    BY <1>2, <2>1 DEF Contains, RemoveFirst, RemoveAt, SelectInSeq, Without
  <2>. HIDE DEF k
  <2>4. /\ t \in Seq(Entries) /\ Len(t) = Len(s) - 1
        /\ \A i \in 1..(Len(s) - 1) : t[i] = IF i < k THEN s[i] ELSE s[i + 1]
    BY <2>2, WithoutPlace
  <2>. HIDE DEF t
  <2>5. DOMAIN s = 1..Len(s) /\ DOMAIN t = 1..(Len(s) - 1) /\ k \in DOMAIN s /\ k \in Nat
    BY <2>2, <2>4, LenProperties
  <2>6. f \in Injection(DOMAIN t, (DOMAIN s) \ {k})
    <3>1. f \in [DOMAIN t -> (DOMAIN s) \ {k}]
      BY <2>1, <2>5
    <3>2. \A a, b \in DOMAIN t : f[a] = f[b] => a = b
      BY <2>1, <2>5
    <3>. QED  BY <3>1, <3>2, Fun_IsInj
  <2>7. \A i \in DOMAIN t : t[i] = s[f[i]]
    BY <2>4, <2>5
  <2>8. InQueue(t, j) + WorthTo(s[k], j) <= InQueue(s, j)
    <3>. HIDE DEF f
    <3>. QED  BY <2>4, <2>5, <2>6, <2>7, PlaceWeighs
  <2>. QED  BY <1>2, <2>2, <2>3, <2>8
<1>. QED  BY <1>1, <1>2

DueNumbers(j) ==
    /\ runs[j] \in Nat /\ InQueue(queue, j) \in Nat /\ InHands(j) \in Nat
    /\ MoveWeight(j) \in Nat /\ Paid(j) \in Nat /\ MaxRetries \in Nat \ {0}
    /\ requeues \in Nat /\ raced \in Nat
    /\ \A w \in Workers : /\ HandWeights(j)[w] \in 0..MaxRetries
                          /\ HandWeights(j)[w] \in Nat

Solvent(j) == runs[j] + InQueue(queue, j) + InHands(j) + MoveWeight(j) <= Paid(j)

LEMMA DueParts == Types => \A j \in Jobs : DueNumbers(j)
<1>. SUFFICES ASSUME Types, NEW j \in Jobs
              PROVE  DueNumbers(j)
  OBVIOUS
<1>1. runs[j] \in Nat /\ requeues \in Nat /\ raced \in Nat
  BY DEF Types, Rest
<1>2. InQueue(queue, j) \in Nat
  BY QueueWeighs DEF Types, Lists
<1>3. InHands(j) \in Nat
  BY JobQueueAssumption, WeightIsNat DEF InHands
<1>4. MaxRetries \in Nat \ {0}
  BY JobQueueAssumption
<1>5. MoveWeight(j) \in Nat
  BY <1>4 DEF MoveWeight
<1>6. Paid(j) \in Nat
  <2>1. One(j \in submitted) \in Nat
    BY DEF One
  <2>2. One(j \in submitted) + requeues \in Nat
    BY <1>1, <2>1
  <2>. DEFINE k == One(j \in submitted) + requeues
  <2>. HIDE DEF k
  <2>3. MaxRetries * k + raced \in Nat
    BY <1>1, <1>4, <2>2 DEF k
  <2>. QED  BY <2>3 DEF Paid, k
<1>7. ASSUME NEW w \in Workers
      PROVE  HandWeights(j)[w] \in 0..MaxRetries /\ HandWeights(j)[w] \in Nat
  <2>1. CASE job[w] = Nothing
    BY <1>4, <2>1 DEF HandWeights
  <2>2. CASE job[w] # Nothing
    <3>1. job[w] \in Entries
      BY <2>2 DEF Types, Local
    <3>2. Worth(job[w]) \in 0..MaxRetries /\ Left(job[w]) \in 0..MaxRetries
      BY <1>4, <3>1, WorthBounds
    <3>3. HandWeights(j)[w] \in 0..MaxRetries
      BY <1>4, <2>2, <3>2 DEF HandWeights
    <3>. QED  BY <1>4, <3>3
  <2>. QED  BY <2>1, <2>2
<1>. QED  BY <1>1, <1>2, <1>3, <1>4, <1>5, <1>6, <1>7 DEF DueNumbers

LEMMA DuePartsNext == Types' => (\A j \in Jobs : DueNumbers(j))'
BY DueParts, PTL

\* A step of one process.
LEMMA HandsChange ==
    ASSUME Types, Types', NEW j \in Jobs, NEW w \in Workers,
           \A v \in Workers \ {w} : job'[v] = job[v] /\ pc'[v] = pc[v]
    PROVE  InHands(j)' + HandWeights(j)[w] = InHands(j) + HandWeights(j)'[w]
<1>. DEFINE old == HandWeights(j)
            new == HandWeights(j)'
<1>1. \A y \in Workers : old[y] \in 0..MaxRetries /\ new[y] \in 0..MaxRetries
  BY DueParts, DuePartsNext DEF DueNumbers
<1>2. \A y \in Workers \ {w} : new[y] = old[y]
  BY DEF HandWeights
<1>3. IsFiniteSet(Workers)
  BY JobQueueAssumption
<1>. HIDE DEF old, new
<1>4. Weight(Workers, new) + old[w] = Weight(Workers, old) + new[w]
  BY <1>1, <1>2, <1>3, OneChanges
<1>. QED  BY <1>4 DEF InHands, old, new

\* What is owed and what was paid for it, before and after.
LEMMA StillSolvent ==
    ASSUME NEW r \in Nat, NEW q \in Nat, NEW h \in Nat, NEW m \in Nat, NEW p \in Nat,
           NEW rr \in Nat, NEW qq \in Nat, NEW hh \in Nat, NEW mm \in Nat, NEW pp \in Nat,
           r + q + h + m <= p, rr + qq + hh + mm + p <= r + q + h + m + pp
    PROVE  rr + qq + hh + mm <= pp
OBVIOUS

\* The steps that run nothing and touch no waiting copy.
LEMMA DueOnQuiet ==
    ASSUME Types, Types', NEW j \in Jobs, Solvent(j), NEW w \in Workers,
           \/ Start(w) \/ CheckStop(w) \/ FindEmpty(w) \/ Bury(w) \/ Finish(w)
           \/ Scan(w) \/ Unlist(w) \/ EndIteration(w) \/ Terminate(w)
           \/ Interrupt(w) \/ LoseWorker(w) \/ CommandFails(w)
    PROVE  Solvent(j)'
<1>1. /\ queue' = queue /\ runs' = runs /\ admin' = admin /\ stripped' = stripped
      /\ submitted' = submitted /\ requeues' = requeues /\ raced' = raced
  BY DEF Start, CheckStop, FindEmpty, Bury, Finish, Scan, Unlist, EndIteration,
         Terminate, Interrupt, LoseWorker, CommandFails, redis, requeue, history
<1>2. \A v \in Workers \ {w} : job'[v] = job[v] /\ pc'[v] = pc[v]
  BY DEF Types, Local, Start, CheckStop, FindEmpty, Bury, Finish, Scan, Unlist,
         EndIteration, Terminate, Interrupt, LoseWorker, CommandFails, NoJob, Gone, Goto
<1>3. \/ pc'[w] \in {"down", "loop", "polling", "beat"}
      \/ pc'[w] = pc[w] /\ job'[w] = job[w]
      \/ /\ pc[w] \in {"running", "scan", "remove", "push"} /\ job'[w] = job[w]
         /\ pc'[w] \in {"running", "scan", "remove", "push"}
  BY DEF Types, Local, Start, CheckStop, FindEmpty, Bury, Finish, Scan, Unlist,
         EndIteration, Terminate, Interrupt, LoseWorker, CommandFails, NoJob, Gone, Goto,
         AfterRemoval
<1>. DEFINE a == HandWeights(j)[w]
            b == HandWeights(j)'[w]
<1>4. a \in Nat /\ b \in Nat
  BY DueParts, DuePartsNext DEF DueNumbers
<1>5. b = 0 \/ b = a
  BY <1>3 DEF HandWeights
<1>6. InHands(j)' + a = InHands(j) + b
  BY <1>2, HandsChange
<1>7. InQueue(queue, j)' = InQueue(queue, j) /\ MoveWeight(j)' = MoveWeight(j)
      /\ Paid(j)' = Paid(j)
  BY <1>1 DEF InQueue, MoveWeight, Paid
<1>8. DueNumbers(j) /\ DueNumbers(j)'
  BY DueParts, DuePartsNext
<1>. HIDE DEF a, b
<1>. QED  BY <1>1, <1>4, <1>5, <1>6, <1>7, <1>8 DEF Solvent, DueNumbers

LEMMA DueOnRun ==
    ASSUME Types, Types', NEW j \in Jobs, Solvent(j), NEW w \in Workers, Run(w)
    PROVE  Solvent(j)'
<1>1. /\ queue' = queue /\ admin' = admin /\ stripped' = stripped
      /\ submitted' = submitted /\ requeues' = requeues /\ raced' = raced
  BY DEF Run, redis, requeue
<1>2. \A v \in Workers \ {w} : job'[v] = job[v] /\ pc'[v] = pc[v]
  BY DEF Types, Local, Run, Goto
<1>3. /\ pc[w] = "ready" /\ pc'[w] = "running" /\ job'[w] = job[w]
      /\ job[w] # Nothing /\ job[w] \in Entries
  BY DEF Types, Local, Run, Goto
<1>. DEFINE a == HandWeights(j)[w]
            b == HandWeights(j)'[w]
<1>4. a \in Nat /\ b \in Nat
  BY DueParts, DuePartsNext DEF DueNumbers
<1>5. IF job[w].id = j THEN a = Worth(job[w]) /\ b = Left(job[w]) ELSE a = 0 /\ b = 0
  BY <1>3 DEF HandWeights
<1>6. IF job[w].id = j THEN runs'[j] = runs[j] + 1 ELSE runs'[j] = runs[j]
  BY DEF Run, Types, Rest
<1>7. runs'[j] + b <= runs[j] + a
  <2>1. Left(job[w]) + 1 <= Worth(job[w])
    BY <1>3, WorthBounds
  <2>2. runs[j] \in Nat
    BY DEF Types, Rest
  <2>. HIDE DEF a, b
  <2>. QED  BY <1>4, <1>5, <1>6, <2>1, <2>2
<1>8. InHands(j)' + a = InHands(j) + b
  BY <1>2, HandsChange
<1>9. InQueue(queue, j)' = InQueue(queue, j) /\ MoveWeight(j)' = MoveWeight(j)
      /\ Paid(j)' = Paid(j)
  BY <1>1 DEF InQueue, MoveWeight, Paid
<1>10. DueNumbers(j) /\ DueNumbers(j)'
  BY DueParts, DuePartsNext
<1>. HIDE DEF a, b
<1>. QED  BY <1>4, <1>7, <1>8, <1>9, <1>10 DEF Solvent, DueNumbers

LEMMA DueOnDequeue ==
    ASSUME Types, Types', NEW j \in Jobs, Solvent(j), NEW w \in Workers, Dequeue(w)
    PROVE  Solvent(j)'
<1>1. /\ runs' = runs /\ admin' = admin /\ stripped' = stripped
      /\ submitted' = submitted /\ requeues' = requeues /\ raced' = raced
      /\ queue # << >> /\ queue' = Front(queue)
  BY DEF Dequeue, requeue, history
<1>2. \A v \in Workers \ {w} : job'[v] = job[v] /\ pc'[v] = pc[v]
  BY DEF Types, Local, Dequeue, Claimed, Goto
<1>3. queue \in Seq(Entries)
  BY DEF Types, Lists
<1>4. /\ Last(queue) # Nothing
      /\ ~Malformed(Last(queue)) => Last(queue).id \in Jobs
  BY <1>1, <1>3, Popped
<1>5. /\ job[w] = Nothing /\ job'[w] = Last(queue)
      /\ pc'[w] = IF Malformed(Last(queue)) THEN "bury" ELSE "ready"
  BY DEF Types, Local, Dequeue, Claimed, Goto
<1>. DEFINE a == HandWeights(j)[w]
            b == HandWeights(j)'[w]
<1>6. a = 0 /\ b <= WorthTo(Last(queue), j) /\ b \in Nat /\ WorthTo(Last(queue), j) \in Nat
  <2>1. a = 0
    BY <1>5 DEF HandWeights
  <2>2. WorthTo(Last(queue), j) \in Nat
    <3>1. Last(queue) \in Entries
      BY <1>1, <1>3, Popped
    <3>2. WorthTo(Last(queue), j) \in 0..MaxRetries
      BY <3>1, WorthBounds
    <3>. QED  BY <3>2, JobQueueAssumption
  <2>3. b = 0 \/ b = WorthTo(Last(queue), j)
    BY <1>4, <1>5 DEF HandWeights, WorthTo
  <2>. HIDE DEF b
  <2>. QED  BY <2>1, <2>2, <2>3
<1>7. InHands(j)' + a = InHands(j) + b
  BY <1>2, HandsChange
<1>8. InQueue(queue, j)' + WorthTo(Last(queue), j) <= InQueue(queue, j)
  <2>1. InQueue(Front(queue), j) + WorthTo(Last(queue), j) <= InQueue(queue, j)
    BY <1>1, <1>3, TakeLastWeighs
  <2>2. InQueue(queue, j)' = InQueue(Front(queue), j)
    BY <1>1 DEF InQueue
  <2>. QED  BY <2>1, <2>2
<1>9. MoveWeight(j)' = MoveWeight(j) /\ Paid(j)' = Paid(j)
  BY <1>1 DEF MoveWeight, Paid
<1>10. DueNumbers(j) /\ DueNumbers(j)'
  BY DueParts, DuePartsNext
<1>11. (runs[j])' = runs[j]
  BY <1>1
<1>. DEFINE c == WorthTo(Last(queue), j)
            q == InQueue(queue, j)
            r == InQueue(queue, j)'
<1>12. q \in Nat /\ r \in Nat /\ c \in Nat /\ r + c <= q /\ b <= c
  BY <1>6, <1>8, <1>10 DEF DueNumbers
<1>13. runs[j] + q + InHands(j) + MoveWeight(j) <= Paid(j)
  BY DEF Solvent
<1>. HIDE DEF a, b, c, q, r
<1>14. (runs[j])' + r + InHands(j)' + MoveWeight(j)' <= Paid(j)'
  BY <1>6, <1>7, <1>9, <1>10, <1>11, <1>12, <1>13 DEF DueNumbers
<1>. QED  BY <1>14 DEF Solvent, r

LEMMA DueOnPush ==
    ASSUME Types, Types', NEW j \in Jobs, Solvent(j), NEW w \in Workers, Push(w)
    PROVE  Solvent(j)'
<1>. DEFINE updated == [job[w] EXCEPT !.retries = @ + 1]
<1>1. /\ runs' = runs /\ admin' = admin /\ stripped' = stripped
      /\ submitted' = submitted /\ requeues' = requeues /\ raced' = raced
  BY DEF Push, requeue, history
<1>2. \A v \in Workers \ {w} : job'[v] = job[v] /\ pc'[v] = pc[v]
  BY DEF Types, Local, Push, Goto
<1>3. /\ pc[w] = "push" /\ pc'[w] = "beat" /\ job'[w] = job[w]
      /\ job[w] # Nothing /\ job[w] \in Entries /\ queue \in Seq(Entries)
  BY DEF Types, Lists, Local, Push, Goto
<1>4. /\ updated \in Entries /\ updated.id = job[w].id
      /\ updated.retries = job[w].retries + 1 /\ job[w].retries \in Nat
  <2>1. job[w].id \in Jobs \cup Junk /\ job[w].retries \in Nat
    BY <1>3 DEF Entries
  <2>2. updated.id = job[w].id /\ updated.retries = job[w].retries + 1
    BY <1>3 DEF Entries
  <2>3. updated = [id |-> job[w].id, retries |-> job[w].retries + 1]
    BY <1>3 DEF Entries
  <2>4. updated \in Entries
    BY <2>1, <2>3 DEF Entries
  <2>. QED  BY <2>1, <2>2, <2>4
<1>5. \/ Exhausted(updated) /\ queue' = queue
      \/ ~Exhausted(updated) /\ queue' = <<updated>> \o queue
  BY DEF Push
<1>. HIDE DEF updated
<1>. DEFINE a == HandWeights(j)[w]
            b == HandWeights(j)'[w]
<1>6. b = 0 /\ a \in Nat /\ (a = IF job[w].id = j THEN Left(job[w]) ELSE 0)
  <2>1. a \in Nat
    BY DueParts DEF DueNumbers
  <2>. QED  BY <1>3, <2>1 DEF HandWeights
<1>7. ~Exhausted(updated) => WorthTo(updated, j) = a
  BY <1>4, <1>6, JobQueueAssumption DEF Exhausted, WorthTo, Worth, Left
<1>8. InQueue(queue, j)' <= InQueue(queue, j) + a
  <2>1. InQueue(queue, j) \in Nat
    BY DueParts DEF DueNumbers
  <2>2. CASE queue' = queue
    <3>1. InQueue(queue, j)' = InQueue(queue, j)
      BY <2>2 DEF InQueue
    <3>. HIDE DEF a
    <3>. QED  BY <1>6, <2>1, <3>1
  <2>3. CASE ~Exhausted(updated) /\ queue' = <<updated>> \o queue
    <3>1. InQueue(<<updated>> \o queue, j) <= InQueue(queue, j) + WorthTo(updated, j)
      BY <1>3, <1>4, PutFirstWeighs
    <3>2. InQueue(queue, j)' = InQueue(<<updated>> \o queue, j)
      BY <2>3 DEF InQueue
    <3>. HIDE DEF a
    <3>. QED  BY <1>7, <2>3, <3>1, <3>2
  <2>. QED  BY <1>5, <2>2, <2>3
<1>9. InHands(j)' + a = InHands(j) + b
  BY <1>2, HandsChange
<1>10. MoveWeight(j)' = MoveWeight(j) /\ Paid(j)' = Paid(j)
  BY <1>1 DEF MoveWeight, Paid
<1>11. DueNumbers(j) /\ DueNumbers(j)'
  BY DueParts, DuePartsNext
<1>. HIDE DEF a, b
<1>12. b = 0 /\ a \in Nat
  BY <1>6
<1>. QED  BY <1>1, <1>8, <1>9, <1>10, <1>11, <1>12 DEF Solvent, DueNumbers

\* The producers and requeueDeadJobs put copies on the queue or move them.
LEMMA HandsStay ==
    ASSUME UNCHANGED worker, NEW j \in Jobs
    PROVE  InHands(j)' = InHands(j)
BY DEF worker, InHands, HandWeights

\* One more requeue, or the first submission, buys MaxRetries.
LEMMA PaidMore ==
    ASSUME NEW k \in Nat, MaxRetries \in Nat, NEW r \in Nat
    PROVE  MaxRetries * (k + 1) + r = MaxRetries * k + r + MaxRetries
<1>1. MaxRetries * k \in Nat /\ MaxRetries * (k + 1) = MaxRetries * k + MaxRetries
  OBVIOUS
<1>. QED  BY <1>1

LEMMA QueuePut ==
    ASSUME Types, NEW e \in Entries, NEW j \in Jobs, queue' = <<e>> \o queue
    PROVE  /\ InQueue(queue, j)' <= InQueue(queue, j) + WorthTo(e, j)
           /\ WorthTo(e, j) \in Nat
<1>1. InQueue(<<e>> \o queue, j) <= InQueue(queue, j) + WorthTo(e, j)
  BY PutFirstWeighs DEF Types, Lists
<1>2. InQueue(queue, j)' = InQueue(<<e>> \o queue, j)
  BY DEF InQueue
<1>3. WorthTo(e, j) \in 0..MaxRetries
  BY WorthBounds
<1>. QED  BY <1>1, <1>2, <1>3, JobQueueAssumption

LEMMA DueOnSubmit ==
    ASSUME Types, Types', NEW j \in Jobs, Solvent(j), NEW x \in Jobs \cup Junk,
           Submit(x) \/ PushJunk(x)
    PROVE  Solvent(j)'
<1>. DEFINE e == [id |-> x, retries |-> 0]
<1>1. /\ UNCHANGED worker /\ runs' = runs /\ admin' = admin /\ stripped' = stripped
      /\ requeues' = requeues /\ raced' = raced /\ queue' = <<e>> \o queue
      /\ x \notin submitted /\ submitted' = submitted \cup {x}
  BY DEF Submit, PushJunk, requeue
<1>2. e \in Entries /\ e.id = x /\ e.retries = 0
  BY DEF Entries
<1>. HIDE DEF e
<1>3. InQueue(queue, j)' <= InQueue(queue, j) + WorthTo(e, j) /\ WorthTo(e, j) \in Nat
  BY <1>1, <1>2, QueuePut
<1>4. InHands(j)' = InHands(j) /\ MoveWeight(j)' = MoveWeight(j)
  BY <1>1, HandsStay DEF MoveWeight
<1>5. DueNumbers(j) /\ DueNumbers(j)'
  BY DueParts, DuePartsNext
<1>6. Paid(j)' = Paid(j) + WorthTo(e, j)
  <2>1. CASE x = j
    <3>1. One(j \in submitted) = 0 /\ One(j \in submitted') = 1
      BY <1>1, <2>1 DEF One
    <3>2. WorthTo(e, j) = MaxRetries
      BY <1>2, <2>1, JobQueueAssumption DEF WorthTo, Worth
    <3>3. MaxRetries * (requeues + 1) + raced = MaxRetries * requeues + raced + MaxRetries
      BY <1>5, PaidMore DEF DueNumbers
    <3>4. Paid(j) = MaxRetries * (0 + requeues) + raced
          /\ Paid(j)' = MaxRetries * (1 + requeues) + raced
      BY <1>1, <3>1 DEF Paid
    <3>5. 0 + requeues = requeues /\ 1 + requeues = requeues + 1
      BY <1>5 DEF DueNumbers
    <3>. QED  BY <3>2, <3>3, <3>4, <3>5
  <2>2. CASE x # j
    <3>1. (j \in submitted') <=> (j \in submitted)
      BY <1>1, <2>2
    <3>2. Paid(j)' = Paid(j)
      BY <1>1, <3>1 DEF Paid, One
    <3>3. WorthTo(e, j) = 0
      BY <1>2, <2>2 DEF WorthTo
    <3>. QED  BY <1>5, <3>2, <3>3 DEF DueNumbers
  <2>. QED  BY <2>1, <2>2
<1>7. (runs[j])' = runs[j]
  BY <1>1
<1>. DEFINE c == WorthTo(e, j)
            q == InQueue(queue, j)
            r == InQueue(queue, j)'
<1>8. q \in Nat /\ r \in Nat /\ c \in Nat /\ r <= q + c /\ Paid(j)' = Paid(j) + c
  BY <1>3, <1>5, <1>6 DEF DueNumbers
<1>9. runs[j] + q + InHands(j) + MoveWeight(j) <= Paid(j)
  BY DEF Solvent
<1>. HIDE DEF c, q, r
<1>10. (runs[j])' + r + InHands(j)' + MoveWeight(j)' <= Paid(j)'
  BY <1>4, <1>5, <1>7, <1>8, <1>9 DEF DueNumbers
<1>. QED  BY <1>10 DEF Solvent, r

LEMMA DueOnMove ==
    ASSUME DueInv, Types', NEW j \in Jobs, MoveDead
    PROVE  Solvent(j)'
<1>. DEFINE e == Last(dead)
<1>1. Types /\ Solvent(j)
  BY DEF DueInv, Solvent
<1>2. /\ UNCHANGED worker /\ runs' = runs /\ stripped' = stripped /\ submitted' = submitted
      /\ requeues' = requeues + 1 /\ raced' = raced /\ queue' = <<e>> \o queue
      /\ admin = Nothing /\ (admin' = IF Malformed(e) THEN Nothing ELSE e)
      /\ dead # << >> /\ dead \in Seq(Entries)
  BY <1>1 DEF MoveDead, Types, Lists, history
<1>3. ~stripped
  BY <1>1, <1>2 DEF Types, Rest
<1>4. e \in Entries /\ e # Nothing /\ (e.id \in Jobs => e.retries >= MaxRetries)
  <2>1. Last(dead) \in Entries /\ Last(dead) # Nothing
    BY <1>2, Popped
  <2>2. Len(dead) \in DOMAIN dead
    BY <1>2, LenProperties, EmptySeq
  <2>3. Spent(dead)
    BY DEF DueInv
  <2>. QED  BY <2>1, <2>2, <2>3 DEF Spent, Last
<1>. HIDE DEF e
<1>5. InQueue(queue, j)' <= InQueue(queue, j) + WorthTo(e, j) /\ WorthTo(e, j) \in Nat
  BY <1>1, <1>2, <1>4, QueuePut
<1>6. InHands(j)' = InHands(j)
  BY <1>2, HandsStay
<1>7. DueNumbers(j) /\ DueNumbers(j)'
  BY <1>1, DueParts, DuePartsNext
<1>8. WorthTo(e, j) + MoveWeight(j)' <= MaxRetries /\ MoveWeight(j) = 0
  <2>1. MoveWeight(j) = 0
    BY <1>2 DEF MoveWeight
  <2>2. CASE e.id = j
    <3>1. e.retries \in Nat /\ e.retries >= MaxRetries /\ MaxRetries \in Nat \ {0}
      BY <1>4, <2>2, JobQueueAssumption DEF Entries
    <3>2. WorthTo(e, j) = 1
      BY <2>2, <3>1 DEF WorthTo, Worth
    <3>3. admin' = e
      BY <1>2, <2>2, JobQueueAssumption DEF Malformed
    <3>4. MoveWeight(j)' = MaxRetries - 1
      BY <1>2, <1>3, <1>4, <2>2, <3>3 DEF MoveWeight
    <3>. QED  BY <2>1, <3>1, <3>2, <3>4
  <2>3. CASE e.id # j
    <3>1. WorthTo(e, j) = 0
      BY <2>3 DEF WorthTo
    <3>2. MoveWeight(j)' = 0
      BY <1>2, <2>3 DEF MoveWeight
    <3>. QED  BY <1>7, <2>1, <3>1, <3>2 DEF DueNumbers
  <2>. QED  BY <2>2, <2>3
<1>9. Paid(j)' = Paid(j) + MaxRetries
  <2>. DEFINE k == One(j \in submitted) + requeues
  <2>1. One(j \in submitted) \in Nat /\ One(j \in submitted)' = One(j \in submitted)
    BY <1>2 DEF One
  <2>2. k \in Nat /\ One(j \in submitted) + (requeues + 1) = k + 1
    BY <1>7, <2>1 DEF DueNumbers
  <2>3. Paid(j)' = MaxRetries * (One(j \in submitted) + (requeues + 1)) + raced
    BY <1>2 DEF Paid, One
  <2>4. Paid(j) = MaxRetries * k + raced
    BY DEF Paid
  <2>. HIDE DEF k
  <2>5. MaxRetries * (k + 1) + raced = MaxRetries * k + raced + MaxRetries
    BY <1>7, <2>2, PaidMore DEF DueNumbers
  <2>6. Paid(j)' = MaxRetries * (k + 1) + raced
    BY <2>2, <2>3
  <2>. QED  BY <2>4, <2>5, <2>6
<1>10. (runs[j])' = runs[j]
  BY <1>2
<1>. DEFINE c == WorthTo(e, j)
            q == InQueue(queue, j)
            r == InQueue(queue, j)'
<1>11. q \in Nat /\ r \in Nat /\ c \in Nat /\ r <= q + c /\ c + MoveWeight(j)' <= MaxRetries
  BY <1>5, <1>7, <1>8 DEF DueNumbers
<1>12. runs[j] + q + InHands(j) + MoveWeight(j) <= Paid(j)
  BY <1>1 DEF Solvent
<1>. HIDE DEF c, q, r
<1>13. (runs[j])' + r + InHands(j)' + MoveWeight(j)' <= Paid(j)'
  BY <1>6, <1>7, <1>8, <1>9, <1>10, <1>11, <1>12 DEF DueNumbers
<1>. QED  BY <1>13 DEF Solvent, r

LEMMA DueOnStrip ==
    ASSUME DueInv, Types', NEW j \in Jobs, StripMoved
    PROVE  Solvent(j)'
<1>1. Types /\ Solvent(j)
  BY DEF DueInv, Solvent
<1>2. /\ UNCHANGED worker /\ runs' = runs /\ submitted' = submitted
      /\ requeues' = requeues /\ queue' = RemoveFirst(queue, admin)
      /\ admin' = admin /\ admin # Nothing /\ ~stripped /\ stripped'
      /\ raced' = IF Contains(queue, admin) THEN raced ELSE raced + 1
  BY DEF StripMoved, TakenBack, history
<1>3. /\ admin \in Entries /\ admin.retries >= MaxRetries /\ queue \in Seq(Entries)
      /\ admin.retries \in Nat /\ MaxRetries \in Nat \ {0}
  BY <1>1, <1>2, JobQueueAssumption DEF DueInv, Types, Lists, Rest, Entries
<1>4. InQueue(queue, j)' + (IF Contains(queue, admin) THEN WorthTo(admin, j) ELSE 0)
        <= InQueue(queue, j)
  <2>1. InQueue(queue, j)' = InQueue(RemoveFirst(queue, admin), j)
    BY <1>2 DEF InQueue
  <2>. QED  BY <1>3, <2>1, TakeOutWeighs
<1>5. InHands(j)' = InHands(j)
  BY <1>2, HandsStay
<1>6. DueNumbers(j) /\ DueNumbers(j)'
  BY <1>1, DueParts, DuePartsNext
<1>7. MoveWeight(j)' = MoveWeight(j) + WorthTo(admin, j) /\ WorthTo(admin, j) \in {0, 1}
  <2>1. CASE admin.id = j
    <3>1. WorthTo(admin, j) = 1
      BY <1>3, <2>1 DEF WorthTo, Worth
    <3>2. MoveWeight(j) = MaxRetries - 1 /\ MoveWeight(j)' = MaxRetries
      BY <1>2, <2>1 DEF MoveWeight
    <3>. QED  BY <1>3, <3>1, <3>2
  <2>2. CASE admin.id # j
    <3>1. WorthTo(admin, j) = 0 /\ MoveWeight(j) = 0 /\ MoveWeight(j)' = 0
      BY <1>2, <2>2 DEF WorthTo, MoveWeight
    <3>. QED  BY <3>1
  <2>. QED  BY <2>1, <2>2
<1>8. CASE Contains(queue, admin)
  <2>1. Paid(j)' = Paid(j)
    BY <1>2, <1>8 DEF Paid
  <2>2. InQueue(queue, j)' + WorthTo(admin, j) <= InQueue(queue, j)
    BY <1>4, <1>8
  <2>. QED  BY <1>1, <1>2, <1>5, <1>6, <1>7, <2>1, <2>2 DEF Solvent, DueNumbers
<1>9. CASE ~Contains(queue, admin)
  <2>1. Paid(j)' = Paid(j) + 1
    <3>. DEFINE p == MaxRetries * (One(j \in submitted) + requeues)
    <3>1. p \in Nat
      <4>1. One(j \in submitted) \in Nat
        BY DEF One
      <4>2. One(j \in submitted) + requeues \in Nat
        BY <1>6, <4>1 DEF DueNumbers
      <4>. QED  BY <1>3, <4>2
    <3>2. Paid(j) = p + raced /\ Paid(j)' = p + (raced + 1)
      BY <1>2, <1>9 DEF Paid
    <3>. HIDE DEF p
    <3>. QED  BY <1>6, <3>1, <3>2 DEF DueNumbers
  <2>2. InQueue(queue, j)' <= InQueue(queue, j)
    BY <1>4, <1>6, <1>9 DEF DueNumbers
  <2>. QED  BY <1>1, <1>2, <1>5, <1>6, <1>7, <2>1, <2>2 DEF Solvent, DueNumbers
<1>. QED  BY <1>8, <1>9

LEMMA DueOnReset ==
    ASSUME DueInv, Types', NEW j \in Jobs, PushReset \/ LoseAdmin
    PROVE  Solvent(j)'
<1>1. Types /\ Solvent(j)
  BY DEF DueInv, Solvent
<1>2. /\ UNCHANGED worker /\ runs' = runs /\ submitted' = submitted /\ requeues' = requeues
      /\ raced' = raced /\ admin' = Nothing
  BY DEF PushReset, LoseAdmin, history
<1>3. InHands(j)' = InHands(j) /\ Paid(j)' = Paid(j) /\ MoveWeight(j)' = 0
  BY <1>2, HandsStay DEF Paid, MoveWeight
<1>4. DueNumbers(j) /\ DueNumbers(j)'
  BY <1>1, DueParts, DuePartsNext
<1>5. InQueue(queue, j)' <= InQueue(queue, j) + MoveWeight(j)
  <2>1. CASE PushReset
    <3>. DEFINE e == [admin EXCEPT !.retries = 0]
    <3>1. admin \in Entries /\ admin # Nothing /\ stripped /\ queue' = <<e>> \o queue
      BY <1>1, <2>1 DEF PushReset, Types, Rest
    <3>2. e \in Entries /\ e.id = admin.id /\ e.retries = 0
      BY <3>1 DEF Entries
    <3>. HIDE DEF e
    <3>3. InQueue(queue, j)' <= InQueue(queue, j) + WorthTo(e, j)
      BY <1>1, <3>1, <3>2, QueuePut
    <3>4. WorthTo(e, j) = MoveWeight(j)
      BY <3>1, <3>2, JobQueueAssumption DEF WorthTo, Worth, MoveWeight
    <3>. QED  BY <3>3, <3>4
  <2>2. CASE LoseAdmin
    <3>1. InQueue(queue, j)' = InQueue(queue, j)
      BY <2>2 DEF LoseAdmin, redis, InQueue
    <3>. QED  BY <1>4, <3>1 DEF DueNumbers
  <2>. QED  BY <2>1, <2>2
<1>. QED  BY <1>1, <1>2, <1>3, <1>4, <1>5 DEF Solvent, DueNumbers

\* An empty list weighs nothing.
LEMMA NothingInQueue == \A j : InQueue(<< >>, j) = 0
<1>. SUFFICES ASSUME NEW j
              PROVE  InQueue(<< >>, j) = 0
  OBVIOUS
<1>1. Pairs(DOMAIN << >>, ListWeights(<< >>, j)) = {}
  BY DEF Pairs
<1>. QED  BY <1>1, FS_EmptySet DEF InQueue, Weight

\* What expires is owed no more.
LEMMA DueOnLapse ==
    ASSUME Types, Types', NEW j \in Jobs, Solvent(j), Lapse
    PROVE  Solvent(j)'
<1>1. /\ UNCHANGED worker /\ runs' = runs /\ submitted' = submitted
      /\ requeues' = requeues /\ raced' = raced /\ admin' = admin
      /\ stripped' = stripped
  BY LapseStays DEF requeue, history
<1>2. InHands(j)' = InHands(j) /\ Paid(j)' = Paid(j) /\ MoveWeight(j)' = MoveWeight(j)
  BY <1>1, HandsStay DEF Paid, MoveWeight
<1>3. InQueue(queue, j)' = InQueue(queue, j) \/ InQueue(queue, j)' = 0
  BY LapseStays, NothingInQueue DEF InQueue
<1>4. DueNumbers(j) /\ DueNumbers(j)'
  BY DueParts, DuePartsNext
<1>. QED  BY <1>1, <1>2, <1>3, <1>4 DEF Solvent, DueNumbers

LEMMA SpentPut ==
    ASSUME NEW s \in Seq(Entries), NEW e \in Entries, Spent(s),
           e.id \in Jobs => e.retries >= MaxRetries
    PROVE  Spent(<<e>> \o s)
<1>. DEFINE t == <<e>> \o s
<1>1. <<e>> \in Seq(Entries) /\ Len(<<e>>) = 1 /\ <<e>>[1] = e
  OBVIOUS
<1>2. /\ t \in Seq(Entries) /\ Len(t) = 1 + Len(s)
      /\ \A i \in 1..(1 + Len(s)) : t[i] = IF i <= 1 THEN e ELSE s[i - 1]
  BY <1>1, ConcatProperties
<1>. HIDE DEF t
<1>3. Len(s) \in Nat /\ DOMAIN s = 1..Len(s) /\ DOMAIN t = 1..(1 + Len(s))
  BY <1>2, LenProperties
<1>4. \A i \in DOMAIN t : t[i] = e \/ \E k \in DOMAIN s : t[i] = s[k]
  <2>. SUFFICES ASSUME NEW i \in DOMAIN t
                PROVE  t[i] = e \/ \E k \in DOMAIN s : t[i] = s[k]
    OBVIOUS
  <2>1. CASE i <= 1
    BY <1>2, <1>3, <2>1
  <2>2. CASE ~(i <= 1)
    <3>1. i - 1 \in DOMAIN s /\ t[i] = s[i - 1]
      BY <1>2, <1>3, <2>2
    <3>. QED  BY <3>1
  <2>. QED  BY <2>1, <2>2
<1>5. Spent(t)
  BY <1>4 DEF Spent
<1>. QED  BY <1>5 DEF t

LEMMA SpentFront ==
    ASSUME NEW s \in Seq(Entries), s # << >>, Spent(s)
    PROVE  /\ Spent(Front(s))
           /\ Last(s).id \in Jobs => Last(s).retries >= MaxRetries
<1>1. /\ Len(s) \in Nat \ {0} /\ DOMAIN s = 1..Len(s)
      /\ \A i \in 1..Len(s) : s[i] \in Entries
  BY LenProperties, EmptySeq, ElementOfSeq
<1>2. Last(s).id \in Jobs => Last(s).retries >= MaxRetries
  <2>1. Len(s) \in DOMAIN s
    BY <1>1
  <2>. QED  BY <2>1 DEF Last, Spent
<1>. DEFINE t == SubSeq(s, 1, Len(s) - 1)
<1>3. /\ t \in Seq(Entries) /\ Len(t) = Len(s) - 1
      /\ \A i \in 1..(Len(s) - 1) : t[i] = s[i]
  <2>1. \A i \in 1..(Len(s) - 1) : s[i] \in Entries
    BY <1>1
  <2>2. /\ t \in Seq(Entries)
        /\ Len(t) = IF 1 <= Len(s) - 1 THEN (Len(s) - 1) - 1 + 1 ELSE 0
        /\ \A i \in 1..((Len(s) - 1) - 1 + 1) : t[i] = s[1 + i - 1]
    BY <1>1, <2>1, SubSeqProperties
  <2>. QED  BY <1>1, <2>2
<1>. HIDE DEF t
<1>4. DOMAIN t = 1..(Len(s) - 1)
  BY <1>3, LenProperties
<1>5. \A i \in DOMAIN t : i \in DOMAIN s /\ t[i] = s[i]
  BY <1>1, <1>3, <1>4
<1>6. Spent(t)
  BY <1>5 DEF Spent
<1>. QED  BY <1>2, <1>6 DEF t, Front

\* Only exhausted entries are dead, and so is the one that is being moved.
LEMMA DeadAreSpent ==
    ASSUME DueInv, Types', [Next]_vars
    PROVE  /\ Spent(dead)'
           /\ admin' # Nothing => admin'.retries >= MaxRetries
<1>1. /\ Types /\ Spent(dead) /\ (admin # Nothing => admin.retries >= MaxRetries)
      /\ dead \in Seq(Entries)
  BY DEF DueInv, Types, Lists
<1>2. ASSUME dead' = dead, admin' = admin
      PROVE  Spent(dead') /\ (admin' # Nothing => admin'.retries >= MaxRetries)
  BY <1>1, <1>2
<1>3. ASSUME NEW w \in Workers, Bury(w)
      PROVE  Spent(dead') /\ (admin' # Nothing => admin'.retries >= MaxRetries)
  <2>1. job[w] \in Entries /\ dead' = <<job[w]>> \o dead /\ admin' = admin
        /\ job[w].id \in Junk
    BY <1>1, <1>3 DEF Bury, DeadLettered, Types, Local, requeue, Malformed
  <2>2. job[w].id \notin Jobs
    BY <2>1, JobQueueAssumption
  <2>. QED  BY <1>1, <2>1, <2>2, SpentPut
<1>4. ASSUME NEW w \in Workers, Push(w)
      PROVE  Spent(dead') /\ (admin' # Nothing => admin'.retries >= MaxRetries)
  <2>. DEFINE e == [job[w] EXCEPT !.retries = @ + 1]
  <2>1. job[w] \in Entries /\ admin' = admin
    BY <1>1, <1>4 DEF Push, Types, Local, requeue
  <2>2. e \in Entries
    BY <2>1, Retried
  <2>3. dead' = dead \/ (Exhausted(e) /\ dead' = <<e>> \o dead)
    BY <1>4 DEF Push, DeadLettered
  <2>. HIDE DEF e
  <2>4. Exhausted(e) => Spent(<<e>> \o dead)
    BY <1>1, <2>2, SpentPut DEF Exhausted
  <2>. QED  BY <1>1, <2>1, <2>3, <2>4
<1>5. CASE MoveDead
  <2>1. dead # << >> /\ dead' = Front(dead)
        /\ (admin' = IF Malformed(Last(dead)) THEN Nothing ELSE Last(dead))
    BY <1>5 DEF MoveDead
  <2>2. Spent(Front(dead)) /\ (Last(dead).id \in Jobs => Last(dead).retries >= MaxRetries)
    BY <1>1, <2>1, SpentFront
  <2>3. ~Malformed(Last(dead)) => Last(dead).id \in Jobs
    BY <1>1, <2>1, Popped
  <2>. QED  BY <2>1, <2>2, <2>3
<1>6. CASE StripMoved \/ PushReset \/ LoseAdmin
  <2>1. dead' = dead /\ (admin' = admin \/ admin' = Nothing)
    BY <1>6 DEF StripMoved, PushReset, LoseAdmin, redis
  <2>. QED  BY <1>1, <2>1
<1>7. ASSUME NEW x \in Jobs \cup Junk, Submit(x) \/ PushJunk(x)
      PROVE  dead' = dead /\ admin' = admin
  BY <1>7 DEF Submit, PushJunk, requeue
<1>8. ASSUME NEW w \in Workers,
             \/ Start(w) \/ CheckStop(w) \/ Dequeue(w) \/ FindEmpty(w) \/ Run(w)
             \/ Finish(w) \/ Scan(w) \/ Unlist(w) \/ EndIteration(w) \/ Terminate(w)
             \/ Interrupt(w) \/ LoseWorker(w) \/ CommandFails(w)
      PROVE  dead' = dead /\ admin' = admin
  BY <1>8 DEF Start, CheckStop, Dequeue, FindEmpty, Run, Finish, Scan, Unlist, EndIteration,
              Terminate, Interrupt, LoseWorker, CommandFails, redis, requeue
<1>9. CASE UNCHANGED vars
  BY <1>2, <1>9 DEF vars, redis, requeue
<1>10. CASE Lapse
  BY <1>2, <1>10, LapseStays DEF requeue
<1>. QED
  BY <1>2, <1>3, <1>4, <1>5, <1>6, <1>7, <1>8, <1>9, <1>10
  DEF Next, WorkerStep, Admin, Lapse

LEMMA DueStep ==
    ASSUME DueInv, [Next]_vars
    PROVE  DueInv'
<1>1. Types /\ Types'
  BY TypesStep DEF DueInv
<1>2. ASSUME NEW j \in Jobs
      PROVE  Solvent(j)'
  <2>1. Solvent(j)
    BY DEF DueInv, Solvent
  <2>2. ASSUME NEW x \in Jobs \cup Junk, Submit(x) \/ PushJunk(x)
        PROVE  Solvent(j)'
    BY <1>1, <2>1, <2>2, DueOnSubmit
  <2>3. ASSUME NEW w \in Workers,
               \/ Start(w) \/ WorkerStep(w) \/ Terminate(w) \/ Interrupt(w)
               \/ LoseWorker(w) \/ CommandFails(w)
        PROVE  Solvent(j)'
    <3>1. CASE Run(w)
      BY <1>1, <2>1, <3>1, DueOnRun
    <3>2. CASE Dequeue(w)
      BY <1>1, <2>1, <3>2, DueOnDequeue
    <3>3. CASE Push(w)
      BY <1>1, <2>1, <3>3, DueOnPush
    <3>4. CASE \/ Start(w) \/ CheckStop(w) \/ FindEmpty(w) \/ Bury(w) \/ Finish(w)
               \/ Scan(w) \/ Unlist(w) \/ EndIteration(w) \/ Terminate(w)
               \/ Interrupt(w) \/ LoseWorker(w) \/ CommandFails(w)
      BY <1>1, <2>1, <3>4, DueOnQuiet
    <3>. QED  BY <2>3, <3>1, <3>2, <3>3, <3>4 DEF WorkerStep
  <2>4. CASE Admin \/ LoseAdmin
    BY <1>1, <2>4, DueOnMove, DueOnStrip, DueOnReset DEF Admin
  <2>5. CASE UNCHANGED vars
    BY <2>1, <2>5 DEF vars, redis, worker, requeue, history, Solvent, InQueue, InHands,
                      HandWeights, MoveWeight, Paid
  <2>6. CASE Lapse
    BY <1>1, <2>1, <2>6, DueOnLapse
  <2>. QED  BY <2>2, <2>3, <2>4, <2>5, <2>6 DEF Next, Lapse
<1>3. Spent(dead)' /\ (admin' # Nothing => admin'.retries >= MaxRetries)
  BY <1>1, DeadAreSpent
<1>. QED  BY <1>1, <1>2, <1>3 DEF DueInv, Solvent

LEMMA DueInit == Init => DueInv
<1>. SUFFICES ASSUME Init
              PROVE  DueInv
  OBVIOUS
<1>1. Types
  BY TypesInit
<1>2. queue = << >> /\ dead = << >> /\ admin = Nothing
  BY DEF Init
<1>3. ASSUME NEW j \in Jobs
      PROVE  Solvent(j)
  <2>1. DueNumbers(j)
    BY <1>1, DueParts
  <2>2. InQueue(queue, j) = 0
    BY <1>2, NothingInQueue
  <2>3. InHands(j) = 0
    <3>1. \A w \in Workers : HandWeights(j)[w] = 0
      BY DEF Init, HandWeights
    <3>2. Pairs(Workers, HandWeights(j)) = {}
      BY <2>1, <3>1 DEF Pairs, DueNumbers
    <3>. QED  BY <3>2, FS_EmptySet DEF InHands, Weight
  <2>4. MoveWeight(j) = 0 /\ runs[j] = 0
    BY <1>2 DEF Init, MoveWeight
  <2>. QED  BY <2>1, <2>2, <2>3, <2>4 DEF Solvent, DueNumbers
<1>4. Spent(dead)
  BY <1>2 DEF Spent
<1>. QED  BY <1>1, <1>2, <1>3, <1>4 DEF DueInv, Solvent

\* MAX_RETRIES bounds the orchestrator runs of a job, for any number of
\* workers, failures and signals: a requeue buys another MAX_RETRIES, and one
\* more when a worker claimed the entry as it was.
THEOREM RunsAreBounded == Spec => []RunsBounded
<1>1. DueInv /\ [Next]_vars => DueInv'
  BY DueStep
<1>2. DueInv => RunsBounded
  <2>. SUFFICES ASSUME DueInv, NEW j \in Jobs
                PROVE  runs[j] <= MaxRetries * (1 + requeues) + raced
    BY DEF RunsBounded
  <2>1. DueNumbers(j) /\ Solvent(j)
    BY DueParts DEF DueInv, Solvent
  <2>2. Paid(j) <= MaxRetries * (1 + requeues) + raced
    <3>1. CASE j \in submitted
      BY <2>1, <3>1 DEF Paid, One, DueNumbers
    <3>2. CASE j \notin submitted
      <4>1. Paid(j) = MaxRetries * requeues + raced
        <5>1. 0 + requeues = requeues
          BY <2>1 DEF DueNumbers
        <5>. QED  BY <3>2, <5>1 DEF Paid, One
      <4>2. MaxRetries * (requeues + 1) + raced = MaxRetries * requeues + raced + MaxRetries
        BY <2>1, PaidMore DEF DueNumbers
      <4>3. 1 + requeues = requeues + 1
        BY <2>1 DEF DueNumbers
      <4>. QED  BY <2>1, <4>1, <4>2, <4>3 DEF DueNumbers
    <3>. QED  BY <3>1, <3>2
  <2>3. MaxRetries * (1 + requeues) + raced \in Nat
    <3>1. 1 + requeues \in Nat
      BY <2>1 DEF DueNumbers
    <3>. QED  BY <2>1, <3>1 DEF DueNumbers
  <2>. DEFINE most == MaxRetries * (1 + requeues) + raced
  <2>4. most \in Nat /\ Paid(j) <= most
    BY <2>2, <2>3
  <2>. HIDE DEF most
  <2>5. runs[j] <= most
    BY <2>1, <2>4 DEF DueNumbers, Solvent
  <2>. QED  BY <2>5 DEF most
<1>. QED
  BY DueInit, <1>1, <1>2, PTL DEF Spec

=============================================================================

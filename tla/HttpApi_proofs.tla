--------------------------- MODULE HttpApi_proofs ---------------------------
(***************************************************************************)
(* Proofs about the API, for any requests that interleave in any way: the  *)
(* cache of agents, the limiter of failures and the report files, each     *)
(* alone; the pages of the history; and what carries over to the API, of   *)
(* which every behaviour is one of each.                                   *)
(*                                                                         *)
(* That what was used recently is kept needs to be known of what is gone:  *)
(* as many agents as the cache holds have been asked for since.  That the  *)
(* limiter blocks exactly whom it should needs to be known of what it has  *)
(* forgotten: it was out of the window already.  That reports are kept and *)
(* pruned needs to be known of what a goroutine has listed: each file is   *)
(* still there or outlived by as many newer ones as are kept.              *)
(***************************************************************************)
EXTENDS HttpApi, FiniteSetTheorems, WellFoundedInduction, SequenceTheorems, TLAPS

\* Every entry is of the last time its agent was asked for, which was within its
\* time to live.
EntriesFit ==
  \A a \in DOMAIN cache :
    /\ cache[a].used = lastUse[a]
    /\ cache[a].created <= cache[a].used
    /\ cache[a].used <= cache[a].created + TTL

NoneAhead == now \in Nat /\ \A a \in Keys : lastUse[a] <= now

CacheInv == CacheTypeOK /\ EntriesFit /\ NoneAhead

GoneAreOutrun ==
  \A a \in Keys \ DOMAIN cache :
    lastUse[a] # Never => Cardinality(AskedSince(a)) >= MaxSize

-----------------------------------------------------------------------------

LEMMA Constants ==
  /\ IsFiniteSet(Keys)
  /\ MaxSize \in Nat \ {0} /\ TTL \in Nat \ {0} /\ Idle \in Nat \ {0}
BY CacheAssumption

\* Sets of agents are finite and have a size.
LEMMA SizeOfNames ==
  ASSUME NEW S \in SUBSET Keys
  PROVE  IsFiniteSet(S) /\ Cardinality(S) \in Nat
BY Constants, FS_Subset, FS_CardinalityType

LEMMA Fewer ==
  ASSUME NEW T \in SUBSET Keys, NEW S \in SUBSET T
  PROVE  Cardinality(S) <= Cardinality(T)
BY SizeOfNames, FS_Subset

\* A swap of one agent for another keeps the size.
LEMMA SwapSize ==
  ASSUME NEW S \in SUBSET Keys, NEW a \in Keys \ S, NEW v \in S
  PROVE  Cardinality((S \ {v}) \cup {a}) = Cardinality(S)
<1>1. IsFiniteSet(S) /\ Cardinality(S) \in Nat
  BY SizeOfNames
<1>2. IsFiniteSet(S \ {v}) /\ Cardinality(S \ {v}) = Cardinality(S) - 1
  BY <1>1, FS_RemoveElement
<1>3. Cardinality((S \ {v}) \cup {a}) = Cardinality(S \ {v}) + 1
  BY <1>2, FS_AddElement
<1> QED
  BY <1>1, <1>2, <1>3

LEMMA CacheStarts == ClockInit /\ CacheInit => CacheInv /\ GoneAreOutrun
<1> SUFFICES ASSUME ClockInit, CacheInit PROVE CacheInv /\ GoneAreOutrun
  OBVIOUS
<1>1. DOMAIN cache = {} /\ cache \in [{} -> Entries]
  BY DEF CacheInit
<1>2. Cardinality({}) <= MaxSize
  BY FS_EmptySet, Constants
<1> QED
  BY <1>1, <1>2
  DEF ClockInit, CacheInit, CacheInv, CacheTypeOK, EntriesFit, NoneAhead,
      GoneAreOutrun, Never

-----------------------------------------------------------------------------

\* What a lookup that makes an instance leaves: the new entry, and others less
\* at most one, the least recently used, of a cache that is full.
LEMMA Creates ==
  ASSUME CacheInv, NEW a \in Keys, Create(a)
  PROVE  \E remain \in SUBSET (DOMAIN cache \ {a}) :
           /\ cache' = [b \in remain \cup {a} |->
                          IF b = a THEN [created |-> now, used |-> now] ELSE cache[b]]
           /\ Cardinality(remain \cup {a}) <= MaxSize
           /\ \A v \in (DOMAIN cache \ {a}) \ remain :
                /\ Cardinality((DOMAIN cache \ {a, v}) \cup {a}) >= MaxSize
                /\ \A b \in DOMAIN cache \ {a} : cache[v].used <= cache[b].used
<1> DEFINE others == DOMAIN cache \ {a}
<1>1. others \in SUBSET Keys /\ DOMAIN cache \in SUBSET Keys /\ a \in Keys \ others
  BY DEF CacheInv, CacheTypeOK
<1>2. IsFiniteSet(others) /\ Cardinality(others) \in Nat
  BY <1>1, SizeOfNames
<1>3. Cardinality(others \cup {a}) = Cardinality(others) + 1
  BY <1>1, <1>2, FS_AddElement
<1>4. Cardinality(others) <= MaxSize
  <2>1. Cardinality(others) <= Cardinality(DOMAIN cache)
    BY <1>1, Fewer
  <2> QED
    BY <2>1, <1>1, <1>2, SizeOfNames, Constants DEF CacheInv, CacheTypeOK
<1>5. CASE Cardinality(others) < MaxSize
  <2>1. cache' = [b \in (others \ {a}) \cup {a} |->
                    IF b = a THEN [created |-> now, used |-> now] ELSE cache[b]]
    BY <1>5 DEF Create
  <2>2. others \ {a} = others
    OBVIOUS
  <2>3. Cardinality(others \cup {a}) <= MaxSize
    BY <1>2, <1>3, <1>5, Constants
  <2> QED
    BY <2>1, <2>2, <2>3
<1>6. CASE ~(Cardinality(others) < MaxSize)
  <2>1. PICK v \in LeastRecent(others) :
          cache' = [b \in (others \ {v}) \cup {a} |->
                      IF b = a THEN [created |-> now, used |-> now] ELSE cache[b]]
    BY <1>6 DEF Create
  <2>2. v \in others /\ \A b \in others : cache[v].used <= cache[b].used
    BY <2>1 DEF LeastRecent
  <2>3. Cardinality(others) = MaxSize
    BY <1>2, <1>4, <1>6, Constants
  <2>4. Cardinality((others \ {v}) \cup {a}) = MaxSize
    BY <1>1, <2>2, <2>3, SwapSize
  <2>5. \A w \in others \ (others \ {v}) : w = v
    OBVIOUS
  <2>6. DOMAIN cache \ {a, v} = others \ {v}
    OBVIOUS
  <2>7. Cardinality((others \ {v}) \cup {a}) <= MaxSize
        /\ Cardinality((DOMAIN cache \ {a, v}) \cup {a}) >= MaxSize
    BY <2>4, <2>6, Constants
  <2> QED
    BY <2>1, <2>2, <2>5, <2>7
<1> QED
  BY <1>5, <1>6

LEMMA LookupKeepsInv ==
  ASSUME CacheInv, NEW a \in Keys, GetOrCreate(a) PROVE CacheInv'
<1> USE Constants DEF CacheInv, CacheTypeOK, EntriesFit, NoneAhead, Entries
<1>1. now' = now /\ lastUse' = [lastUse EXCEPT ![a] = now]
  BY DEF GetOrCreate
<1>2. CASE Hit(a)
  <2>1. cache' = [cache EXCEPT ![a].used = now] /\ a \in DOMAIN cache
        /\ now <= cache[a].created + TTL
    BY <1>2 DEF GetOrCreate, Hit
  <2>2. DOMAIN cache' = DOMAIN cache /\ cache'[a] = [cache[a] EXCEPT !.used = now]
        /\ \A b \in DOMAIN cache \ {a} : cache'[b] = cache[b]
    BY <2>1
  <2>3. cache'[a].used = now /\ cache'[a].created = cache[a].created
        /\ cache'[a] \in Entries
    BY <2>1, <2>2
  <2>4. cache[a].created <= now
    BY <2>1
  <2>5. cache' \in [DOMAIN cache -> Entries]
    BY <2>1, <2>2, <2>3
  <2> QED
    BY <1>1, <2>1, <2>2, <2>3, <2>4, <2>5
<1>3. CASE ~Hit(a)
  <2>1. PICK remain \in SUBSET (DOMAIN cache \ {a}) :
          /\ cache' = [b \in remain \cup {a} |->
                         IF b = a THEN [created |-> now, used |-> now] ELSE cache[b]]
          /\ Cardinality(remain \cup {a}) <= MaxSize
    BY <1>3, Creates DEF GetOrCreate
  <2>2. DOMAIN cache' = remain \cup {a} /\ cache'[a] = [created |-> now, used |-> now]
        /\ \A b \in remain : cache'[b] = cache[b]
    BY <2>1
  <2>3. cache' \in [remain \cup {a} -> Entries]
    BY <2>1
  <2> QED
    BY <1>1, <2>1, <2>2, <2>3
<1> QED
  BY <1>2, <1>3

\* Entries that go disturb nothing that is said of those that stay.
LEMMA KeepKeepsInv ==
  ASSUME CacheInv, NEW S \in SUBSET DOMAIN cache, cache' = Keep(S),
         now' = now, lastUse' = lastUse
  PROVE  CacheInv'
<1> USE Constants DEF CacheInv, CacheTypeOK, EntriesFit, NoneAhead
<1>1. DOMAIN cache' = S /\ \A b \in S : cache'[b] = cache[b]
  BY DEF Keep
<1>2. Cardinality(S) <= Cardinality(DOMAIN cache)
  BY Fewer
<1>3. Cardinality(S) <= MaxSize
  BY <1>2, SizeOfNames
<1>4. cache' \in [S -> Entries]
  BY <1>1 DEF Keep
<1> QED
  BY <1>1, <1>3, <1>4

LEMMA TimeKeepsInv == ASSUME CacheInv, TimePasses PROVE CacheInv'
BY DEF CacheInv, CacheTypeOK, EntriesFit, NoneAhead, TimePasses, Tick, cacheVars,
       Entries, Never

LEMMA CacheInvStep == CacheInv /\ [CacheNext]_<<now, cacheVars>> => CacheInv'
<1> SUFFICES ASSUME CacheInv, [CacheNext]_<<now, cacheVars>> PROVE CacheInv'
  OBVIOUS
<1>1. CASE TimePasses
  BY <1>1, TimeKeepsInv
<1>2. ASSUME NEW a \in Keys, GetOrCreate(a) PROVE CacheInv'
  BY <1>2, LookupKeepsInv
<1>3. ASSUME NEW a \in Keys, RemoveEntry(a) PROVE CacheInv'
  BY <1>3, KeepKeepsInv DEF RemoveEntry
<1>4. CASE Clear
  BY <1>4, KeepKeepsInv DEF Clear
<1>5. CASE CleanupIdle
  <2> DEFINE S == {a \in DOMAIN cache : now <= cache[a].used + Idle}
  <2>1. S \in SUBSET DOMAIN cache /\ cache' = Keep(S)
    BY <1>5 DEF CleanupIdle
  <2> QED
    BY <1>5, <2>1, KeepKeepsInv DEF CleanupIdle
<1>6. CASE UNCHANGED <<now, cacheVars>>
  BY <1>6 DEF CacheInv, CacheTypeOK, EntriesFit, NoneAhead, cacheVars
<1> QED
  BY <1>1, <1>2, <1>3, <1>4, <1>5, <1>6 DEF CacheNext, LookupNext

\* Whatever methods are called, the cache never holds more than MaxSize agents.
THEOREM NeverOverfull == CacheSpec => []CacheTypeOK
<1>1. ClockInit /\ CacheInit => CacheInv
  BY CacheStarts
<1>2. CacheInv => CacheTypeOK
  BY DEF CacheInv
<1> QED
  BY <1>1, <1>2, CacheInvStep, PTL DEF CacheSpec

-----------------------------------------------------------------------------

\* A lookup takes nobody out of the set of those asked for since.
LEMMA LookupOnlyAdds ==
  ASSUME CacheInv, NEW a \in Keys, GetOrCreate(a), NEW b \in Keys \ {a}
  PROVE  /\ lastUse'[b] = lastUse[b]
         /\ AskedSince(b) \subseteq AskedSince(b)'
         /\ a \in AskedSince(b)'
         /\ AskedSince(b)' \in SUBSET Keys
<1>1. lastUse' = [lastUse EXCEPT ![a] = now] /\ lastUse \in [Keys -> Nat \cup {Never}]
      /\ now \in Nat /\ lastUse[b] <= now /\ lastUse[a] <= now
  BY DEF GetOrCreate, CacheInv, CacheTypeOK, NoneAhead
<1> QED
  BY <1>1 DEF AskedSince, Never

LEMMA LookupKeepsGone ==
  ASSUME CacheInv, GoneAreOutrun, NEW a \in Keys, GetOrCreate(a)
  PROVE  GoneAreOutrun'
<1> SUFFICES ASSUME NEW b \in Keys, b \notin DOMAIN cache', lastUse'[b] # Never
             PROVE  Cardinality(AskedSince(b)') >= MaxSize
  BY DEF GoneAreOutrun
<1>1. a \in DOMAIN cache'
  <2>1. CASE Hit(a)
    BY <2>1 DEF GetOrCreate, Hit
  <2>2. CASE ~Hit(a)
    BY <2>2, Creates DEF GetOrCreate
  <2> QED
    BY <2>1, <2>2
<1>2. b # a
  BY <1>1
<1>3. /\ lastUse'[b] = lastUse[b]
      /\ AskedSince(b) \subseteq AskedSince(b)'
      /\ a \in AskedSince(b)'
      /\ AskedSince(b)' \in SUBSET Keys
  BY <1>2, LookupOnlyAdds
<1>4. CASE b \notin DOMAIN cache
  <2>1. Cardinality(AskedSince(b)) >= MaxSize
    BY <1>3, <1>4 DEF GoneAreOutrun
  <2>2. AskedSince(b) \in SUBSET Keys
    BY DEF AskedSince
  <2> QED
    BY <1>3, <2>1, <2>2, Fewer, SizeOfNames, Constants
<1>5. CASE b \in DOMAIN cache
  <2>1. ~Hit(a)
    BY <1>5 DEF GetOrCreate, Hit
  <2>2. /\ Cardinality((DOMAIN cache \ {a, b}) \cup {a}) >= MaxSize
        /\ \A c \in DOMAIN cache \ {a} : cache[b].used <= cache[c].used
    <3>1. PICK remain \in SUBSET (DOMAIN cache \ {a}) :
            /\ cache' = [c \in remain \cup {a} |->
                           IF c = a THEN [created |-> now, used |-> now] ELSE cache[c]]
            /\ \A v \in (DOMAIN cache \ {a}) \ remain :
                 /\ Cardinality((DOMAIN cache \ {a, v}) \cup {a}) >= MaxSize
                 /\ \A c \in DOMAIN cache \ {a} : cache[v].used <= cache[c].used
      BY <2>1, Creates DEF GetOrCreate
    <3>2. b \in (DOMAIN cache \ {a}) \ remain
      BY <1>2, <1>5, <3>1
    <3> QED
      BY <3>1, <3>2
  <2>3. (DOMAIN cache \ {a, b}) \cup {a} \subseteq AskedSince(b)'
    <3>1. ASSUME NEW c \in DOMAIN cache \ {a, b} PROVE c \in AskedSince(b)
      BY <1>5, <2>2, <3>1 DEF CacheInv, CacheTypeOK, EntriesFit, AskedSince
    <3> QED
      BY <1>3, <3>1
  <2> QED
    BY <1>3, <2>2, <2>3, Fewer, SizeOfNames, Constants
<1> QED
  BY <1>4, <1>5

LEMMA CacheInvKeepsRecent == CacheInv /\ GoneAreOutrun => RecentlyUsedKept
<1> SUFFICES ASSUME CacheInv, GoneAreOutrun, NEW a \in Keys, lastUse[a] # Never,
                    Cardinality(AskedSince(a)) < MaxSize
             PROVE  /\ a \in DOMAIN cache
                    /\ cache[a].used = lastUse[a]
                    /\ lastUse[a] <= cache[a].created + TTL
  BY DEF RecentlyUsedKept
<1>1. AskedSince(a) \in SUBSET Keys
  BY DEF AskedSince
<1>2. a \in DOMAIN cache
  BY <1>1, SizeOfNames, Constants DEF GoneAreOutrun
<1> QED
  BY <1>2 DEF CacheInv, EntriesFit

\* The program, which only looks agents up, finds what it used recently.
THEOREM LookupsKeepRecent == LookupSpec => []RecentlyUsedKept
<1> DEFINE Inv == CacheInv /\ GoneAreOutrun
<1>1. ClockInit /\ CacheInit => Inv
  BY CacheStarts
<1>2. Inv /\ [LookupNext]_<<now, cacheVars>> => Inv'
  <2> SUFFICES ASSUME Inv, [LookupNext]_<<now, cacheVars>> PROVE Inv'
    OBVIOUS
  <2>1. CacheInv'
    BY CacheInvStep DEF CacheNext
  <2>2. ASSUME TimePasses \/ UNCHANGED <<now, cacheVars>> PROVE GoneAreOutrun'
    BY <2>2 DEF GoneAreOutrun, AskedSince, TimePasses, cacheVars
  <2>3. ASSUME NEW a \in Keys, GetOrCreate(a) PROVE GoneAreOutrun'
    BY <2>3, LookupKeepsGone
  <2>4. GoneAreOutrun'
    BY <2>2, <2>3 DEF LookupNext
  <2> QED
    BY <2>1, <2>4
<1>3. Inv => RecentlyUsedKept
  BY CacheInvKeepsRecent
<1> QED
  BY <1>1, <1>2, <1>3, PTL DEF LookupSpec

-----------------------------------------------------------------------------

\* Index i is that of a failure which had too many before it in its window.
TooMany(l, i) == i > MaxFails /\ l[i - MaxFails] > l[i] - Window

\* Of the failures of an address, log, the limiter has the last ones, times; what it
\* has forgotten was out of the window at the last of them.
Remembers(times, l) ==
  /\ \A i, j \in DOMAIN l : i <= j => l[i] <= l[j]
  /\ \A i \in DOMAIN l : l[i] <= now
  /\ times = <<>> <=> l = <<>>
  /\ Len(times) <= Len(l)
  /\ \A i \in 1..Len(times) : times[i] = l[Len(l) - Len(times) + i]
  /\ \A i \in 1..Len(l) - Len(times) : l[i] <= l[Len(l)] - Window

\* Of times in order, as many are out of the window as come before the first that is
\* in it.
LEMMA ExpiredComeFirst ==
  ASSUME NEW s \in Seq(Int), NEW c \in Int,
         \A i, j \in DOMAIN s : i <= j => s[i] <= s[j]
  PROVE  \E k \in 0..Len(s) :
           /\ Cardinality({i \in DOMAIN s : s[i] <= c}) = k
           /\ \A i \in DOMAIN s : s[i] <= c <=> i <= k
<1> DEFINE Old == {i \in DOMAIN s : s[i] <= c}
           Young == DOMAIN s \ Old
<1>1. DOMAIN s = 1..Len(s) /\ Len(s) \in Nat
  OBVIOUS
<1>2. SUFFICES ASSUME NEW k \in 0..Len(s), \A i \in DOMAIN s : s[i] <= c <=> i <= k
               PROVE  Cardinality(Old) = k
  <2>1. CASE Young = {}
    BY <1>1, <2>1
  <2>2. CASE Young # {}
    <3>1. Young \subseteq Nat
      BY <1>1
    <3>2. PICK y \in Young : \A x \in Young : ~(<<x, y>> \in OpToRel(<, Nat))
      BY <2>2, <3>1, NatLessThanWellFounded, WFMin
    <3>3. \A x \in Young : ~(x < y)
      BY <3>1, <3>2 DEF OpToRel
    <3>4. y - 1 \in 0..Len(s) /\ \A i \in DOMAIN s : s[i] <= c <=> i <= y - 1
      BY <1>1, <3>3
    <3> QED
      BY <3>4, <1>2
  <2> QED
    BY <2>1, <2>2
<1>3. Old = 1..k
  BY <1>1, <1>2
<1>4. Cardinality(1..k) = k
  <2>1. k \in Nat /\ k \in Int
    BY <1>1
  <2> QED
    BY <2>1, FS_Interval
<1> QED
  BY <1>3, <1>4

LEMMA Shorten ==
  ASSUME NEW s \in Seq(Int), NEW k \in 0..Len(s), NEW t \in Int
  PROVE  LET r == Append(SubSeq(s, k + 1, Len(s)), t)
         IN  /\ r \in Seq(Int) /\ Len(r) = Len(s) - k + 1
             /\ \A i \in 1..Len(s) - k : r[i] = s[k + i]
             /\ r[Len(s) - k + 1] = t
OBVIOUS

LEMMA RecordKeepsMemory ==
  ASSUME NEW f \in Seq(Int), NEW l \in Seq(Int), Remembers(f, l), now \in Int
  PROVE  LET f2 == Append(Recent(f), now)
             l2 == Append(l, now)
         IN  /\ f2 \in Seq(Int) /\ l2 \in Seq(Int)
             /\ Remembers(f2, l2)
             /\ TooMany(l2, Len(l2)) <=> f # <<>> /\ Len(f2) > MaxFails
<1> DEFINE m == Len(f)
           n == Len(l)
           f2 == Append(Recent(f), now)
           l2 == Append(l, now)
<1>0. m \in Nat /\ n \in Nat /\ m <= n /\ MaxFails \in Nat \ {0} /\ Window \in Nat
      /\ DOMAIN f = 1..m /\ DOMAIN l = 1..n
      /\ now \in Int
  BY LimiterAssumption DEF Remembers
<1>a. (\A i \in 1..m : f[i] \in Int) /\ (\A i \in 1..n : l[i] \in Int)
  OBVIOUS
<1>b. /\ \A i, j \in 1..n : i <= j => l[i] <= l[j]
      /\ \A i \in 1..n : l[i] <= now
      /\ f = <<>> <=> l = <<>>
      /\ \A i \in 1..m : f[i] = l[n - m + i]
      /\ \A i \in 1..n - m : l[i] <= l[n] - Window
  BY <1>0 DEF Remembers
<1>c. (f = <<>> <=> m = 0) /\ (l = <<>> <=> n = 0)
  OBVIOUS
<1>1. \A i, j \in DOMAIN f : i <= j => f[i] <= f[j]
  <2> SUFFICES ASSUME NEW i \in 1..m, NEW j \in 1..m, i <= j PROVE f[i] <= f[j]
    OBVIOUS
  <2>1. f[i] = l[n - m + i] /\ f[j] = l[n - m + j]
    BY DEF Remembers
  <2>2. n - m + i \in 1..n /\ n - m + j \in 1..n /\ n - m + i <= n - m + j
    BY <1>0
  <2> QED
    BY <1>0, <2>1, <2>2 DEF Remembers
<1>2. PICK k \in 0..m :
        /\ Cardinality({i \in DOMAIN f : f[i] <= now - Window}) = k
        /\ \A i \in DOMAIN f : f[i] <= now - Window <=> i <= k
  <2>1. now - Window \in Int
    BY <1>0
  <2> QED
    BY <1>1, <2>1, ExpiredComeFirst
<1>3. Recent(f) = SubSeq(f, k + 1, m)
  BY <1>2 DEF Recent
<1>4. /\ f2 \in Seq(Int) /\ Len(f2) = m - k + 1
      /\ \A i \in 1..m - k : f2[i] = f[k + i]
      /\ f2[m - k + 1] = now
  BY <1>3, Shorten
<1>5. /\ l2 \in Seq(Int) /\ Len(l2) = n + 1 /\ DOMAIN l2 = 1..n + 1
      /\ l2[n + 1] = now /\ \A i \in 1..n : l2[i] = l[i]
  BY <1>0
<1> HIDE DEF f2, l2, m, n
<1>7. \A i \in DOMAIN l2 : l2[i] <= now
  BY <1>0, <1>a, <1>b, <1>c, <1>5
<1>6. \A i, j \in DOMAIN l2 : i <= j => l2[i] <= l2[j]
  <2> SUFFICES ASSUME NEW i \in 1..n + 1, NEW j \in 1..n + 1, i <= j
               PROVE  l2[i] <= l2[j]
    BY <1>5
  <2>1. CASE j = n + 1
    BY <1>0, <1>5, <1>7, <2>1
  <2>2. CASE j # n + 1
    <3>1. i \in 1..n /\ j \in 1..n
      BY <1>0, <2>2
    <3> QED
      BY <1>b, <1>5, <3>1
  <2> QED
    BY <2>1, <2>2
<1>8. f2 # <<>> /\ l2 # <<>>
  BY <1>0, <1>a, <1>b, <1>c, <1>2, <1>4, <1>5
<1>9. Len(f2) <= Len(l2)
  BY <1>0, <1>a, <1>b, <1>c, <1>2, <1>4, <1>5
<1>10. \A i \in 1..Len(f2) : f2[i] = l2[Len(l2) - Len(f2) + i]
  <2> SUFFICES ASSUME NEW i \in 1..m - k + 1 PROVE f2[i] = l2[n - m + k + i]
    BY <1>0, <1>2, <1>4, <1>5
  <2>1. CASE i = m - k + 1
    BY <1>0, <1>a, <1>b, <1>c, <1>2, <1>4, <1>5, <2>1
  <2>2. CASE i # m - k + 1
    <3>1. i \in 1..m - k /\ k + i \in 1..m /\ n - m + (k + i) \in 1..n
      BY <1>0, <1>a, <1>b, <1>c, <1>2, <2>2
    <3>2. f2[i] = f[k + i] /\ f[k + i] = l[n - m + (k + i)]
      BY <1>b, <1>4, <3>1
    <3>3. n - m + (k + i) = n - m + k + i
      BY <1>0, <1>a, <1>b, <1>c, <1>2
    <3> QED
      BY <1>5, <3>1, <3>2, <3>3
  <2> QED
    BY <2>1, <2>2
<1>11. \A i \in 1..Len(l2) - Len(f2) : l2[i] <= now - Window
  <2>0. Len(l2) - Len(f2) = n - m + k
    BY <1>0, <1>2, <1>4, <1>5
  <2> SUFFICES ASSUME NEW i \in 1..n - m + k PROVE l2[i] <= now - Window
    BY <2>0
  <2>1. i \in 1..n /\ l2[i] = l[i] /\ l[i] \in Int
    BY <1>0, <1>a, <1>b, <1>c, <1>2, <1>5
  <2>2. CASE i <= n - m
    <3>1. l[i] <= l[n] - Window
      BY <1>0, <1>a, <1>b, <1>c, <2>2
    <3>2. l[n] <= now /\ l[n] \in Int
      BY <1>0, <1>a, <1>b, <1>c, <2>1
    <3> QED
      BY <1>0, <1>a, <1>b, <1>c, <2>1, <3>1, <3>2
  <2>3. CASE ~(i <= n - m)
    <3>1. i - (n - m) \in 1..m /\ i - (n - m) <= k
      BY <1>0, <1>a, <1>b, <1>c, <1>2, <2>1, <2>3
    <3>2. f[i - (n - m)] = l[n - m + (i - (n - m))]
      BY <1>b, <3>1
    <3>3. n - m + (i - (n - m)) = i
      BY <1>0, <1>a, <1>b, <1>c, <2>1
    <3> QED
      BY <1>0, <1>a, <1>b, <1>c, <1>2, <2>1, <3>1, <3>2, <3>3
  <2> QED
    BY <2>2, <2>3
<1>12. Remembers(f2, l2)
  BY <1>5, <1>6, <1>7, <1>8, <1>9, <1>10, <1>11 DEF Remembers
<1>13. TooMany(l2, n + 1) <=> f # <<>> /\ Len(f2) > MaxFails
  <2>1. ASSUME TooMany(l2, n + 1) PROVE f # <<>> /\ Len(f2) > MaxFails
    <3>1. n + 1 > MaxFails /\ l2[n + 1 - MaxFails] > now - Window
      BY <1>0, <1>5, <2>1 DEF TooMany
    <3>2. n + 1 - MaxFails \in 1..n
      BY <1>0, <1>a, <1>b, <1>c, <3>1
    <3>3. ~(n + 1 - MaxFails \in 1..n - m + k)
      BY <1>0, <1>a, <1>b, <1>c, <1>2, <1>4, <1>5, <1>11, <3>1, <3>2
    <3> QED
      BY <1>0, <1>a, <1>b, <1>c, <1>2, <1>4, <3>2, <3>3
  <2>2. ASSUME f # <<>>, Len(f2) > MaxFails PROVE TooMany(l2, n + 1)
    <3>1. m - k + 1 - MaxFails \in 1..m - k
      BY <1>0, <1>a, <1>b, <1>c, <1>2, <1>4, <2>2
    <3>2. f2[m - k + 1 - MaxFails] = f[k + (m - k + 1 - MaxFails)]
          /\ k + (m - k + 1 - MaxFails) = m + 1 - MaxFails
      BY <1>0, <1>a, <1>b, <1>c, <1>2, <1>4, <3>1
    <3>3. m + 1 - MaxFails \in 1..m /\ ~(m + 1 - MaxFails <= k)
      BY <1>0, <1>a, <1>b, <1>c, <1>2, <3>1
    <3>4. f[m + 1 - MaxFails] = l[n - m + (m + 1 - MaxFails)]
      BY <1>b, <3>3
    <3>5. n - m + (m + 1 - MaxFails) = n + 1 - MaxFails /\ n + 1 - MaxFails \in 1..n
      BY <1>0, <1>a, <1>b, <1>c, <3>3
    <3>6. f[m + 1 - MaxFails] > now - Window
      <4>1. ~(f[m + 1 - MaxFails] <= now - Window)
        BY <1>0, <1>2, <3>3
      <4>2. f[m + 1 - MaxFails] \in Int /\ now - Window \in Int
        BY <1>0, <1>a, <3>3
      <4> QED
        BY <4>1, <4>2
    <3>7. l2[n + 1 - MaxFails] > now - Window /\ n + 1 > MaxFails
      BY <1>0, <1>a, <1>b, <1>c, <1>5, <3>4, <3>5, <3>6
    <3> QED
      BY <1>0, <1>5, <3>7 DEF TooMany
  <2> QED
    BY <2>1, <2>2
<1> QED
  BY <1>4, <1>5, <1>12, <1>13 DEF f2, l2

LEMMA EarlierTooMany ==
  ASSUME NEW l \in Seq(Int), NEW t \in Int, NEW i \in DOMAIN l
  PROVE  TooMany(Append(l, t), i) <=> TooMany(l, i)
<1>1. MaxFails \in Nat \ {0}
  BY LimiterAssumption
<1>2. Append(l, t)[i] = l[i] /\ \A j \in DOMAIN l : Append(l, t)[j] = l[j]
  OBVIOUS
<1>3. i > MaxFails => i - MaxFails \in DOMAIN l
  BY <1>1
<1> QED
  BY <1>2, <1>3 DEF TooMany

\* What the invariant says of one address.
AddressInv(f, b, l) ==
  /\ Remembers(f, l)
  /\ \A t \in b : \E i \in DOMAIN l : TooMany(l, i) /\ t = l[i]
  /\ \A i \in DOMAIN l : TooMany(l, i) => \E t \in b : l[i] <= t

LEMMA FailureKeepsAddress ==
  ASSUME LimiterTypeOK, NEW f \in Seq(Int), NEW b, NEW l \in Seq(Int),
         AddressInv(f, b, l)
  PROVE  LET times == Append(Recent(f), now)
         IN  AddressInv(times, IF f # <<>> /\ Len(times) > MaxFails THEN {now} ELSE b,
                        Append(l, now))
<1> DEFINE times == Append(Recent(f), now)
           b2 == IF f # <<>> /\ Len(times) > MaxFails THEN {now} ELSE b
           l2 == Append(l, now)
           n == Len(l)
<1>1. now \in Int
  BY DEF LimiterTypeOK, ClockTypeOK
<1>2. Remembers(f, l)
  BY DEF AddressInv
<1>3. /\ times \in Seq(Int) /\ l2 \in Seq(Int)
      /\ Remembers(times, l2)
      /\ TooMany(l2, Len(l2)) <=> f # <<>> /\ Len(times) > MaxFails
  BY <1>1, <1>2, RecordKeepsMemory
<1>4. /\ n \in Nat /\ Len(l2) = n + 1 /\ l2[n + 1] = now
      /\ DOMAIN l2 = 1..n + 1 /\ DOMAIN l = 1..n
      /\ \A i \in 1..n : l2[i] = l[i] /\ l[i] \in Int
  BY <1>1
<1>5. \A i \in 1..n : TooMany(l2, i) <=> TooMany(l, i)
  BY <1>1, EarlierTooMany
<1>6. \A i \in 1..n + 1 : l2[i] <= now
  BY <1>3, <1>4 DEF Remembers
<1> HIDE DEF times, l2, n
<1>7. ASSUME f # <<>> /\ Len(times) > MaxFails PROVE AddressInv(times, b2, l2)
  <2>1. b2 = {now} /\ TooMany(l2, n + 1)
    BY <1>3, <1>4, <1>7
  <2>2. n + 1 \in DOMAIN l2
    BY <1>4
  <2>3. \A t \in b2 : \E i \in DOMAIN l2 : TooMany(l2, i) /\ t = l2[i]
    BY <1>4, <2>1, <2>2
  <2>4. \A i \in DOMAIN l2 : TooMany(l2, i) => \E t \in b2 : l2[i] <= t
    BY <1>4, <1>6, <2>1
  <2> QED
    BY <1>3, <2>3, <2>4 DEF AddressInv
<1>8. ASSUME ~(f # <<>> /\ Len(times) > MaxFails) PROVE AddressInv(times, b2, l2)
  <2>1. b2 = b /\ ~TooMany(l2, n + 1)
    BY <1>3, <1>4, <1>8
  <2>2. \A t \in b : \E i \in DOMAIN l : TooMany(l, i) /\ t = l[i]
    BY DEF AddressInv
  <2>3. \A i \in DOMAIN l : TooMany(l, i) => \E t \in b : l[i] <= t
    BY DEF AddressInv
  <2>4. \A t \in b2 : \E i \in DOMAIN l2 : TooMany(l2, i) /\ t = l2[i]
    <3> SUFFICES ASSUME NEW t \in b2 PROVE \E i \in DOMAIN l2 : TooMany(l2, i) /\ t = l2[i]
      OBVIOUS
    <3>1. PICK i \in DOMAIN l : TooMany(l, i) /\ t = l[i]
      BY <2>1, <2>2
    <3>2. i \in 1..n /\ i \in DOMAIN l2 /\ l2[i] = l[i]
      BY <1>4, <3>1
    <3>3. TooMany(l2, i)
      BY <1>5, <3>1, <3>2
    <3> QED
      BY <3>1, <3>2, <3>3
  <2>5. \A i \in DOMAIN l2 : TooMany(l2, i) => \E t \in b2 : l2[i] <= t
    <3> SUFFICES ASSUME NEW i \in DOMAIN l2, TooMany(l2, i) PROVE \E t \in b2 : l2[i] <= t
      OBVIOUS
    <3>1. i \in 1..n
      BY <1>4, <2>1
    <3> QED
      BY <1>4, <1>5, <2>1, <2>3, <3>1
  <2> QED
    BY <1>3, <2>4, <2>5 DEF AddressInv
<1> QED
  BY <1>7, <1>8 DEF times, l2

LEMMA TypedTimes ==
  ASSUME NEW s \in Seq(0..MaxTime), now \in 0..MaxTime
  PROVE  /\ s \in Seq(Int)
         /\ Append(s, now) \in Seq(0..MaxTime)
         /\ Append(Recent(s), now) \in Seq(0..MaxTime)
         /\ \A i \in DOMAIN s : s[i] \in Int
<1>0. 0..MaxTime \subseteq Int
  OBVIOUS
<1>a. Len(s) \in Nat /\ DOMAIN s = 1..Len(s) /\ \A i \in 1..Len(s) : s[i] \in 0..MaxTime
  BY LenProperties, ElementOfSeq
<1>b. \A i \in DOMAIN s : s[i] \in Int
  BY <1>0, <1>a
<1>c. s \in Seq(Int)
  <2>1. s \in [1..Len(s) -> Int]
    BY <1>a, <1>b, LenProperties
  <2> QED
    BY <1>a, <2>1
<1>1. Append(s, now) \in Seq(0..MaxTime)
  BY AppendProperties
<1> DEFINE k == Cardinality({i \in DOMAIN s : s[i] <= now - Window})
<1>2. IsFiniteSet({i \in DOMAIN s : s[i] <= now - Window})
  <2>1. IsFiniteSet(1..Len(s)) /\ DOMAIN s = 1..Len(s)
    BY <1>a, FS_Interval
  <2> QED
    BY <2>1, FS_Subset
<1>3. k \in 0..Len(s)
  <2>1. IsFiniteSet(1..Len(s)) /\ DOMAIN s = 1..Len(s) /\ Cardinality(1..Len(s)) = Len(s)
    <3>1. 1 \in Int /\ Len(s) \in Int /\ Len(s) \in Nat
      BY <1>a
    <3>2. Cardinality(1..Len(s)) = IF 1 > Len(s) THEN 0 ELSE Len(s) - 1 + 1
      BY <3>1, FS_Interval
    <3>3. IsFiniteSet(1..Len(s))
      BY <3>1, FS_Interval
    <3> QED
      BY <1>a, <3>1, <3>2, <3>3
  <2>2. Cardinality({i \in DOMAIN s : s[i] <= now - Window}) <= Cardinality(1..Len(s))
    BY <2>1, FS_Subset
  <2> QED
    BY <1>2, <2>1, <2>2, FS_CardinalityType
<1> HIDE DEF k
<1>4. SubSeq(s, k + 1, Len(s)) \in Seq(0..MaxTime)
  <2>1. k + 1 \in Int /\ Len(s) \in Int /\ \A i \in k + 1..Len(s) : s[i] \in 0..MaxTime
    BY <1>a, <1>3
  <2> QED
    BY <2>1, SubSeqProperties
<1>5. Append(SubSeq(s, k + 1, Len(s)), now) \in Seq(0..MaxTime)
  BY <1>4, AppendProperties
<1> QED
  BY <1>1, <1>b, <1>c, <1>5 DEF Recent, k

LimiterInv == LimiterTypeOK /\ \A a \in Addresses : AddressInv(failures[a], blocked[a], log[a])

LEMMA FailureKeepsInv ==
  ASSUME LimiterInv, NEW a \in Addresses, RecordFailure(a)
  PROVE  LimiterInv'
<1> DEFINE times == Append(Recent(failures[a]), now)
           b2 == IF failures[a] # <<>> /\ Len(times) > MaxFails THEN {now} ELSE blocked[a]
<1>1. /\ now \in 0..MaxTime /\ failures \in [Addresses -> Seq(0..MaxTime)]
      /\ log \in [Addresses -> Seq(0..MaxTime)] /\ blocked \in [Addresses -> SUBSET (0..MaxTime)]
  BY DEF LimiterInv, LimiterTypeOK, ClockTypeOK
<1>2. /\ failures' = [failures EXCEPT ![a] = times]
      /\ log' = [log EXCEPT ![a] = Append(@, now)]
      /\ now' = now
      /\ blocked' = [blocked EXCEPT ![a] = b2]
  BY DEF RecordFailure
<1>3. failures[a] \in Seq(Int) /\ log[a] \in Seq(Int) /\ times \in Seq(0..MaxTime)
      /\ Append(log[a], now) \in Seq(0..MaxTime)
  BY <1>1, TypedTimes
<1>4. AddressInv(times, b2, Append(log[a], now))
  BY <1>3, FailureKeepsAddress DEF LimiterInv
<1>5. b2 \in SUBSET (0..MaxTime)
  BY <1>1
<1> HIDE DEF times, b2
<1>6. LimiterTypeOK'
  BY <1>1, <1>2, <1>3, <1>5 DEF LimiterTypeOK, ClockTypeOK
<1>7. \A x \in Addresses : AddressInv(failures'[x], blocked'[x], log'[x])
  BY <1>1, <1>2, <1>4 DEF LimiterInv
<1>8. \A x \in Addresses : AddressInv(failures[x], blocked[x], log[x])'
  <2>1. now' = now
    BY <1>2
  <2> QED
    BY <1>7, <2>1, Zenon DEF AddressInv, Remembers, TooMany
<1> QED
  BY <1>6, <1>8 DEF LimiterInv

LEMMA TickKeepsInv == LimiterInv /\ Tick /\ UNCHANGED limiterVars => LimiterInv'
<1> SUFFICES ASSUME LimiterInv, Tick, UNCHANGED limiterVars PROVE LimiterInv'
  OBVIOUS
<1>1. now' = now + 1 /\ now \in 0..MaxTime /\ now' \in 0..MaxTime
  BY ClockAssumption DEF Tick, LimiterInv, LimiterTypeOK, ClockTypeOK
<1>2. LimiterTypeOK'
  BY <1>1 DEF LimiterInv, LimiterTypeOK, ClockTypeOK, limiterVars
<1>3. ASSUME NEW a \in Addresses
      PROVE  Remembers(failures[a], log[a])'
  <2>1. Remembers(failures[a], log[a]) /\ log[a] \in Seq(0..MaxTime)
    BY DEF LimiterInv, AddressInv, LimiterTypeOK
  <2>2. \A i \in DOMAIN log[a] : log[a][i] \in Int /\ log[a][i] <= now
    BY <1>1, <2>1, TypedTimes DEF Remembers
  <2>3. \A i \in DOMAIN log[a] : log[a][i] <= now'
    BY <1>1, <2>2
  <2> QED
    BY <2>1, <2>3 DEF Remembers, limiterVars
<1>4. ASSUME NEW a \in Addresses
      PROVE  AddressInv(failures[a], blocked[a], log[a])'
  BY <1>3 DEF LimiterInv, AddressInv, TooMany, limiterVars
<1> QED
  BY <1>2, <1>4 DEF LimiterInv

LEMMA LimiterStarts == ClockInit /\ LimiterInit => LimiterInv
<1> SUFFICES ASSUME ClockInit, LimiterInit PROVE LimiterInv
  OBVIOUS
<1>1. LimiterTypeOK
  BY ClockAssumption DEF ClockInit, LimiterInit, LimiterTypeOK, ClockTypeOK
<1>2. ASSUME NEW a \in Addresses PROVE AddressInv(failures[a], blocked[a], log[a])
  <2>1. failures[a] = <<>> /\ blocked[a] = {} /\ log[a] = <<>>
    BY DEF LimiterInit
  <2>2. Remembers(<<>>, <<>>)
    BY DEF Remembers
  <2> QED
    BY <2>1, <2>2 DEF AddressInv
<1> QED
  BY <1>1, <1>2 DEF LimiterInv

LEMMA LimiterInvStep == LimiterInv /\ [LimiterNext]_<<now, limiterVars>> => LimiterInv'
<1>1. LimiterInv /\ UNCHANGED <<now, limiterVars>> => LimiterInv'
  BY DEF LimiterInv, LimiterTypeOK, ClockTypeOK, AddressInv, Remembers, TooMany, limiterVars
<1> QED
  BY <1>1, FailureKeepsInv, TickKeepsInv DEF LimiterNext

\* The variables of the limiter keep their types.
THEOREM LimiterTyped == LimiterSpec => []LimiterTypeOK
<1>1. LimiterInv => LimiterTypeOK
  BY DEF LimiterInv
<1> QED
  BY <1>1, LimiterStarts, LimiterInvStep, PTL DEF LimiterSpec

\* The few times the limiter keeps are enough to block exactly whom it should
\* (auth.go:136-172).
THEOREM BlockedExactly == LimiterSpec => []BlockedIffTooManyFailures
<1>1. LimiterInv => BlockedIffTooManyFailures
  <2> SUFFICES ASSUME LimiterInv, NEW a \in Addresses
               PROVE  IsBlocked(a) <=>
                        \E i \in DOMAIN log[a] :
                          /\ i > MaxFails /\ log[a][i - MaxFails] > log[a][i] - Window
                          /\ now < log[a][i] + Block
    BY DEF BlockedIffTooManyFailures
  <2>1. /\ now \in Int /\ Block \in Nat /\ \A t \in blocked[a] : t \in Int
        /\ \A i \in DOMAIN log[a] : log[a][i] \in Int
    BY LimiterAssumption, TypedTimes DEF LimiterInv, LimiterTypeOK, ClockTypeOK
  <2>2. /\ \A t \in blocked[a] : \E i \in DOMAIN log[a] : TooMany(log[a], i) /\ t = log[a][i]
        /\ \A i \in DOMAIN log[a] : TooMany(log[a], i) => \E t \in blocked[a] : log[a][i] <= t
    BY DEF LimiterInv, AddressInv
  <2>3. ASSUME IsBlocked(a)
        PROVE  \E i \in DOMAIN log[a] : TooMany(log[a], i) /\ now < log[a][i] + Block
    BY <2>2, <2>3 DEF IsBlocked
  <2>4. ASSUME NEW i \in DOMAIN log[a], TooMany(log[a], i), now < log[a][i] + Block
        PROVE  IsBlocked(a)
    <3>1. PICK t \in blocked[a] : log[a][i] <= t
      BY <2>2, <2>4
    <3>2. now < t + Block
      BY <2>1, <2>4, <3>1
    <3> QED
      BY <3>2 DEF IsBlocked
  <2> QED
    BY <2>3, <2>4 DEF TooMany
<1> QED
  BY <1>1, LimiterStarts, LimiterInvStep, PTL DEF LimiterSpec

-----------------------------------------------------------------------------

\* A finite set that an order compares all members of has a last one.
LEMMA HasLast ==
  ASSUME NEW S, IsFiniteSet(S), S # {}, NEW R,
         \A x, y \in S : <<x, y>> \in R \/ <<y, x>> \in R,
         \A x, y, z \in S : <<x, y>> \in R /\ <<y, z>> \in R => <<x, z>> \in R
  PROVE  \E x \in S : \A y \in S : <<y, x>> \in R
<1> DEFINE HasOne(U) == \E x \in U : \A y \in U : <<y, x>> \in R
           Without == {U \in FiniteSubsetsOf(S) : U # {} /\ ~HasOne(U)}
<1>1. SUFFICES ASSUME Without # {} PROVE FALSE
  <2>1. S \in FiniteSubsetsOf(S)
    BY DEF FiniteSubsetsOf
  <2> QED
    BY <2>1, <1>1
<1>2. PICK U \in Without : \A V \in Without : ~(<<V, U>> \in StrictSubsetOrdering(S))
  <2>1. Without \subseteq FiniteSubsetsOf(S)
    OBVIOUS
  <2>2. IsWellFoundedOn(StrictSubsetOrdering(S), FiniteSubsetsOf(S))
    BY FS_StrictSubsetOrderingWellFounded
  <2> HIDE DEF Without
  <2> QED
    BY <1>1, <2>1, <2>2, WFMin
<1>3. U \subseteq S /\ IsFiniteSet(U) /\ U # {} /\ ~HasOne(U)
  BY DEF FiniteSubsetsOf
<1>4. PICK x \in U : TRUE
  BY <1>3
<1> DEFINE V == U \ {x}
<1>5. V \subseteq S /\ IsFiniteSet(V) /\ V # U
  BY <1>3, <1>4, FS_Subset
<1>6. V \notin Without
  BY <1>2, <1>3, <1>4, <1>5 DEF StrictSubsetOrdering, FiniteSubsetsOf
<1>7. CASE V = {}
  BY <1>3, <1>4, <1>7
<1>8. CASE V # {}
  <2>1. HasOne(V)
    BY <1>5, <1>6, <1>8 DEF FiniteSubsetsOf
  <2>2. PICK v \in V : \A y \in V : <<y, v>> \in R
    BY <2>1
  <2>3. x \in S /\ v \in S /\ \A y \in U : y \in S /\ (y = x \/ y \in V)
    BY <1>3, <1>4, <2>2
  <2>4. \A y \in V : y \in S
    BY <1>5
  <2>5. <<x, x>> \in R
    BY <2>3
  <2>6. CASE <<x, v>> \in R
    BY <1>3, <2>2, <2>3, <2>6
  <2>7. CASE <<v, x>> \in R
    <3>1. \A y \in U : <<y, x>> \in R
      BY <2>2, <2>3, <2>5, <2>7
    <3> QED
      BY <1>3, <1>4, <3>1
  <2> QED
    BY <2>3, <2>6, <2>7
<1> QED
  BY <1>7, <1>8

LEMMA NewestIsLast ==
  ASSUME NEW S \in SUBSET Int, IsFiniteSet(S), S # {}
  PROVE  Newest(S) \in S /\ \A h \in S : h <= Newest(S)
<1> DEFINE R == {p \in S \X S : p[1] <= p[2]}
<1>1. \A x, y \in S : <<x, y>> \in R <=> x <= y
  OBVIOUS
<1> HIDE DEF R
<1>2. \E x \in S : \A y \in S : <<y, x>> \in R
  <2>0. \A x \in S : x \in Int
    OBVIOUS
  <2>1. \A x, y \in S : <<x, y>> \in R \/ <<y, x>> \in R
    <3>1. \A x, y \in S : x <= y \/ y <= x
      BY <2>0
    <3> QED
      BY <1>1, <3>1
  <2>2. \A x, y, z \in S : <<x, y>> \in R /\ <<y, z>> \in R => <<x, z>> \in R
    BY <1>1, <2>0
  <2> QED
    BY <2>1, <2>2, HasLast
<1>3. \E x \in S : \A y \in S : y <= x
  BY <1>1, <1>2
<1> QED
  BY <1>3 DEF Newest

LEMMA OldestIsFirst ==
  ASSUME NEW S \in SUBSET Int, IsFiniteSet(S), S # {}
  PROVE  Oldest(S) \in S /\ \A h \in S : Oldest(S) <= h
<1> DEFINE R == {p \in S \X S : p[2] <= p[1]}
<1>1. \A x, y \in S : <<x, y>> \in R <=> y <= x
  OBVIOUS
<1> HIDE DEF R
<1>2. \E x \in S : \A y \in S : <<y, x>> \in R
  <2>0. \A x \in S : x \in Int
    OBVIOUS
  <2>1. \A x, y \in S : <<x, y>> \in R \/ <<y, x>> \in R
    <3>1. \A x, y \in S : x <= y \/ y <= x
      BY <2>0
    <3> QED
      BY <1>1, <3>1
  <2>2. \A x, y, z \in S : <<x, y>> \in R /\ <<y, z>> \in R => <<x, z>> \in R
    BY <1>1, <2>0
  <2> QED
    BY <2>1, <2>2, HasLast
<1>3. \E x \in S : \A y \in S : x <= y
  BY <1>1, <1>2
<1> QED
  BY <1>3 DEF Oldest

\* What an Excess leaves is few enough: the others are newer than the oldest that is
\* left, which has less than MaxReports newer ones.
LEMMA ExcessLeavesFew ==
  ASSUME NEW S \in SUBSET Int, IsFiniteSet(S), MaxReports > 0
  PROVE  Cardinality(S \ Excess(S)) <= MaxReports
<1> DEFINE Few == S \ Excess(S)
<1>1. Few \in SUBSET Int /\ IsFiniteSet(Few) /\ MaxReports \in Nat
  BY FS_Subset, ReportsAssumption
<1>2. CASE Few = {}
  BY <1>1, <1>2, FS_EmptySet
<1>3. CASE Few # {}
  <2> DEFINE o == Oldest(Few)
  <2>1. o \in Few /\ \A h \in Few : o <= h
    BY <1>1, <1>3, OldestIsFirst
  <2> HIDE DEF o
  <2>2. IsFiniteSet(Newer(S, o)) /\ Cardinality(Newer(S, o)) \in Nat
    BY FS_Subset, FS_CardinalityType DEF Newer
  <2>3. Cardinality(Newer(S, o)) < MaxReports
    BY <1>1, <2>1, <2>2 DEF Excess
  <2>4. Few \subseteq Newer(S, o) \cup {o}
    BY <1>1, <2>1 DEF Newer
  <2>5. /\ IsFiniteSet(Newer(S, o) \cup {o})
        /\ Cardinality(Newer(S, o) \cup {o}) <= Cardinality(Newer(S, o)) + 1
    <3>1. Cardinality(Newer(S, o) \cup {o})
            = IF o \in Newer(S, o) THEN Cardinality(Newer(S, o)) ELSE Cardinality(Newer(S, o)) + 1
      BY <2>2, FS_AddElement
    <3>2. IsFiniteSet(Newer(S, o) \cup {o})
      BY <2>2, FS_AddElement
    <3> QED
      BY <2>2, <3>1, <3>2
  <2>6. Cardinality(Few) <= Cardinality(Newer(S, o) \cup {o})
    BY <2>4, <2>5, FS_Subset
  <2>7. Cardinality(Few) \in Nat /\ Cardinality(Newer(S, o) \cup {o}) \in Nat
    BY <1>1, <2>5, FS_CardinalityType
  <2> QED
    BY <1>1, <2>2, <2>3, <2>5, <2>6, <2>7
<1> QED
  BY <1>2, <1>3

-----------------------------------------------------------------------------

\* Where each kind of job may be, and what it has by then.
Placed(g) ==
  /\ at[g] \in {"written", "pruning"} => job[g] = "save"
  /\ at[g] \in {"idle", "begun", "named", "written"} => left[g] = {} /\ items[g] = {}
  /\ at[g] = "pruning" => items[g] # {}
  /\ at[g] \in {"written", "listing", "pruning"} /\ job[g] = "save" => MaxReports > 0
  /\ answer[g] \in {"not found", "report"} => at[g] = "ended"

\* What a reader of the directory has seen, and no longer counts on, others outlive.
SeesAll(g) ==
  at[g] = "listing" =>
    /\ left[g] \cup items[g] \subseteq seen[g]
    /\ \A f \in seen[g] : f \in files \/ Outlived(f)
    /\ \A f \in seen[g] \ (left[g] \cup items[g]) : Outlived(f)

\* What a save is about to remove is outlived.
PrunesOutlived(g) == at[g] = "pruning" => \A f \in items[g] : Outlived(f)

\* The file that Latest is about to read is the newest it has seen, and it is there,
\* or as many newer ones are.
HasLatest(g) ==
  job[g] = "latest" /\ at[g] = "found" =>
    /\ seen[g] # {}
    /\ \/ name[g] = Newest(seen[g]) /\ (name[g] \in files \/ Outlived(name[g]))
       \/ Outlived(Newest(seen[g]))

Overtaken(g) ==
  job[g] = "latest" /\ answer[g] = "not found" /\ seen[g] # {}
    => Outlived(Newest(seen[g]))

\* So it is of what Latest has read.
ReadsNewest(g) ==
  job[g] = "latest" /\ answer[g] = "report" =>
    /\ seen[g] # {}
    /\ name[g] = Newest(seen[g]) \/ Outlived(Newest(seen[g]))

GoroutineInv(g) ==
  /\ Placed(g) /\ SeesAll(g) /\ PrunesOutlived(g)
  /\ HasLatest(g) /\ Overtaken(g) /\ ReadsNewest(g)

\* Writes that no reading of a save has seen: of saves that have yet to read, too.
Budget == unpruned + Cardinality({g \in Goroutines : at[g] = "written"})

\* Either there are few files, or a save is about to make them few: it has yet to
\* look at most of them, or to find out which are too many, or to remove them.
PruningPending ==
  MaxReports > 0 =>
    \/ Cardinality(files) <= MaxReports + Budget
    \/ \E g \in Goroutines :
         /\ job[g] = "save" /\ at[g] = "listing"
         /\ Cardinality(files \ (left[g] \cup items[g])) <= Budget
    \/ \E g \in Goroutines :
         /\ at[g] = "pruning"
         /\ Cardinality(files \ items[g]) <= MaxReports + Budget

ReportsInv ==
  ReportsTypeOK /\ PruningPending /\ \A g \in Goroutines : GoroutineInv(g)

-----------------------------------------------------------------------------

LEMMA TimesFinite == IsFiniteSet(Times) /\ Times \in SUBSET Int
<1>1. IsFiniteSet(0..MaxTime)
  BY ClockAssumption, FS_Interval
<1>a. 0..MaxTime \subseteq Int
  OBVIOUS
<1>2. IsFiniteSet(Stored) /\ Stored \subseteq Int
  BY ReportsAssumption
<1>3. IsFiniteSet(Stored \cup 0..MaxTime)
  BY <1>1, <1>2, FS_Union
<1> QED
  BY <1>a, <1>2, <1>3 DEF Times

\* Sets of files are finite and have a size.
LEMMA FilesFinite ==
  ASSUME NEW S \in SUBSET Times
  PROVE  S \in SUBSET Int /\ IsFiniteSet(S) /\ Cardinality(S) \in Nat
BY TimesFinite, FS_Subset, FS_CardinalityType

LEMMA FewerFiles ==
  ASSUME NEW S \in SUBSET Times, NEW T \in SUBSET S
  PROVE  /\ T \in SUBSET Times
         /\ Cardinality(T) \in Nat /\ Cardinality(S) \in Nat
         /\ Cardinality(T) <= Cardinality(S)
BY FilesFinite, FS_Subset

\* Files that come, or go because they are outlived, leave others outlived.
FatesKept ==
  \A f \in Times :
    /\ Outlived(f) => Outlived(f)'
    /\ f \in files => f \in files' \/ Outlived(f)'

LEMMA MoreFiles ==
  ASSUME files' \in SUBSET Times, files \subseteq files' PROVE FatesKept
<1> SUFFICES ASSUME NEW f \in Times, Outlived(f) PROVE Outlived(f)'
  BY DEF FatesKept
<1>1. Newer(files, f) \subseteq Newer(files', f) /\ Newer(files', f) \in SUBSET Times
  BY DEF Newer
<1>2. /\ Cardinality(Newer(files, f)) <= Cardinality(Newer(files', f))
      /\ Cardinality(Newer(files, f)) \in Nat /\ Cardinality(Newer(files', f)) \in Nat
  BY <1>1, FewerFiles
<1>3. Cardinality(Newer(files', f)) >= MaxReports
  BY <1>2, ReportsAssumption DEF Outlived
<1> QED
  BY <1>3 DEF Outlived

LEMMA OneFileLess ==
  ASSUME files \in SUBSET Times, NEW x \in Times, Outlived(x), files' = files \ {x}
  PROVE  FatesKept
<1>0. /\ MaxReports \in Nat /\ x \in Int /\ \A f \in Times : f \in Int
  BY ReportsAssumption, TimesFinite
<1>1. ASSUME NEW f \in Times, Outlived(f) PROVE Outlived(f)'
  <2>1. CASE x \in Newer(files, f)
    <3>1. Newer(files, x) \subseteq Newer(files', f) /\ Newer(files', f) \in SUBSET Times
      <4>1. x > f /\ f \in Int
        BY <1>0, <2>1 DEF Newer
      <4>2. ASSUME NEW h \in files, h > x PROVE h \in files' /\ h > f
        <5>1. h \in Int
          BY <1>0
        <5> QED
          BY <1>0, <4>1, <4>2, <5>1
      <4> QED
        BY <4>2 DEF Newer
    <3>2. /\ Cardinality(Newer(files, x)) <= Cardinality(Newer(files', f))
          /\ Cardinality(Newer(files, x)) \in Nat /\ Cardinality(Newer(files', f)) \in Nat
      BY <3>1, FewerFiles
    <3>3. Cardinality(Newer(files', f)) >= MaxReports
      BY <1>0, <3>2 DEF Outlived
    <3> QED
      BY <3>3 DEF Outlived
  <2>2. CASE x \notin Newer(files, f)
    <3>1. Newer(files', f) = Newer(files, f)
      BY <2>2 DEF Newer
    <3> QED
      BY <1>1, <3>1 DEF Outlived
  <2> QED
    BY <2>1, <2>2
<1>2. ASSUME NEW f \in Times, f \in files PROVE f \in files' \/ Outlived(f)'
  <2>1. CASE f = x
    BY <1>1, <2>1
  <2>2. CASE f # x
    BY <1>2, <2>2
  <2> QED
    BY <2>1, <2>2
<1> QED
  BY <1>1, <1>2 DEF FatesKept

\* A file that is newer than what is listed, among it one that is gone, is outlived.
LEMMA ExcessOutlived ==
  ASSUME files \in SUBSET Times, NEW S \in SUBSET Times,
         \A h \in S : h \in files \/ Outlived(h),
         MaxReports > 0, NEW f \in Excess(S)
  PROVE  Outlived(f)
<1>0. /\ MaxReports \in Nat /\ f \in Times /\ \A h \in Times : h \in Int
      /\ Cardinality(Newer(S, f)) >= MaxReports
  BY ReportsAssumption, TimesFinite DEF Excess
<1>1. CASE Newer(S, f) \subseteq files
  <2>1. Newer(S, f) \subseteq Newer(files, f) /\ Newer(files, f) \in SUBSET Times
    BY <1>1 DEF Newer
  <2> QED
    BY <1>0, <2>1, FewerFiles DEF Outlived
<1>2. CASE ~(Newer(S, f) \subseteq files)
  <2>1. PICK h \in Newer(S, f) : h \notin files
    BY <1>2
  <2>2. Outlived(h) /\ h > f /\ h \in Times
    BY <2>1 DEF Newer
  <2>3. Newer(files, h) \subseteq Newer(files, f) /\ Newer(files, f) \in SUBSET Times
    BY <1>0, <2>2 DEF Newer
  <2> QED
    BY <1>0, <2>2, <2>3, FewerFiles DEF Outlived
<1> QED
  BY <1>1, <1>2

-----------------------------------------------------------------------------

Typed(h) ==
  /\ job[h] \in Jobs \cup {"none"} /\ at[h] \in Stages /\ name[h] \in Times
  /\ left[h] \in SUBSET Times /\ items[h] \in SUBSET Times /\ seen[h] \in SUBSET Times
  /\ answer[h] \in Answers

\* A goroutine that a step leaves alone keeps what is said of it, as files keep
\* their fates.
LEMMA OthersKeep ==
  ASSUME NEW h, Typed(h), GoroutineInv(h), FatesKept,
         job'[h] = job[h], at'[h] = at[h], name'[h] = name[h], left'[h] = left[h],
         items'[h] = items[h], answer'[h] = answer[h], seen'[h] = seen[h]
  PROVE  GoroutineInv(h)'
<1>1. \A f \in Times : Outlived(f) => Outlived(f)'
  BY DEF FatesKept
<1>2. \A f \in Times : f \in files => f \in files' \/ Outlived(f)'
  BY DEF FatesKept
<1>3. Newest(seen[h])' = Newest(seen[h])
  BY DEF Newest
<1>4. seen[h] # {} => Newest(seen[h]) \in Times
  BY FilesFinite, NewestIsLast DEF Typed
<1> HIDE DEF Outlived
<1>5. Placed(h)'
  BY DEF GoroutineInv, Placed
<1>6. SeesAll(h)'
  <2> SUFFICES ASSUME at[h] = "listing" PROVE SeesAll(h)'
    BY DEF SeesAll
  <2>1. /\ left[h] \cup items[h] \subseteq seen[h] /\ seen[h] \subseteq Times
        /\ \A f \in seen[h] : f \in files \/ Outlived(f)
        /\ \A f \in seen[h] \ (left[h] \cup items[h]) : Outlived(f)
    BY DEF GoroutineInv, SeesAll, Typed
  <2>2. \A f \in seen[h] : f \in files' \/ Outlived(f)'
    BY <1>1, <1>2, <2>1
  <2>3. \A f \in seen[h] \ (left[h] \cup items[h]) : Outlived(f)'
    BY <1>1, <2>1
  <2> QED
    BY <2>1, <2>2, <2>3 DEF SeesAll
<1>7. PrunesOutlived(h)'
  BY <1>1 DEF GoroutineInv, PrunesOutlived, Typed
<1>8. HasLatest(h)'
  BY <1>1, <1>2, <1>3, <1>4 DEF GoroutineInv, HasLatest, Typed
<1>9. Overtaken(h)' /\ ReadsNewest(h)'
  BY <1>1, <1>3, <1>4 DEF GoroutineInv, Overtaken, ReadsNewest, Typed
<1> QED
  BY <1>5, <1>6, <1>7, <1>8, <1>9 DEF GoroutineInv

-----------------------------------------------------------------------------

LEMMA TypesAt ==
  ASSUME ReportsTypeOK, NEW h \in Goroutines PROVE Typed(h)
BY DEF ReportsTypeOK, Typed

LEMMA OneMoreUnpruned == ReportsTypeOK => unpruned \in Nat /\ unpruned + 1 \in Nat
<1> SUFFICES ASSUME ReportsTypeOK PROVE unpruned \in Nat /\ unpruned + 1 \in Nat
  OBVIOUS
<1>1. unpruned \in Nat
  BY DEF ReportsTypeOK
<1> QED
  BY <1>1

\* Each step keeps the types; a file is named by a time.
LEMMA StepKeepsReportTypes ==
  ASSUME ReportsTypeOK, now' = now, NEW g \in Goroutines, Placed(g),
         (\E j \in Jobs : Begin(g, j)) \/ ReportStep(g)
  PROVE  ReportsTypeOK'
<1> USE DEF ReportsTypeOK, Move, Stages, Answer, Answers
<1>0. /\ files \in SUBSET Times /\ left[g] \in SUBSET Times /\ items[g] \in SUBSET Times
      /\ name[g] \in Times /\ ClockTypeOK' /\ now \in Times
  BY DEF ClockTypeOK, Times
<1>a. unpruned \in Nat /\ unpruned + 1 \in Nat
  BY OneMoreUnpruned
<1>1. ASSUME NEW j \in Jobs, Begin(g, j) PROVE ReportsTypeOK'
  BY <1>0, <1>1 DEF Begin
<1>2. CASE Names(g)
  BY <1>0, <1>2 DEF Names
<1>3. CASE Writes(g)
  <2>1. files' \in SUBSET Times
    BY <1>0, <1>3 DEF Writes
  <2>5. unpruned' \in Nat
    BY <1>a, <1>3 DEF Writes
  <2>2. at' \in [Goroutines -> Stages]
    BY <1>3 DEF Writes
  <2>3. answer' \in [Goroutines -> Answers]
    BY <1>3 DEF Writes
  <2>4. UNCHANGED <<job, name, left, items, seen>>
    BY <1>3 DEF Writes
  <2> QED
    BY <1>0, <2>1, <2>2, <2>3, <2>4, <2>5
<1>4. CASE WriteFails(g)
  <2>1. files' \in SUBSET Times
    BY <1>0, <1>4 DEF WriteFails
  <2>5. unpruned' \in Nat
    BY <1>a, <1>4 DEF WriteFails
  <2>2. at' \in [Goroutines -> Stages]
    BY <1>4 DEF WriteFails
  <2>3. answer' \in [Goroutines -> Answers]
    BY <1>4 DEF WriteFails
  <2>4. UNCHANGED <<job, name, left, items, seen>>
    BY <1>4 DEF WriteFails
  <2> QED
    BY <1>0, <2>1, <2>2, <2>3, <2>4, <2>5
<1>5. CASE ReadsDir(g)
  BY <1>0, <1>5 DEF ReadsDir
<1>6. CASE ReadDirFails(g)
  <2>1. files' \in SUBSET Times
    BY <1>0, <1>6 DEF ReadDirFails
  <2>5. unpruned' \in Nat
    BY <1>a, <1>6 DEF ReadDirFails
  <2>2. at' \in [Goroutines -> Stages]
    BY <1>6 DEF ReadDirFails
  <2>3. answer' \in [Goroutines -> Answers]
    BY <1>6 DEF ReadDirFails
  <2>4. UNCHANGED <<job, name, left, items, seen>>
    BY <1>6 DEF ReadDirFails
  <2> QED
    BY <1>0, <2>1, <2>2, <2>3, <2>4, <2>5
<1>7. CASE Stats(g)
  BY <1>0, <1>7 DEF Stats
<1>8. CASE FindsExcess(g)
  BY <1>0, <1>8 DEF FindsExcess, Excess
<1>9. CASE Removes(g)
  BY <1>0, <1>9 DEF Removes
<1>10. CASE EndsList(g)
  BY <1>0, <1>10 DEF EndsList
<1>11. CASE FindsLatest(g)
  <2>1. items[g] # {} => Newest(items[g]) \in Times
    BY <1>0, FilesFinite, NewestIsLast
  <2> QED
    BY <1>0, <1>11, <2>1 DEF FindsLatest
<1>12. CASE FindsName(g)
  BY <1>0, <1>12 DEF FindsName
<1>13. CASE Gets(g)
  BY <1>0, <1>13 DEF Gets
<1>14. CASE RemoveFails(g)
  BY <1>0, <1>a, <1>14 DEF RemoveFails
<1> QED
  BY <1>1, <1>2, <1>3, <1>4, <1>5, <1>6, <1>7, <1>8, <1>9, <1>10, <1>11, <1>12, <1>13, <1>14
  DEF ReportStep

\* A step changes no other goroutine.
LEMMA OthersUnchanged ==
  ASSUME ReportsTypeOK, NEW g \in Goroutines,
         (\E j \in Jobs : Begin(g, j)) \/ ReportStep(g),
         NEW h \in Goroutines \ {g}
  PROVE  /\ job'[h] = job[h] /\ at'[h] = at[h] /\ name'[h] = name[h]
         /\ left'[h] = left[h] /\ items'[h] = items[h] /\ answer'[h] = answer[h]
         /\ seen'[h] = seen[h]
<1> USE DEF ReportsTypeOK, Move, Answer
<1>1. ASSUME NEW j \in Jobs, Begin(g, j)
      PROVE  /\ job'[h] = job[h] /\ at'[h] = at[h]
             /\ UNCHANGED <<name, left, items, answer, seen>>
  BY <1>1 DEF Begin
<1>2. CASE Names(g) \/ Writes(g) \/ WriteFails(g) \/ EndsList(g) \/ FindsName(g) \/ Gets(g)
  BY <1>2 DEF Names, Writes, WriteFails, EndsList, FindsName, Gets
<1>3. CASE ReadsDir(g) \/ ReadDirFails(g) \/ Stats(g)
  BY <1>3 DEF ReadsDir, ReadDirFails, Stats
<1>4. CASE FindsExcess(g) \/ Removes(g) \/ RemoveFails(g)
  BY <1>4 DEF FindsExcess, Removes, RemoveFails
<1>5. CASE FindsLatest(g)
  BY <1>5 DEF FindsLatest
<1> QED
  BY <1>1, <1>2, <1>3, <1>4, <1>5 DEF ReportStep

LEMMA StepKeepsFates ==
  ASSUME ReportsTypeOK, ReportsTypeOK', NEW g \in Goroutines, GoroutineInv(g),
         (\E j \in Jobs : Begin(g, j)) \/ ReportStep(g)
  PROVE  FatesKept
<1>0. files \in SUBSET Times /\ files' \in SUBSET Times /\ Typed(g)
  BY TypesAt DEF ReportsTypeOK
<1>1. CASE Removes(g)
  <2> DEFINE f == Newest(items[g])
  <2>1. f \in items[g]
    BY <1>0, <1>1, FilesFinite, NewestIsLast
    DEF GoroutineInv, Placed, Typed, Removes, Move
  <2>2. Outlived(f) /\ f \in Times
    BY <1>0, <1>1, <2>1 DEF GoroutineInv, PrunesOutlived, Typed, Removes, Move
  <2>3. files' = files \ {f}
    BY <1>1 DEF Removes
  <2> HIDE DEF f
  <2> QED
    BY <1>0, <2>2, <2>3, OneFileLess
<1>2. CASE ~Removes(g)
  <2>1. ASSUME NEW j \in Jobs, Begin(g, j) PROVE files' = files
    BY <2>1 DEF Begin
  <2>2. files \subseteq files'
    BY <1>2, <2>1
    DEF ReportStep, Names, Writes, WriteFails, ReadsDir, ReadDirFails, Stats,
        FindsExcess, RemoveFails, EndsList, FindsLatest, FindsName, Gets
  <2> QED
    BY <1>0, <2>2, MoreFiles
<1> QED
  BY <1>1, <1>2

-----------------------------------------------------------------------------

\* Of a goroutine that reads no directory and removes nothing little is to be said.
LEMMA QuietKeeps ==
  ASSUME NEW g, answer'[g] \notin {"not found", "report"},
         at'[g] \notin {"listing", "pruning"},
         at'[g] = "written" => job'[g] = "save" /\ MaxReports > 0,
         at'[g] = "found" => job'[g] # "latest",
         at'[g] \in {"idle", "begun", "named", "written"} => left'[g] = {} /\ items'[g] = {}
  PROVE  GoroutineInv(g)'
BY DEF GoroutineInv, Placed, SeesAll, PrunesOutlived, HasLatest, Overtaken, ReadsNewest

LEMMA QuietSteps ==
  ASSUME ReportsTypeOK, NEW g \in Goroutines, Placed(g),
         \/ \E j \in Jobs : Begin(g, j)
         \/ Names(g) \/ Writes(g) \/ WriteFails(g) \/ ReadDirFails(g) \/ EndsList(g)
         \/ FindsName(g)
  PROVE  GoroutineInv(g)'
<1> USE DEF ReportsTypeOK, Placed, Move, Answer
<1>1. ASSUME NEW j \in Jobs, Begin(g, j) PROVE GoroutineInv(g)'
  BY <1>1, QuietKeeps DEF Begin
<1>2. CASE Names(g)
  BY <1>2, QuietKeeps DEF Names
<1>3. CASE Writes(g)
  <2>1. at'[g] = (IF job[g] = "save" /\ MaxReports > 0 THEN "written" ELSE "ended")
    BY <1>3 DEF Writes
  <2>2. answer'[g] = "saved" /\ job' = job /\ left'[g] = {} /\ items'[g] = {}
    BY <1>3 DEF Writes
  <2> QED
    BY <2>1, <2>2, QuietKeeps
<1>4. CASE WriteFails(g)
  <2>1. at'[g] = "ended" /\ answer'[g] = "error"
    BY <1>4 DEF WriteFails
  <2> QED
    BY <2>1, QuietKeeps
<1>5. CASE ReadDirFails(g)
  <2>1. at'[g] = "ended" /\ answer'[g] \notin {"not found", "report"}
    BY <1>5 DEF ReadDirFails, Lists
  <2> QED
    BY <2>1, QuietKeeps
<1>6. CASE EndsList(g)
  <2>1. at'[g] = "ended" /\ answer'[g] = "page"
    BY <1>6 DEF EndsList
  <2> QED
    BY <2>1, QuietKeeps
<1>7. CASE FindsName(g)
  <2>1. /\ at'[g] = "found" /\ answer'[g] \notin {"not found", "report"}
        /\ job'[g] = "get"
    BY <1>7 DEF FindsName
  <2> QED
    BY <2>1, QuietKeeps
<1> QED
  BY <1>1, <1>2, <1>3, <1>4, <1>5, <1>6, <1>7

LEMMA ReadsDirSees ==
  ASSUME ReportsTypeOK, NEW g \in Goroutines, Placed(g), ReadsDir(g)
  PROVE  GoroutineInv(g)'
<1>1. /\ at'[g] = "listing" /\ left'[g] = files /\ seen'[g] = files /\ items'[g] = {}
      /\ files' = files /\ answer'[g] \notin {"not found", "report"}
      /\ job'[g] = "save" => MaxReports > 0
  BY DEF ReportsTypeOK, Placed, ReadsDir, Lists, Move
<1> QED
  BY <1>1
  DEF GoroutineInv, Placed, SeesAll, PrunesOutlived, HasLatest, Overtaken, ReadsNewest

LEMMA StatsSees ==
  ASSUME ReportsTypeOK, NEW g \in Goroutines, GoroutineInv(g), Stats(g)
  PROVE  GoroutineInv(g)'
<1> DEFINE o == Oldest(left[g])
<1>1. /\ at[g] = "listing" /\ at'[g] = "listing" /\ job' = job /\ answer' = answer
      /\ left'[g] = left[g] \ {o} /\ items'[g] = items[g] \cup ({o} \cap files)
      /\ seen' = seen /\ files' = files /\ left[g] # {}
  BY DEF ReportsTypeOK, Stats, Move
<1>2. o \in left[g]
  BY <1>1, FilesFinite, OldestIsFirst DEF ReportsTypeOK
<1> HIDE DEF o
<1>3. \A f : Outlived(f)' = Outlived(f)
  BY <1>1 DEF Outlived
<1>4. /\ left[g] \cup items[g] \subseteq seen[g]
      /\ \A f \in seen[g] : f \in files \/ Outlived(f)
      /\ \A f \in seen[g] \ (left[g] \cup items[g]) : Outlived(f)
  BY <1>1 DEF GoroutineInv, SeesAll
<1> HIDE DEF Outlived
<1>5. SeesAll(g)'
  <2>1. left'[g] \cup items'[g] \subseteq seen'[g]
    BY <1>1, <1>2, <1>4
  <2>2. \A f \in seen'[g] : f \in files' \/ Outlived(f)'
    BY <1>1, <1>3, <1>4
  <2>3. \A f \in seen'[g] \ (left'[g] \cup items'[g]) : Outlived(f)'
    BY <1>1, <1>3, <1>4
  <2> QED
    BY <2>1, <2>2, <2>3 DEF SeesAll
<1>6. Placed(g)' /\ PrunesOutlived(g)' /\ HasLatest(g)' /\ Overtaken(g)' /\ ReadsNewest(g)'
  BY <1>1 DEF GoroutineInv, Placed, PrunesOutlived, HasLatest, Overtaken, ReadsNewest
<1> QED
  BY <1>5, <1>6 DEF GoroutineInv

LEMMA FindsExcessOutlived ==
  ASSUME ReportsTypeOK, NEW g \in Goroutines, GoroutineInv(g), FindsExcess(g)
  PROVE  GoroutineInv(g)'
<1>1. /\ at[g] = "listing" /\ left[g] = {} /\ job[g] = "save" /\ job' = job
      /\ answer' = answer /\ items'[g] = Excess(items[g]) /\ files' = files
      /\ at'[g] = IF Excess(items[g]) = {} THEN "ended" ELSE "pruning"
  BY DEF ReportsTypeOK, FindsExcess, Listed, Move
<1>2. answer[g] \notin {"not found", "report"} /\ MaxReports > 0
  BY <1>1 DEF GoroutineInv, Placed
<1>3. \A h \in items[g] : h \in files \/ Outlived(h)
  BY <1>1 DEF GoroutineInv, SeesAll
<1>4. \A f \in Excess(items[g]) : Outlived(f)
  BY <1>2, <1>3, ExcessOutlived DEF ReportsTypeOK
<1>5. PrunesOutlived(g)'
  BY <1>1, <1>4 DEF PrunesOutlived, Outlived
<1> QED
  BY <1>1, <1>2, <1>5 DEF GoroutineInv, Placed, SeesAll, HasLatest, Overtaken, ReadsNewest

LEMMA RemovesOutlived ==
  ASSUME ReportsTypeOK, NEW g \in Goroutines, GoroutineInv(g),
         Removes(g) \/ RemoveFails(g), FatesKept
  PROVE  GoroutineInv(g)'
<1> DEFINE f == Newest(items[g])
<1>1. /\ at[g] = "pruning" /\ job' = job /\ answer' = answer
      /\ items'[g] = items[g] \ {f}
      /\ at'[g] = IF items[g] = {f} THEN "ended" ELSE "pruning"
  BY DEF ReportsTypeOK, Removes, RemoveFails, Move
<1>2. /\ job[g] = "save" /\ answer[g] \notin {"not found", "report"} /\ items[g] # {}
      /\ MaxReports > 0
  BY <1>1 DEF GoroutineInv, Placed
<1> HIDE DEF f
<1>3. at'[g] = "pruning" => items'[g] # {}
  BY <1>1, <1>2
<1>4. PrunesOutlived(g)'
  <2>1. \A h \in items[g] : h \in Times /\ Outlived(h)
    BY <1>1 DEF GoroutineInv, PrunesOutlived, ReportsTypeOK
  <2>2. \A h \in items[g] : Outlived(h)'
    BY <2>1 DEF FatesKept
  <2> QED
    BY <1>1, <2>2 DEF PrunesOutlived
<1> QED
  BY <1>1, <1>2, <1>3, <1>4
  DEF GoroutineInv, Placed, SeesAll, HasLatest, Overtaken, ReadsNewest

LEMMA FindsLatestSeen ==
  ASSUME ReportsTypeOK, NEW g \in Goroutines, GoroutineInv(g), FindsLatest(g)
  PROVE  GoroutineInv(g)'
<1> DEFINE N == Newest(seen[g])
<1>1. /\ at[g] = "listing" /\ left[g] = {} /\ job[g] = "latest" /\ job' = job
      /\ UNCHANGED <<files, left, items, seen>>
  BY DEF FindsLatest, Listed
<1>2. /\ items[g] \subseteq seen[g] /\ seen[g] \in SUBSET Times
      /\ answer[g] \notin {"not found", "report"}
      /\ items[g] \in SUBSET Times
      /\ \A f \in seen[g] : f \in files \/ Outlived(f)
      /\ \A f \in seen[g] \ items[g] : Outlived(f)
  BY <1>1 DEF ReportsTypeOK, GoroutineInv, SeesAll, Placed
<1>3. seen[g] # {} => N \in seen[g] /\ \A h \in seen[g] : h <= N
  BY <1>2, FilesFinite, NewestIsLast
<1>4. Newest(seen[g])' = N /\ \A f : Outlived(f)' = Outlived(f)
  BY <1>1 DEF Outlived, Newest
<1> HIDE DEF N
<1>5. CASE items[g] = {}
  <2>1. at'[g] = "ended" /\ answer'[g] = "not found"
    BY <1>5 DEF ReportsTypeOK, FindsLatest, Move, Answer
  <2>2. Overtaken(g)'
    BY <1>1, <1>2, <1>3, <1>4, <1>5 DEF Overtaken
  <2> QED
    BY <1>1, <2>1, <2>2
    DEF GoroutineInv, Placed, SeesAll, PrunesOutlived, HasLatest, ReadsNewest
<1>6. CASE items[g] # {}
  <2>1. at'[g] = "found" /\ answer' = answer /\ name'[g] = Newest(items[g])
    BY <1>6 DEF ReportsTypeOK, FindsLatest, Move
  <2>2. Newest(items[g]) \in items[g] /\ \A h \in items[g] : h <= Newest(items[g])
    BY <1>2, <1>6, FilesFinite, NewestIsLast
  <2>3. seen[g] # {}
    BY <1>2, <1>6
  <2>4. N \in items[g] => Newest(items[g]) = N
    <3>1. \A f \in seen[g] : f \in Int
      BY <1>2, TimesFinite
    <3>2. SUFFICES ASSUME N \in items[g] PROVE Newest(items[g]) = N
      OBVIOUS
    <3>3. Newest(items[g]) \in Int /\ N \in Int /\ N <= Newest(items[g])
          /\ Newest(items[g]) <= N
      BY <1>2, <1>3, <2>2, <2>3, <3>1, <3>2
    <3> QED
      BY <3>3
  <2>5. \/ name'[g] = N /\ (N \in files \/ Outlived(N))
        \/ Outlived(N)
    BY <1>2, <1>3, <2>1, <2>3, <2>4
  <2>6. HasLatest(g)'
    BY <1>1, <1>4, <2>3, <2>5 DEF HasLatest
  <2> QED
    BY <1>1, <1>2, <2>1, <2>6
    DEF GoroutineInv, Placed, SeesAll, PrunesOutlived, Overtaken, ReadsNewest
<1> QED
  BY <1>5, <1>6

LEMMA GetsOvertaken ==
  ASSUME ReportsTypeOK, NEW g \in Goroutines, GoroutineInv(g), Gets(g)
  PROVE  GoroutineInv(g)'
<1>1. /\ at[g] = "found" /\ at'[g] = "ended"
      /\ answer'[g] = "not found" => name[g] \notin files
      /\ UNCHANGED <<files, job, name, left, items, seen>>
  BY DEF ReportsTypeOK, Gets, Move, Answer
<1>2. Newest(seen[g])' = Newest(seen[g]) /\ \A f : Outlived(f)' = Outlived(f)
  BY <1>1 DEF Outlived, Newest
<1>3. Overtaken(g)' /\ ReadsNewest(g)'
  BY <1>1, <1>2 DEF GoroutineInv, HasLatest, Overtaken, ReadsNewest
<1> QED
  BY <1>1, <1>3 DEF GoroutineInv, Placed, SeesAll, PrunesOutlived, HasLatest

LEMMA StepKeepsGoroutines ==
  ASSUME ReportsTypeOK, ReportsTypeOK', \A h \in Goroutines : GoroutineInv(h),
         NEW g \in Goroutines, (\E j \in Jobs : Begin(g, j)) \/ ReportStep(g)
  PROVE  \A h \in Goroutines : GoroutineInv(h)'
<1>1. FatesKept
  BY StepKeepsFates
<1>2. GoroutineInv(g)'
  <2>1. GoroutineInv(g) /\ Placed(g)
    BY DEF GoroutineInv
  <2> QED
    BY <1>1, <2>1, QuietSteps, ReadsDirSees, StatsSees, FindsExcessOutlived, RemovesOutlived,
       FindsLatestSeen, GetsOvertaken
    DEF ReportStep
<1>3. ASSUME NEW h \in Goroutines \ {g} PROVE GoroutineInv(h)'
  BY <1>1, <1>3, OthersUnchanged, OthersKeep, TypesAt
<1> QED
  BY <1>2, <1>3

-----------------------------------------------------------------------------

Unread == {g \in Goroutines : at[g] = "written"}

LEMMA BudgetIsNat ==
  ASSUME ReportsTypeOK
  PROVE  /\ IsFiniteSet(Unread) /\ Cardinality(Unread) \in Nat
         /\ Budget = unpruned + Cardinality(Unread) /\ Budget \in Nat
<1>1. IsFiniteSet(Unread) /\ Cardinality(Unread) \in Nat
  BY ReportsAssumption, FS_Subset, FS_CardinalityType DEF Unread
<1>2. unpruned \in Nat
  BY DEF ReportsTypeOK
<1>3. Budget = unpruned + Cardinality(Unread)
  BY DEF Budget, Unread
<1> QED
  BY <1>1, <1>2, <1>3

BudgetFacts == Cardinality(Unread) \in Nat /\ Budget = unpruned + Cardinality(Unread)
               /\ Budget \in Nat

LEMMA BudgetAlways == ReportsTypeOK => BudgetFacts
BY BudgetIsNat DEF BudgetFacts

LEMMA BudgetAfter ==
  ASSUME ReportsTypeOK'
  PROVE  /\ Cardinality(Unread') \in Nat
         /\ Budget' = unpruned' + Cardinality(Unread') /\ Budget' \in Nat
<1>1. ReportsTypeOK' => BudgetFacts'
  BY BudgetAlways, PTL
<1> QED
  BY <1>1 DEF BudgetFacts

\* What a step of one goroutine does to the saves that have yet to read.
LEMMA UnreadStep ==
  ASSUME ReportsTypeOK, ReportsTypeOK', NEW g \in Goroutines,
         \A h \in Goroutines \ {g} : at'[h] = at[h]
  PROVE  /\ at[g] # "written" /\ at'[g] = "written" =>
              Cardinality(Unread') = Cardinality(Unread) + 1
         /\ at[g] = "written" /\ at'[g] # "written" =>
              Cardinality(Unread') = Cardinality(Unread) - 1
         /\ (at[g] = "written" <=> at'[g] = "written") => Unread' = Unread
<1>1. IsFiniteSet(Unread)
  BY BudgetIsNat
<1>2. CASE at[g] # "written" /\ at'[g] = "written"
  <2>1. Unread' = Unread \cup {g} /\ g \notin Unread
    BY <1>2 DEF Unread
  <2> QED
    BY <1>1, <1>2, <2>1, FS_AddElement
<1>3. CASE at[g] = "written" /\ at'[g] # "written"
  <2>1. Unread' = Unread \ {g} /\ g \in Unread
    BY <1>3 DEF Unread
  <2> QED
    BY <1>1, <1>3, <2>1, FS_RemoveElement
<1>4. CASE at[g] = "written" <=> at'[g] = "written"
  <2>1. Unread' = Unread
    BY <1>4 DEF Unread
  <2> QED
    BY <1>4, <2>1
<1> QED
  BY <1>2, <1>3, <1>4

\* As many files may come as the budget grows by.
Covered ==
  \/ files' \subseteq files /\ Budget' >= Budget
  \/ Budget' >= Budget + 1 /\ \E f \in Times : files' \subseteq files \cup {f}

LEMMA CoveredStaysWithin ==
  ASSUME ReportsTypeOK, ReportsTypeOK', Covered, NEW S, NEW n \in Nat,
         Cardinality(files \ S) <= n + Budget
  PROVE  Cardinality(files' \ S) <= n + Budget'
<1>1. files \ S \in SUBSET Times /\ files' \ S \in SUBSET Times
  BY DEF ReportsTypeOK
<1>2. /\ Cardinality(files \ S) \in Nat /\ Cardinality(files' \ S) \in Nat
      /\ IsFiniteSet(files \ S)
  BY <1>1, FilesFinite
<1>3. Budget \in Nat /\ Budget' \in Nat
  <2>1. Budget \in Nat
    BY BudgetIsNat
  <2>2. Budget' \in Nat
    BY BudgetAfter
  <2> QED
    BY <2>1, <2>2
<1>4. CASE files' \subseteq files /\ Budget' >= Budget
  <2>1. files' \ S \subseteq files \ S
    BY <1>4
  <2>2. Cardinality(files' \ S) <= Cardinality(files \ S)
    BY <1>1, <2>1, FewerFiles
  <2> QED
    BY <1>2, <1>3, <1>4, <2>2
<1>5. ASSUME Budget' >= Budget + 1, NEW f \in Times, files' \subseteq files \cup {f}
      PROVE  Cardinality(files' \ S) <= n + Budget'
  <2>1. files' \ S \subseteq (files \ S) \cup {f} /\ (files \ S) \cup {f} \in SUBSET Times
    BY <1>1, <1>5
  <2>2. /\ Cardinality(files' \ S) <= Cardinality((files \ S) \cup {f})
        /\ Cardinality((files \ S) \cup {f}) \in Nat
    BY <2>1, FewerFiles
  <2>3. Cardinality((files \ S) \cup {f}) =
          IF f \in files \ S THEN Cardinality(files \ S) ELSE Cardinality(files \ S) + 1
    BY <1>2, FS_AddElement
  <2>4. Cardinality((files \ S) \cup {f}) <= Cardinality(files \ S) + 1
    BY <1>2, <2>3
  <2> QED
    BY <1>2, <1>3, <1>5, <2>2, <2>4
<1> QED
  BY <1>4, <1>5 DEF Covered

\* A file that is not removed is allowed for.
LEMMA FailedRemoval ==
  ASSUME ReportsTypeOK, ReportsTypeOK', NEW g \in Goroutines, RemoveFails(g),
         \A h \in Goroutines \ {g} : at'[h] = at[h]
  PROVE  files' = files /\ Budget' = Budget + 1
<1>1. /\ files' = files /\ unpruned' = unpruned + 1
      /\ at[g] # "written" /\ at'[g] # "written"
  BY DEF ReportsTypeOK, RemoveFails, Move
<1>2. Unread' = Unread
  BY <1>1, UnreadStep
<1>3. /\ Budget = unpruned + Cardinality(Unread) /\ unpruned \in Nat
      /\ Budget' = unpruned' + Cardinality(Unread') /\ Cardinality(Unread) \in Nat
  BY BudgetAfter, BudgetIsNat DEF ReportsTypeOK
<1> QED
  BY <1>1, <1>2, <1>3

\* Every step is covered but the reading that starts a save's count afresh.
LEMMA StepsCovered ==
  ASSUME ReportsTypeOK, ReportsTypeOK', NEW g \in Goroutines, Placed(g),
         (\E j \in Jobs : Begin(g, j)) \/ ReportStep(g),
         ~(job[g] = "save" /\ ReadsDir(g))
  PROVE  Covered
<1>1. \A h \in Goroutines \ {g} : at'[h] = at[h]
  BY OthersUnchanged
<1>2. /\ Cardinality(Unread) \in Nat /\ Cardinality(Unread') \in Nat
      /\ unpruned \in Nat /\ unpruned' \in Nat
      /\ Budget = unpruned + Cardinality(Unread)
      /\ Budget' = unpruned' + Cardinality(Unread')
  BY BudgetAfter, BudgetIsNat DEF ReportsTypeOK
<1>3. /\ at[g] # "written" /\ at'[g] = "written" =>
           Cardinality(Unread') = Cardinality(Unread) + 1
      /\ at[g] = "written" /\ at'[g] # "written" =>
           Cardinality(Unread') = Cardinality(Unread) - 1
      /\ (at[g] = "written" <=> at'[g] = "written") => Unread' = Unread
  BY <1>1, UnreadStep
<1>4. at \in [Goroutines -> Stages] /\ name[g] \in Times
  BY DEF ReportsTypeOK
<1>5. CASE Writes(g) \/ WriteFails(g)
  <2>1. files' \subseteq files \cup {name[g]} /\ at[g] = "named"
    BY <1>5 DEF Writes, WriteFails, Move
  <2>2. \/ unpruned' = unpruned /\ at'[g] = "written"
        \/ unpruned' = unpruned + 1 /\ at'[g] = "ended"
    BY <1>4, <1>5 DEF Writes, WriteFails, Move
  <2>3. \/ unpruned' = unpruned /\ Cardinality(Unread') = Cardinality(Unread) + 1
        \/ unpruned' = unpruned + 1 /\ Cardinality(Unread') = Cardinality(Unread)
    BY <1>3, <2>1, <2>2
  <2>4. Budget' >= Budget + 1
    BY <1>2, <2>3
  <2> QED
    BY <1>4, <2>1, <2>4 DEF Covered
<1>6. CASE ReadDirFails(g)
  <2>1. files' = files /\ at'[g] = "ended"
    BY <1>4, <1>6 DEF ReadDirFails, Move
  <2>2. \/ unpruned' = unpruned + 1 /\ at[g] = "written"
        \/ unpruned' = unpruned /\ at[g] # "written"
    BY <1>6 DEF ReadDirFails, Lists, Placed
  <2>3. \/ unpruned' = unpruned + 1 /\ Cardinality(Unread') = Cardinality(Unread) - 1
        \/ unpruned' = unpruned /\ Cardinality(Unread') = Cardinality(Unread)
    BY <1>3, <2>1, <2>2
  <2>4. Budget' >= Budget
    BY <1>2, <2>3
  <2> QED
    BY <2>1, <2>4 DEF Covered
<1>7. ASSUME unpruned' = unpruned, files' \subseteq files,
             at[g] # "written", at'[g] # "written"
      PROVE  Covered
  <2>1. Budget' >= Budget
    BY <1>2, <1>3, <1>7
  <2> QED
    BY <1>7, <2>1 DEF Covered
<1>8. ASSUME NEW j \in Jobs, Begin(g, j) PROVE Covered
  BY <1>4, <1>7, <1>8 DEF Begin, Move
<1>9. CASE ReadsDir(g)
  BY <1>4, <1>7, <1>9 DEF ReadsDir, Lists, Move
<1>10. CASE Names(g) \/ Stats(g) \/ EndsList(g) \/ FindsName(g) \/ Gets(g)
  BY <1>4, <1>7, <1>10 DEF Names, Stats, EndsList, FindsName, Gets, Move
<1>11. CASE FindsExcess(g) \/ Removes(g) \/ FindsLatest(g)
  <2>1. unpruned' = unpruned /\ files' \subseteq files
    BY <1>11 DEF FindsExcess, Removes, FindsLatest
  <2>2. at[g] # "written" /\ at'[g] # "written"
    BY <1>4, <1>11 DEF FindsExcess, Removes, FindsLatest, Move
  <2> QED
    BY <1>7, <2>1, <2>2
<1>12. CASE RemoveFails(g)
  <2>1. files' = files /\ Budget' = Budget + 1
    BY <1>1, <1>12, FailedRemoval
  <2>2. Budget' >= Budget
    BY <1>2, <2>1
  <2> QED
    BY <2>1, <2>2 DEF Covered
<1> QED
  BY <1>5, <1>6, <1>8, <1>9, <1>10, <1>11, <1>12 DEF ReportStep

\* The disjuncts of PruningPending.
FewFiles == Cardinality(files) <= MaxReports + Budget

ToLookAt(g) ==
  /\ job[g] = "save" /\ at[g] = "listing"
  /\ Cardinality(files \ (left[g] \cup items[g])) <= Budget

ToRemove(g) == at[g] = "pruning" /\ Cardinality(files \ items[g]) <= MaxReports + Budget

LEMMA PendingParts ==
  PruningPending <=>
    (MaxReports > 0 => FewFiles \/ \E g \in Goroutines : ToLookAt(g) \/ ToRemove(g))
BY DEF PruningPending, FewFiles, ToLookAt, ToRemove

\* A save that is to make the files few goes on with it, or has done it.
LEMMA SaveGoesOn ==
  ASSUME ReportsTypeOK, ReportsTypeOK', NEW g \in Goroutines, GoroutineInv(g), Covered,
         MaxReports > 0,
         (\E j \in Jobs : Begin(g, j)) \/ ReportStep(g),
         ToLookAt(g) \/ ToRemove(g)
  PROVE  FewFiles' \/ ToLookAt(g)' \/ ToRemove(g)'
<1>1. /\ files \in SUBSET Times /\ items[g] \in SUBSET Times /\ left[g] \in SUBSET Times
      /\ files' \in SUBSET Times /\ MaxReports \in Nat
  BY ReportsAssumption DEF ReportsTypeOK
<1>2. CASE ToLookAt(g)
  <2>1. Stats(g) \/ FindsExcess(g)
    BY <1>2
    DEF ToLookAt, Begin, ReportStep, Names, Writes, WriteFails, ReadsDir, Lists,
        ReadDirFails, EndsList, FindsLatest, FindsName, Gets, Listed, Removes, RemoveFails, Move
  <2>2. Cardinality(files \ (left[g] \cup items[g])) <= 0 + Budget
    BY <1>2, BudgetIsNat DEF ToLookAt
  <2>3. CASE Stats(g)
    <3> DEFINE o == Oldest(left[g])
    <3>1. /\ files' = files /\ job' = job /\ at'[g] = "listing"
          /\ left'[g] = left[g] \ {o} /\ items'[g] = items[g] \cup ({o} \cap files)
      BY <2>3 DEF ReportsTypeOK, Stats, Move
    <3> HIDE DEF o
    <3>2. files \ (left'[g] \cup items'[g]) \subseteq files \ (left[g] \cup items[g])
      BY <3>1
    <3>3. Cardinality(files \ (left'[g] \cup items'[g]))
            <= Cardinality(files \ (left[g] \cup items[g]))
          /\ Cardinality(files \ (left'[g] \cup items'[g])) \in Nat
          /\ Cardinality(files \ (left[g] \cup items[g])) \in Nat
      BY <1>1, <3>2, FewerFiles
    <3>4. Budget \in Nat
      BY BudgetIsNat
    <3>5. Cardinality(files \ (left'[g] \cup items'[g])) <= 0 + Budget
      BY <2>2, <3>3, <3>4
    <3>6. Cardinality(files' \ (left'[g] \cup items'[g])) <= 0 + Budget'
      BY <3>5, CoveredStaysWithin
    <3>7. Budget' \in Nat
      BY BudgetAfter
    <3> QED
      BY <1>2, <3>1, <3>6, <3>7 DEF ToLookAt
  <2>4. CASE FindsExcess(g)
    <3> DEFINE kept == items[g] \ Excess(items[g])
    <3>1. /\ files' = files /\ left[g] = {} /\ items'[g] = Excess(items[g])
          /\ at'[g] = IF Excess(items[g]) = {} THEN "ended" ELSE "pruning"
      BY <2>4 DEF ReportsTypeOK, FindsExcess, Listed, Move
    <3>2. Cardinality(kept) <= MaxReports
      BY <1>1, FilesFinite, ExcessLeavesFew
    <3>3. kept \in SUBSET Times /\ files \ items[g] \in SUBSET Times
      BY <1>1
    <3>4. files \ Excess(items[g]) \subseteq (files \ items[g]) \cup kept
      OBVIOUS
    <3> HIDE DEF kept
    <3>5. /\ IsFiniteSet(kept) /\ IsFiniteSet(files \ items[g])
          /\ Cardinality(kept) \in Nat /\ Cardinality(files \ items[g]) \in Nat
      BY <3>3, FilesFinite
    <3>6. (files \ items[g]) \cap kept \in SUBSET Times
      BY <3>3
    <3>7. /\ Cardinality((files \ items[g]) \cup kept) =
               Cardinality(files \ items[g]) + Cardinality(kept)
                 - Cardinality((files \ items[g]) \cap kept)
          /\ Cardinality((files \ items[g]) \cap kept) \in Nat
      BY <3>5, <3>6, FS_Union, FilesFinite
    <3>8. Cardinality(files \ items[g]) <= Budget /\ Budget \in Nat
      <4>1. left[g] \cup items[g] = items[g]
        BY <3>1
      <4> QED
        BY <4>1, <1>2, BudgetIsNat DEF ToLookAt
    <3>9. (files \ items[g]) \cup kept \in SUBSET Times
      BY <3>3
    <3>10. Cardinality(files \ Excess(items[g])) <= Cardinality((files \ items[g]) \cup kept)
           /\ Cardinality(files \ Excess(items[g])) \in Nat
           /\ Cardinality((files \ items[g]) \cup kept) \in Nat
      BY <3>4, <3>9, FewerFiles
    <3>11. Cardinality(files \ Excess(items[g])) <= MaxReports + Budget
      BY <1>1, <3>2, <3>5, <3>7, <3>8, <3>10
    <3>12. Cardinality(files' \ Excess(items[g])) <= MaxReports + Budget'
      BY <1>1, <3>11, CoveredStaysWithin
    <3>13. CASE Excess(items[g]) = {}
      <4>1. files' \ Excess(items[g]) = files'
        BY <3>13
      <4> QED
        BY <3>12, <4>1 DEF FewFiles
    <3>14. CASE Excess(items[g]) # {}
      BY <3>1, <3>12, <3>14 DEF ToRemove
    <3> QED
      BY <3>13, <3>14
  <2> QED
    BY <2>1, <2>3, <2>4
<1>3. CASE ToRemove(g)
  <2>1. Removes(g) \/ RemoveFails(g)
    BY <1>3
    DEF ToRemove, Begin, ReportStep, Names, Writes, WriteFails, ReadsDir, Lists,
        ReadDirFails, EndsList, FindsLatest, FindsName, Gets, Listed, FindsExcess, Stats, Move
  <2> DEFINE f == Newest(items[g])
  <2>2. /\ items'[g] = items[g] \ {f}
        /\ at'[g] = IF items[g] = {f} THEN "ended" ELSE "pruning"
    BY <2>1 DEF ReportsTypeOK, Removes, RemoveFails, Move
  <2>3. f \in items[g]
    <3>1. items[g] # {}
      BY <1>3 DEF GoroutineInv, Placed, ToRemove
    <3> QED
      BY <1>1, <3>1, FilesFinite, NewestIsLast
  <2>4. Cardinality(files' \ (items[g] \ {f})) <= MaxReports + Budget'
    <3>1. CASE Removes(g)
      <4>1. files' = files \ {f}
        BY <3>1 DEF Removes
      <4>2. Cardinality(files' \ items[g]) <= MaxReports + Budget'
        BY <1>1, <1>3, CoveredStaysWithin DEF ToRemove
      <4>3. files' \ (items[g] \ {f}) = files' \ items[g]
        BY <4>1
      <4> QED
        BY <4>2, <4>3
    <3>2. CASE RemoveFails(g)
      <4>1. files' = files /\ Budget' = Budget + 1
        BY <3>2, OthersUnchanged, FailedRemoval
      <4> HIDE DEF f
      <4>2. files \ items[g] \in SUBSET Times
        BY <1>1
      <4>3. /\ IsFiniteSet(files \ items[g]) /\ Cardinality(files \ items[g]) \in Nat
        BY <4>2, FilesFinite
      <4>4. (files \ items[g]) \cup {f} \in SUBSET Times
        BY <1>1, <2>3
      <4>5. files' \ (items[g] \ {f}) \subseteq (files \ items[g]) \cup {f}
        BY <4>1
      <4>6. /\ Cardinality(files' \ (items[g] \ {f})) <= Cardinality((files \ items[g]) \cup {f})
            /\ Cardinality(files' \ (items[g] \ {f})) \in Nat
            /\ Cardinality((files \ items[g]) \cup {f}) \in Nat
        BY <4>4, <4>5, FewerFiles
      <4>7. Cardinality((files \ items[g]) \cup {f}) <= Cardinality(files \ items[g]) + 1
        <5>1. f \notin files \ items[g]
          BY <2>3
        <5> QED
          BY <4>3, <5>1, FS_AddElement
      <4>8. Cardinality(files \ items[g]) <= MaxReports + Budget /\ Budget \in Nat
        BY <1>3, BudgetIsNat DEF ToRemove
      <4> QED
        BY <1>1, <4>1, <4>3, <4>6, <4>7, <4>8
    <3> QED
      BY <2>1, <3>1, <3>2
  <2> HIDE DEF f
  <2>5. CASE items[g] = {f}
    <3>1. files' \ (items[g] \ {f}) = files'
      BY <2>5
    <3> QED
      BY <2>4, <3>1 DEF FewFiles
  <2>6. CASE items[g] # {f}
    BY <2>2, <2>4, <2>6 DEF ToRemove
  <2> QED
    BY <2>5, <2>6
<1> QED
  BY <1>2, <1>3

LEMMA StepKeepsPending ==
  ASSUME ReportsTypeOK, ReportsTypeOK', PruningPending,
         NEW g \in Goroutines, GoroutineInv(g),
         (\E j \in Jobs : Begin(g, j)) \/ ReportStep(g)
  PROVE  PruningPending'
<1>1. SUFFICES ASSUME MaxReports > 0
               PROVE  FewFiles' \/ \E h \in Goroutines : ToLookAt(h)' \/ ToRemove(h)'
  BY PendingParts DEF PruningPending, FewFiles, ToLookAt, ToRemove
<1>2. CASE job[g] = "save" /\ ReadsDir(g)
  <2>1. /\ job' = job /\ at'[g] = "listing" /\ left'[g] = files /\ files' = files
    BY <1>2 DEF ReportsTypeOK, ReadsDir, Move
  <2>2. files' \ (left'[g] \cup items'[g]) = {}
    BY <2>1
  <2>3. Budget' \in Nat
    BY BudgetAfter
  <2>4. Cardinality(files' \ (left'[g] \cup items'[g])) <= Budget'
    BY <2>2, <2>3, FS_EmptySet
  <2> QED
    BY <1>2, <2>1, <2>4 DEF ToLookAt
<1>3. CASE ~(job[g] = "save" /\ ReadsDir(g))
  <2>1. Covered
    BY <1>3, StepsCovered DEF GoroutineInv
  <2>2. MaxReports \in Nat
    BY ReportsAssumption
  <2>3. CASE FewFiles
    <3>1. files \ {} = files /\ files' \ {} = files'
      OBVIOUS
    <3> QED
      BY <2>1, <2>2, <2>3, <3>1, CoveredStaysWithin DEF FewFiles
  <2>4. ASSUME NEW h \in Goroutines, ToLookAt(h) \/ ToRemove(h), h # g
        PROVE  ToLookAt(h)' \/ ToRemove(h)'
    <3>1. job'[h] = job[h] /\ at'[h] = at[h] /\ left'[h] = left[h] /\ items'[h] = items[h]
      BY <2>4, OthersUnchanged
    <3>2. CASE ToLookAt(h)
      <4>1. Cardinality(files \ (left[h] \cup items[h])) <= 0 + Budget
        BY <3>2, BudgetIsNat DEF ToLookAt
      <4>2. Cardinality(files' \ (left[h] \cup items[h])) <= 0 + Budget'
        BY <2>1, <4>1, CoveredStaysWithin
      <4>3. Budget' \in Nat
        BY BudgetAfter
      <4> QED
        BY <3>1, <3>2, <4>2, <4>3 DEF ToLookAt
    <3>3. CASE ToRemove(h)
      <4>1. Cardinality(files' \ items[h]) <= MaxReports + Budget'
        BY <2>1, <2>2, <3>3, CoveredStaysWithin DEF ToRemove
      <4> QED
        BY <3>1, <3>3, <4>1 DEF ToRemove
    <3> QED
      BY <2>4, <3>2, <3>3
  <2>5. CASE ToLookAt(g) \/ ToRemove(g)
    BY <1>1, <2>1, <2>5, SaveGoesOn
  <2> QED
    BY <1>1, <2>3, <2>4, <2>5, PendingParts
<1> QED
  BY <1>2, <1>3

-----------------------------------------------------------------------------

LEMMA ReportsStart == ClockInit /\ ReportsInit => ReportsInv
<1> SUFFICES ASSUME ClockInit, ReportsInit PROVE ReportsInv
  OBVIOUS
<1>1. 0 \in Times /\ Stored \in SUBSET Times /\ now \in 0..MaxTime
  BY ClockAssumption DEF Times, ClockInit
<1>2. Cardinality(Stored) \in Nat
  BY <1>1, FilesFinite
<1>3. ReportsTypeOK
  BY <1>1, <1>2 DEF ReportsInit, ReportsTypeOK, ClockTypeOK, ClockInit, Stages, Answers
<1>4. FewFiles
  <2>1. Cardinality(Unread) \in Nat /\ Budget = unpruned + Cardinality(Unread)
    BY <1>3, BudgetIsNat
  <2> QED
    BY <1>2, <2>1, ReportsAssumption DEF ReportsInit, FewFiles
<1>5. \A g \in Goroutines : GoroutineInv(g)
  BY DEF ReportsInit, GoroutineInv, Placed, SeesAll, PrunesOutlived, HasLatest, Overtaken,
         ReadsNewest
<1> QED
  BY <1>3, <1>4, <1>5, PendingParts DEF ReportsInv

LEMMA ReportsUndisturbed ==
  ASSUME ReportsInv, UNCHANGED reportVars, ClockTypeOK' PROVE ReportsInv'
<1>1. ReportsTypeOK'
  BY DEF ReportsInv, ReportsTypeOK, reportVars
<1>2. PruningPending'
  BY DEF ReportsInv, PruningPending, Budget, reportVars
<1>3. ASSUME NEW g \in Goroutines PROVE GoroutineInv(g)'
  BY DEF ReportsInv, reportVars, GoroutineInv, Placed, SeesAll, PrunesOutlived, HasLatest,
         Overtaken, ReadsNewest, Outlived
<1> QED
  BY <1>1, <1>2, <1>3 DEF ReportsInv

LEMMA ReportsInvStep == ReportsInv /\ [ReportsNext]_<<now, reportVars>> => ReportsInv'
<1> SUFFICES ASSUME ReportsInv, [ReportsNext]_<<now, reportVars>> PROVE ReportsInv'
  OBVIOUS
<1>1. ASSUME NEW g \in Goroutines, (\E j \in Jobs : Begin(g, j)) \/ ReportStep(g), now' = now
      PROVE  ReportsInv'
  <2>1. ReportsTypeOK /\ PruningPending /\ \A h \in Goroutines : GoroutineInv(h)
    BY DEF ReportsInv
  <2>2. ReportsTypeOK'
    BY <1>1, <2>1, StepKeepsReportTypes DEF GoroutineInv
  <2> QED
    BY <1>1, <2>1, <2>2, StepKeepsPending, StepKeepsGoroutines DEF ReportsInv
<1>2. CASE UNCHANGED reportVars /\ (Tick \/ now' = now)
  BY <1>2, ReportsUndisturbed, ClockAssumption
  DEF Tick, ReportsInv, ReportsTypeOK, ClockTypeOK
<1> QED
  BY <1>1, <1>2 DEF ReportsNext

\* The variables of the reports keep their types.
THEOREM ReportsTyped == ReportsSpec => []ReportsTypeOK
<1>1. ReportsInv => ReportsTypeOK
  BY DEF ReportsInv
<1> QED
  BY <1>1, ReportsStart, ReportsInvStep, PTL DEF ReportsSpec

\* No save removes a file that is wanted, whoever else writes or removes (report.go:53-67).
THEOREM RemovalsAreOutlived == ReportsSpec => NewestKept
<1>1. /\ ReportsInv /\ [ReportsNext]_<<now, reportVars>>
      => [\A f \in files \ files' : Outlived(f)']_reportVars
  <2> SUFFICES ASSUME ReportsInv, NEW g \in Goroutines,
                      (\E j \in Jobs : Begin(g, j)) \/ ReportStep(g), now' = now,
                      NEW f \in files \ files'
               PROVE  Outlived(f)'
    BY DEF ReportsNext
  <2>1. ReportsTypeOK /\ GoroutineInv(g) /\ Placed(g)
    BY DEF ReportsInv, GoroutineInv
  <2>2. ReportsTypeOK'
    BY <2>1, StepKeepsReportTypes
  <2>3. FatesKept
    BY <2>1, <2>2, StepKeepsFates
  <2>4. f \in Times
    BY <2>1 DEF ReportsTypeOK
  <2> QED
    BY <2>3, <2>4 DEF FatesKept
<1> QED
  BY <1>1, ReportsStart, ReportsInvStep, PTL DEF ReportsSpec, NewestKept

\* What Latest answers is the newest report there was, unless that one is outlived
\* (report.go:70-112 and 208-218).
THEOREM LatestFound == ReportsSpec => []LatestUnlessOvertaken
<1>1. ReportsInv => LatestUnlessOvertaken
  <2> SUFFICES ASSUME ReportsInv, NEW g \in Goroutines, job[g] = "latest",
                      answer[g] = "report" \/ (answer[g] = "not found" /\ seen[g] # {})
               PROVE  \/ answer[g] = "report" /\ name[g] = Newest(seen[g])
                      \/ Outlived(Newest(seen[g]))
    BY DEF LatestUnlessOvertaken
  <2>1. CASE answer[g] = "report"
    BY <2>1 DEF ReportsInv, GoroutineInv, ReadsNewest, Outlived
  <2>2. CASE answer[g] = "not found" /\ seen[g] # {}
    BY <2>2 DEF ReportsInv, GoroutineInv, Overtaken, Outlived
  <2> QED
    BY <2>1, <2>2
<1> QED
  BY <1>1, ReportsStart, ReportsInvStep, PTL DEF ReportsSpec

\* When no save is under way the directory is pruned, but for what was written besides
\* or could not be removed since a save last read it (report.go:52-66 and 178-206).
THEOREM RestIsPruned == ReportsSpec => []PrunedAtRest
<1>1. ReportsInv => PrunedAtRest
  <2> SUFFICES ASSUME ReportsInv, MaxReports > 0, \A g \in Goroutines : ~Saving(g)
               PROVE  Cardinality(files) <= MaxReports + unpruned
    BY DEF PrunedAtRest
  <2>1. ASSUME NEW g \in Goroutines PROVE ~ToLookAt(g) /\ ~ToRemove(g) /\ g \notin Unread
    BY DEF ReportsInv, GoroutineInv, Placed, Saving, ToLookAt, ToRemove, Unread
  <2>2. FewFiles
    BY <2>1, PendingParts DEF ReportsInv
  <2>3. Unread = {}
    BY <2>1 DEF Unread
  <2>4. Budget = unpruned + Cardinality(Unread) /\ unpruned \in Nat
    BY BudgetIsNat DEF ReportsInv, ReportsTypeOK
  <2>5. Cardinality(Unread) = 0
    BY <2>3, FS_EmptySet
  <2> QED
    BY <2>2, <2>4, <2>5 DEF FewFiles
<1> QED
  BY <1>1, ReportsStart, ReportsInvStep, PTL DEF ReportsSpec

-----------------------------------------------------------------------------

Ordered(S) == \A q, r \in S : q.serial = r.serial => q = r

\* Every record has a place of its own, before those that are to come.
HistoryInv ==
  HistoryTypeOK /\ Ordered(records) /\ \A r \in records : r.serial < recorded

\* How many of S are later: its place on the pages.
Rank(S, r) == Cardinality(Later(S, r))

LEMMA RanksDescend ==
  ASSUME NEW S \in SUBSET Records, IsFiniteSet(S)
  PROVE  /\ Cardinality(S) \in Nat
         /\ \A r \in S : Rank(S, r) \in 0..Cardinality(S) - 1
         /\ \A q, r \in S : q.serial > r.serial => Rank(S, q) < Rank(S, r)
<1>1. /\ Cardinality(S) \in Nat
      /\ \A T \in SUBSET S : IsFiniteSet(T) /\ Cardinality(T) \in Nat
  BY FS_Subset, FS_CardinalityType
<1>2. \A r \in S : r.serial \in Nat
  BY DEF Records
<1>3. ASSUME NEW T \in SUBSET S, NEW x \in S \ T
      PROVE  Cardinality(T) < Cardinality(S)
  <2>1. Cardinality(T) <= Cardinality(S) /\ (Cardinality(S) = Cardinality(T) => S = T)
    BY FS_Subset
  <2> QED
    BY <1>1, <1>3, <2>1
<1>4. ASSUME NEW r \in S PROVE Rank(S, r) \in 0..Cardinality(S) - 1
  <2>1. Later(S, r) \in SUBSET S /\ r \in S \ Later(S, r)
    BY <1>2 DEF Later
  <2>2. Cardinality(Later(S, r)) < Cardinality(S) /\ Cardinality(Later(S, r)) \in Nat
    BY <1>1, <1>3, <2>1
  <2> QED
    BY <1>1, <2>2 DEF Rank
<1>5. ASSUME NEW q \in S, NEW r \in S, q.serial > r.serial
      PROVE  Rank(S, q) < Rank(S, r)
  <2>1. /\ Later(S, q) \in SUBSET Later(S, r) /\ Later(S, r) \in SUBSET S
        /\ q \in Later(S, r) /\ q \notin Later(S, q)
    BY <1>2, <1>5 DEF Later
  <2>2. IsFiniteSet(Later(S, r)) /\ Cardinality(Later(S, r)) \in Nat
        /\ Cardinality(Later(S, q)) \in Nat
    BY <1>1, <2>1
  <2>3. /\ Cardinality(Later(S, q)) <= Cardinality(Later(S, r))
        /\ Cardinality(Later(S, r)) = Cardinality(Later(S, q)) => Later(S, r) = Later(S, q)
    BY <2>1, <2>2, FS_Subset
  <2> QED
    BY <2>1, <2>2, <2>3 DEF Rank
<1> QED
  BY <1>1, <1>4, <1>5

LEMMA RanksDiffer ==
  ASSUME NEW S \in SUBSET Records, IsFiniteSet(S), Ordered(S),
         NEW q \in S, NEW r \in S, Rank(S, q) = Rank(S, r)
  PROVE  q = r
<1>1. q.serial \in Nat /\ r.serial \in Nat
  BY DEF Records
<1>2. Rank(S, q) \in Nat /\ Rank(S, r) \in Nat
  BY RanksDescend
<1>3. q.serial = r.serial
  <2>1. ~(q.serial > r.serial) /\ ~(r.serial > q.serial)
    BY <1>2, RanksDescend
  <2> QED
    BY <1>1, <2>1
<1> QED
  BY <1>3 DEF Ordered

\* The ranks are 0, 1 and so on, each that of one record.
LEMMA RanksFill ==
  ASSUME NEW S \in SUBSET Records, IsFiniteSet(S), Ordered(S),
         NEW k \in 0..Cardinality(S) - 1
  PROVE  \E r \in S : Rank(S, r) = k
<1> DEFINE n == Cardinality(S)
           f == [r \in S |-> Rank(S, r)]
<1>1. n \in Nat /\ f \in [S -> 0..n - 1]
  BY RanksDescend
<1>2. f \in Injection(S, 0..n - 1)
  BY <1>1, RanksDiffer DEF Injection, IsInjective
<1>3. IsFiniteSet(0..n - 1) /\ Cardinality(0..n - 1) = n
  <2>1. 0 \in Int /\ n - 1 \in Int
    BY <1>1
  <2>2. Cardinality(0..n - 1) = IF 0 > n - 1 THEN 0 ELSE n - 1 - 0 + 1
    BY <2>1, FS_Interval
  <2>3. IsFiniteSet(0..n - 1)
    BY <2>1, FS_Interval
  <2> QED
    BY <1>1, <2>2, <2>3
<1> HIDE DEF f
<1>4. f \in Surjection(S, 0..n - 1)
  BY <1>2, <1>3, FS_Injection
<1>5. \E r \in S : f[r] = k
  BY <1>4 DEF Surjection
<1> QED
  BY <1>5 DEF f

\* As many records as there are ranks have ranks in an interval.
LEMMA SliceSize ==
  ASSUME NEW S \in SUBSET Records, IsFiniteSet(S), Ordered(S),
         NEW lo \in Nat, NEW hi \in Nat, lo < hi, hi <= Cardinality(S)
  PROVE  Cardinality({r \in S : Rank(S, r) \in lo..hi - 1}) = hi - lo
<1> DEFINE T == {r \in S : Rank(S, r) \in lo..hi - 1}
           f == [r \in T |-> Rank(S, r)]
<1>1. f \in [T -> lo..hi - 1]
  OBVIOUS
<1>2. f \in Injection(T, lo..hi - 1)
  BY <1>1, RanksDiffer DEF Injection, IsInjective
<1>3. IsFiniteSet(lo..hi - 1) /\ Cardinality(lo..hi - 1) = hi - lo
  <2>1. lo \in Int /\ hi - 1 \in Int
    OBVIOUS
  <2>2. Cardinality(lo..hi - 1) = IF lo > hi - 1 THEN 0 ELSE hi - 1 - lo + 1
    BY <2>1, FS_Interval
  <2>3. IsFiniteSet(lo..hi - 1)
    BY <2>1, FS_Interval
  <2> QED
    BY <2>2, <2>3
<1>4. f \in Surjection(T, lo..hi - 1)
  <2>1. ASSUME NEW k \in lo..hi - 1 PROVE \E r \in T : f[r] = k
    <3>1. k \in 0..Cardinality(S) - 1
      BY RanksDescend
    <3>2. PICK r \in S : Rank(S, r) = k
      BY <3>1, RanksFill
    <3> QED
      BY <3>2
  <2> QED
    BY <1>1, <2>1 DEF Surjection
<1> HIDE DEF f, T
<1>5. Cardinality(T) = Cardinality(lo..hi - 1)
  BY <1>2, <1>3, <1>4, FS_Injection
<1> QED
  BY <1>3, <1>5 DEF T

\* A page leaves nothing out: what it does not have comes before it or after where the
\* next one begins; and if it is not full, nothing comes after it.
LEMMA PageLeavesNothingOut ==
  ASSUME NEW S \in SUBSET Records, IsFiniteSet(S), Ordered(S),
         NEW limit \in 1..MaxInt, NEW from \in Nat
  PROVE  LET page == Page(S, limit, from)
         IN  /\ Cardinality(page) \in Nat
             /\ \A r \in S \ page :
                  Rank(S, r) >= from => Rank(S, r) >= from + Cardinality(page)
             /\ ~Panics(S, limit, from) /\ Cardinality(page) < limit =>
                  \A r \in S : Rank(S, r) >= from => r \in page
<1> DEFINE page == Page(S, limit, from)
           end == PageEnd(S, limit, from)
           n == Cardinality(S)
<1>1. /\ n \in Nat /\ MaxInt \in Nat /\ limit \in Nat /\ limit >= 1 /\ limit <= MaxInt
      /\ \A r \in S : Rank(S, r) \in Nat /\ Rank(S, r) < n
  BY RanksDescend, HistoryAssumption
<1>2. Plus(from, limit) \in Int
  BY <1>1 DEF Plus
<1>3. end \in Int /\ end <= n /\ (end = n \/ end = Plus(from, limit))
  BY <1>1, <1>2 DEF PageEnd
<1>4. page = {r \in S : Rank(S, r) \in from..end - 1}
  BY DEF Page, Rank
<1>5. from <= n /\ ~Panics(S, limit, from) => Plus(from, limit) = from + limit
  BY <1>1 DEF Plus, Panics
<1> HIDE DEF page, end, n
<1>6. CASE end <= from
  <2>1. page = {}
    BY <1>1, <1>3, <1>4, <1>6
  <2>2. Cardinality(page) = 0
    BY <2>1, FS_EmptySet
  <2>3. ASSUME ~Panics(S, limit, from), NEW r \in S, Rank(S, r) >= from PROVE FALSE
    <3>1. from <= n
      BY <1>1, <2>3
    <3>2. Plus(from, limit) = from + limit
      BY <1>5, <2>3, <3>1
    <3> QED
      BY <1>1, <1>3, <1>6, <2>3, <3>2
  <2>4. \A r \in S \ page : Rank(S, r) >= from => Rank(S, r) >= from + Cardinality(page)
    BY <1>1, <2>2
  <2> QED
    BY <2>2, <2>3, <2>4 DEF page
<1>7. CASE end > from
  <2>1. Cardinality(page) = end - from
    <3>1. end \in Nat /\ end <= Cardinality(S)
      BY <1>3, <1>7 DEF n
    <3> QED
      BY <1>4, <1>7, <3>1, SliceSize
  <2>2. Cardinality(page) \in Nat /\ from + Cardinality(page) = end
    BY <1>3, <1>7, <2>1
  <2>3. ASSUME NEW r \in S \ page, Rank(S, r) >= from PROVE Rank(S, r) >= end
    BY <1>1, <1>3, <1>4, <2>3
  <2>4. ASSUME ~Panics(S, limit, from), Cardinality(page) < limit,
               NEW r \in S, Rank(S, r) >= from
        PROVE  r \in page
    <3>1. Plus(from, limit) = from + limit
      BY <1>1, <1>5, <2>4
    <3>2. end = n
      BY <1>1, <1>3, <2>2, <2>4, <3>1
    <3> QED
      BY <1>1, <1>4, <2>4, <3>2
  <2>5. \A r \in S \ page : Rank(S, r) >= from => Rank(S, r) >= from + Cardinality(page)
    BY <2>2, <2>3
  <2> QED
    BY <2>2, <2>4, <2>5 DEF page
<1> QED
  BY <1>3, <1>6, <1>7

\* What a Record leaves: no more than the cap, the newest of what there was, and the
\* new one.
LEMMA RecordKeepsOrder ==
  ASSUME HistoryInv, NEW agent \in Agents, NEW success \in BOOLEAN, Record(agent, success)
  PROVE  /\ HistoryInv'
         /\ \A r \in records' : r \in records \/ r.serial = recorded
         /\ \A q \in records, r \in records' : q.serial > r.serial => q \in records'
         /\ recorded' = recorded + 1
<1> DEFINE new == [agent |-> agent, success |-> success, serial |-> recorded]
           all == records \cup {new}
<1>1. /\ records \in SUBSET Records /\ IsFiniteSet(records) /\ recorded \in Nat
      /\ MaxRecords \in Nat \ {0}
      /\ \A r \in records : r.serial < recorded /\ r.serial \in Nat
  BY HistoryAssumption DEF HistoryInv, HistoryTypeOK, Records
<1>2. new \in Records /\ new.serial = recorded
  BY <1>1 DEF Records
<1>3. recorded' = recorded + 1 /\ records' = {r \in all : Rank(all, r) < MaxRecords}
  BY DEF Record, Rank
<1> HIDE DEF new
<1>4. all \in SUBSET Records /\ IsFiniteSet(all)
  BY <1>1, <1>2, FS_AddElement
<1>5. Ordered(all)
  <2> SUFFICES ASSUME NEW q \in all, NEW r \in all, q.serial = r.serial PROVE q = r
    BY DEF Ordered
  <2>1. CASE q \in records /\ r \in records
    BY <2>1 DEF HistoryInv, Ordered
  <2>2. CASE ~(q \in records /\ r \in records)
    BY <1>1, <1>2, <2>2
  <2> QED
    BY <2>1, <2>2
<1>6. \A r \in all : r = new \/ r \in records
  OBVIOUS
<1> HIDE DEF all
<1>7. records' \in SUBSET Records /\ IsFiniteSet(records') /\ Ordered(records')
  BY <1>3, <1>4, <1>5, FS_Subset DEF Ordered
<1>8. Cardinality(records') <= MaxRecords
  <2> DEFINE f == [r \in records' |-> Rank(all, r)]
  <2>1. \A r \in all : Rank(all, r) \in Nat
    BY <1>4, RanksDescend
  <2>2. f \in [records' -> 0..MaxRecords - 1]
    BY <1>1, <1>3, <2>1
  <2>3. f \in Injection(records', 0..MaxRecords - 1)
    BY <1>3, <1>4, <1>5, <2>2, RanksDiffer DEF Injection, IsInjective
  <2>4. IsFiniteSet(0..MaxRecords - 1) /\ Cardinality(0..MaxRecords - 1) = MaxRecords
    <3>1. 0 \in Int /\ MaxRecords - 1 \in Int
      BY <1>1
    <3>2. Cardinality(0..MaxRecords - 1) =
            IF 0 > MaxRecords - 1 THEN 0 ELSE MaxRecords - 1 - 0 + 1
      BY <3>1, FS_Interval
    <3>3. IsFiniteSet(0..MaxRecords - 1)
      BY <3>1, FS_Interval
    <3> QED
      BY <1>1, <3>2, <3>3
  <2> HIDE DEF f
  <2>5. Cardinality(records') <= Cardinality(0..MaxRecords - 1)
    BY <2>3, <2>4, FS_Injection
  <2> QED
    BY <2>4, <2>5
<1>9. \A r \in records' : r.serial < recorded'
  BY <1>1, <1>2, <1>3, <1>6
<1>10. ASSUME NEW q \in records, NEW r \in records', q.serial > r.serial
       PROVE  q \in records'
  <2>1. q \in all /\ r \in all
    BY <1>3 DEF all
  <2>2. Rank(all, q) < Rank(all, r) /\ Rank(all, q) \in Nat /\ Rank(all, r) \in Nat
    BY <1>4, <1>10, <2>1, RanksDescend
  <2> QED
    BY <1>1, <1>3, <2>1, <2>2
<1>11. recorded' \in Nat
  BY <1>1, <1>3
<1> QED
  BY <1>2, <1>3, <1>6, <1>7, <1>8, <1>9, <1>10, <1>11 DEF HistoryInv, HistoryTypeOK

-----------------------------------------------------------------------------

\* The API's own part of TypeOK.
ApiTypes ==
  /\ asks \in Workloads
  /\ pc \in [Goroutines -> {"arrived", "admitted", "failing", "passed", "busy", "answered",
                            "refused", "unauthorized", "panicked"}]
  /\ due \in [Goroutines -> SUBSET Agents]
  /\ offset \in [Goroutines -> Nat]
  /\ got \in [Goroutines -> SUBSET Nat]
  /\ existed \in [Goroutines -> SUBSET Nat]

Asked(g) == Matching(asks[g].agents, asks[g].results)

\* While it reads, whatever of what existed a reader has not got is on pages to come.
ReaderInv(g) ==
  asks[g].op = "history" /\ asks[g].offset = 0 =>
    /\ \A s \in existed[g] : s < recorded
    /\ \A r \in records : r.serial \in existed[g] => r \in Asked(g)
    /\ pc[g] = "answered" => existed[g] \cap Serials(records) \subseteq got[g]
    /\ pc[g] # "answered" =>
         \A r \in Asked(g) : r.serial \in existed[g] \ got[g] => Rank(Asked(g), r) >= offset[g]

ApiInv == ApiTypes /\ HistoryInv /\ \A g \in Goroutines : ReaderInv(g)

LEMMA AsksTyped ==
  ASSUME ApiTypes, NEW g \in Goroutines
  PROVE  /\ asks[g].from \in Addresses /\ asks[g].op \in Ops
         /\ asks[g].agents \in SUBSET Agents /\ asks[g].fallsBack \in SUBSET Agents
         /\ asks[g].limit \in 1..MaxInt /\ asks[g].offset \in Nat
<1>1. asks[g] \in Asks
  BY ApiAssumption DEF ApiTypes
<1>2. asks[g].offset \in 0..MaxInt /\ MaxInt \in Nat
  BY <1>1, HistoryAssumption DEF Asks
<1> QED
  BY <1>1, <1>2 DEF Asks

\* What is asked for of a finite history in order is finite and in order.
LEMMA AskedOrdered ==
  ASSUME HistoryInv, NEW g
  PROVE  /\ Asked(g) \in SUBSET Records /\ Asked(g) \in SUBSET records
         /\ IsFiniteSet(Asked(g)) /\ Ordered(Asked(g))
<1>1. Asked(g) \in SUBSET records
  BY DEF Asked, Matching
<1> QED
  BY <1>1, FS_Subset DEF HistoryInv, HistoryTypeOK, Ordered

Quiet(g) ==
  \/ Exempt(g) \/ AsksLimiter(g) \/ ChecksToken(g) \/ Fails(g)
  \/ UsesReports(g) \/ Reporting(g) \/ AnswersAtOnce(g) \/ Trigger(g) \/ TakesAgent(g)

\* Most steps leave what is said of histories and their readers alone.
LEMMA QuietStepsApi ==
  ASSUME ApiTypes, NEW g \in Goroutines, Quiet(g)
  PROVE  /\ ApiTypes'
         /\ UNCHANGED <<historyVars, asks, offset, got, existed>>
         /\ \A h \in Goroutines :
              asks[h].op = "history" => (pc'[h] = "answered" <=> pc[h] = "answered")
<1> USE DEF ApiTypes, Goto
<1>1. CASE Exempt(g) \/ AsksLimiter(g) \/ ChecksToken(g)
  BY <1>1 DEF Exempt, AsksLimiter, ChecksToken
<1>2. CASE Fails(g) \/ UsesReports(g) \/ AnswersAtOnce(g)
  BY <1>2 DEF Fails, UsesReports, AnswersAtOnce
<1>3. CASE Trigger(g)
  BY <1>3, AsksTyped DEF Trigger
<1>4. CASE Reporting(g) \/ TakesAgent(g)
  BY <1>4 DEF Reporting, TakesAgent, apiVars
<1> QED
  BY <1>1, <1>2, <1>3, <1>4 DEF Quiet

LEMMA HistoryUnchanged ==
  ASSUME HistoryInv, UNCHANGED historyVars PROVE HistoryInv'
BY DEF HistoryInv, HistoryTypeOK, Ordered, historyVars

LEMMA QuietKeepsApi ==
  ASSUME ApiInv, ApiTypes', UNCHANGED <<historyVars, asks, offset, got, existed>>,
         \A h \in Goroutines :
           asks[h].op = "history" => (pc'[h] = "answered" <=> pc[h] = "answered")
  PROVE  ApiInv'
<1>1. HistoryInv'
  BY HistoryUnchanged DEF ApiInv
<1>2. ASSUME NEW h \in Goroutines PROVE ReaderInv(h)'
  <2>1. Asked(h)' = Asked(h) /\ records' = records /\ recorded' = recorded
    BY DEF Asked, Matching, historyVars
  <2>2. \A r : Rank(Asked(h), r)' = Rank(Asked(h), r)
    BY <2>1 DEF Rank, Later
  <2> QED
    BY <2>1, <2>2 DEF ApiInv, ReaderInv
<1> QED
  BY <1>1, <1>2 DEF ApiInv

LEMMA RunsAgentKeepsApi ==
  ASSUME ApiInv, NEW g \in Goroutines, RunsAgent(g) PROVE ApiInv'
<1>1. PICK a \in due[g], success \in BOOLEAN :
        due' = [due EXCEPT ![g] = @ \ {a}] /\ Record(a, success)
  BY DEF RunsAgent
<1>2. a \in Agents /\ UNCHANGED <<asks, pc, offset, got, existed>>
  BY <1>1 DEF ApiInv, ApiTypes, RunsAgent
<1>3. ApiTypes'
  BY <1>1, <1>2 DEF ApiInv, ApiTypes
<1>4. /\ HistoryInv'
      /\ \A r \in records' : r \in records \/ r.serial = recorded
      /\ \A q \in records, r \in records' : q.serial > r.serial => q \in records'
      /\ recorded' = recorded + 1
  BY <1>1, <1>2, RecordKeepsOrder DEF ApiInv
<1>5. recorded \in Nat
  BY DEF ApiInv, HistoryInv, HistoryTypeOK
<1>6. ASSUME NEW h \in Goroutines PROVE ReaderInv(h)'
  <2> SUFFICES ASSUME asks[h].op = "history", asks[h].offset = 0 PROVE ReaderInv(h)'
    BY <1>2 DEF ReaderInv
  <2>1. /\ existed[h] \in SUBSET Nat /\ offset[h] \in Nat
        /\ \A s \in existed[h] : s < recorded
        /\ \A r \in records : r.serial \in existed[h] => r \in Asked(h)
        /\ pc[h] = "answered" => existed[h] \cap Serials(records) \subseteq got[h]
        /\ pc[h] # "answered" =>
             \A r \in Asked(h) : r.serial \in existed[h] \ got[h] =>
               Rank(Asked(h), r) >= offset[h]
    BY DEF ApiInv, ApiTypes, ReaderInv
  <2>2. recorded \notin existed[h]
    BY <1>5, <2>1
  <2>3. \A r \in records' : r.serial \in existed[h] => r \in records
    BY <1>4, <2>2
  <2>4. \A r \in records : r \in records' /\ r \in Asked(h) => r \in Asked(h)'
    BY <1>2 DEF Asked, Matching
  <2>5. \A s \in existed[h] : s < recorded'
    BY <1>4, <1>5, <2>1
  <2>6. existed[h] \cap Serials(records') \subseteq existed[h] \cap Serials(records)
    BY <2>3 DEF Serials
  <2>7. ASSUME pc[h] # "answered", NEW r \in Asked(h)', r.serial \in existed[h] \ got[h]
        PROVE  Rank(Asked(h)', r) >= offset[h]
    <3>1. r \in records' /\ r \in records /\ r \in Asked(h)
      <4>1. r \in records'
        BY DEF Asked, Matching
      <4> QED
        BY <2>1, <2>3, <2>7, <4>1
    <3>2. Later(Asked(h), r) \subseteq Later(Asked(h)', r)
      <4> SUFFICES ASSUME NEW q \in Asked(h), q.serial > r.serial PROVE q \in Asked(h)'
        BY DEF Later
      <4>1. q \in records
        BY DEF Asked, Matching
      <4>2. q \in records'
        BY <1>4, <3>1, <4>1
      <4> QED
        BY <2>4, <4>1, <4>2
    <3>3. IsFiniteSet(Asked(h)')
      BY <1>4, FS_Subset DEF Asked, Matching, HistoryInv, HistoryTypeOK
    <3>4. IsFiniteSet(Later(Asked(h)', r))
      BY <3>3, FS_Subset DEF Later
    <3>5. /\ Cardinality(Later(Asked(h), r)) <= Cardinality(Later(Asked(h)', r))
          /\ Cardinality(Later(Asked(h), r)) \in Nat
          /\ Cardinality(Later(Asked(h)', r)) \in Nat
      BY <3>2, <3>4, FS_Subset, FS_CardinalityType
    <3>6. Rank(Asked(h), r) >= offset[h]
      BY <2>1, <2>7, <3>1
    <3> QED
      BY <2>1, <3>5, <3>6 DEF Rank
  <2>8. \A r : Rank(Asked(h), r)' = Rank(Asked(h)', r)
    BY DEF Rank, Later
  <2>9. \A r \in records' : r.serial \in existed[h] => r \in Asked(h)'
    BY <2>1, <2>3, <2>4
  <2> HIDE DEF Rank, Asked
  <2> QED
    BY <1>2, <2>1, <2>5, <2>6, <2>7, <2>8, <2>9 DEF ReaderInv
<1> QED
  BY <1>3, <1>4, <1>6 DEF ApiInv

LEMMA NextPageKeepsApi ==
  ASSUME ApiInv, NEW g \in Goroutines, NextPage(g) PROVE ApiInv'
<1> DEFINE M == Asked(g)
           limit == asks[g].limit
           page == Page(M, limit, offset[g])
           first == offset[g] = asks[g].offset
<1>0. ApiTypes /\ HistoryInv
  BY DEF ApiInv
<1>1. /\ M \in SUBSET Records /\ M \in SUBSET records /\ IsFiniteSet(M) /\ Ordered(M)
      /\ limit \in 1..MaxInt /\ offset[g] \in Nat
  BY <1>0, AskedOrdered, AsksTyped DEF ApiTypes
<1>2. /\ Cardinality(page) \in Nat
      /\ \A r \in M \ page :
           Rank(M, r) >= offset[g] => Rank(M, r) >= offset[g] + Cardinality(page)
      /\ ~Panics(M, limit, offset[g]) /\ Cardinality(page) < limit =>
           \A r \in M : Rank(M, r) >= offset[g] => r \in page
  BY <1>1, PageLeavesNothingOut
<1>3. /\ existed' = IF first THEN [existed EXCEPT ![g] = Serials(M)] ELSE existed
      /\ pc[g] = "passed"
      /\ \/ Panics(M, limit, offset[g]) /\ Goto(g, "passed", "panicked")
            /\ UNCHANGED <<got, offset>>
         \/ /\ ~Panics(M, limit, offset[g])
            /\ Goto(g, "passed", IF Cardinality(page) < limit THEN "answered" ELSE "passed")
            /\ got' = [got EXCEPT ![g] = @ \cup Serials(page)]
            /\ offset' = [offset EXCEPT ![g] = @ + Cardinality(page)]
      /\ UNCHANGED <<now, historyVars, asks, due>>
  BY DEF NextPage, Asked, Goto
<1>4. Serials(M) \in SUBSET Nat /\ Serials(page) \in SUBSET Nat
  BY <1>1 DEF Serials, Records, Page
<1>5. page \subseteq M
  BY DEF Page
<1>6. Asked(g)' = M /\ records' = records /\ recorded' = recorded
  BY <1>3 DEF Asked, Matching, historyVars
<1> HIDE DEF M, page, limit
<1>7. ApiTypes'
  <2>1. existed' \in [Goroutines -> SUBSET Nat]
    BY <1>0, <1>3, <1>4 DEF ApiTypes
  <2>2. CASE UNCHANGED <<got, offset>> /\ Goto(g, "passed", "panicked")
    BY <1>0, <1>3, <2>1, <2>2 DEF ApiTypes, Goto
  <2>3. CASE /\ Goto(g, "passed", IF Cardinality(page) < limit THEN "answered" ELSE "passed")
             /\ got' = [got EXCEPT ![g] = @ \cup Serials(page)]
             /\ offset' = [offset EXCEPT ![g] = @ + Cardinality(page)]
    <3>1. offset[g] + Cardinality(page) \in Nat
      BY <1>1, <1>2
    <3>2. offset' \in [Goroutines -> Nat]
      BY <1>0, <2>3, <3>1 DEF ApiTypes
    <3>3. got' \in [Goroutines -> SUBSET Nat]
      BY <1>0, <1>4, <2>3 DEF ApiTypes
    <3>4. asks' = asks /\ due' = due
      BY <1>3
    <3>5. pc' \in [Goroutines -> {"arrived", "admitted", "failing", "passed", "busy",
                                  "answered", "refused", "unauthorized", "panicked"}]
      BY <1>0, <2>3 DEF ApiTypes, Goto
    <3> QED
      BY <1>0, <2>1, <3>2, <3>3, <3>4, <3>5 DEF ApiTypes
  <2> QED
    BY <1>3, <2>2, <2>3
<1>8. HistoryInv'
  BY <1>0, <1>3, HistoryUnchanged
<1>9. ASSUME NEW h \in Goroutines \ {g} PROVE ReaderInv(h)'
  <2>1. /\ existed'[h] = existed[h] /\ got'[h] = got[h] /\ offset'[h] = offset[h]
        /\ pc'[h] = pc[h] /\ asks' = asks
    BY <1>0, <1>3 DEF ApiTypes, Goto
  <2>2. Asked(h)' = Asked(h)
    BY <1>6, <2>1 DEF Asked, Matching
  <2>3. \A r : Rank(Asked(h), r)' = Rank(Asked(h), r)
    BY <2>2 DEF Rank, Later
  <2> QED
    BY <1>6, <2>1, <2>2, <2>3 DEF ApiInv, ReaderInv
<1>10. ReaderInv(g)'
  <2> SUFFICES ASSUME asks[g].op = "history", asks[g].offset = 0 PROVE ReaderInv(g)'
    BY <1>3 DEF ReaderInv
  <2>1. /\ \A s \in existed[g] : s < recorded
        /\ \A r \in records : r.serial \in existed[g] => r \in M
        /\ \A r \in M : r.serial \in existed[g] \ got[g] => Rank(M, r) >= offset[g]
    BY <1>3 DEF ApiInv, ReaderInv, M
  <2>2. existed'[g] = IF offset[g] = 0 THEN Serials(M) ELSE existed[g]
    BY <1>0, <1>3 DEF ApiTypes
  <2>3. \A r \in M : Rank(M, r) \in Nat
    BY <1>1, RanksDescend
  <2>4. \A r \in M : r.serial \in existed'[g] \ got[g] => Rank(M, r) >= offset[g]
    BY <2>1, <2>2, <2>3
  <2>5. \A s \in existed'[g] : s < recorded
    <3>1. \A s \in Serials(M) : s < recorded
      BY <1>0, <1>1 DEF Serials, HistoryInv
    <3> QED
      BY <2>1, <2>2, <3>1
  <2>6. \A r \in records : r.serial \in existed'[g] => r \in M
    <3> SUFFICES ASSUME NEW r \in records, r.serial \in Serials(M) PROVE r \in M
      BY <2>1, <2>2
    <3>1. PICK q \in M : q.serial = r.serial
      BY DEF Serials
    <3> QED
      BY <1>0, <1>1, <3>1 DEF HistoryInv, Ordered
  <2>7. \A r : Rank(Asked(g), r)' = Rank(M, r)
    BY <1>6 DEF Rank, Later
  <2>8. CASE pc'[g] = "panicked" /\ UNCHANGED <<got, offset>>
    BY <1>6, <2>4, <2>5, <2>6, <2>7, <2>8 DEF ReaderInv
  <2>9. CASE /\ ~Panics(M, limit, offset[g])
             /\ pc'[g] = IF Cardinality(page) < limit THEN "answered" ELSE "passed"
             /\ got'[g] = got[g] \cup Serials(page)
             /\ offset'[g] = offset[g] + Cardinality(page)
    <3>1. \A r \in page : r.serial \in got'[g]
      BY <2>9 DEF Serials
    <3>2. \A r \in M : r.serial \in existed'[g] \ got'[g] =>
            Rank(M, r) >= offset[g] /\ r \notin page
      BY <2>4, <2>9, <3>1
    <3>3. \A r \in M : r.serial \in existed'[g] \ got'[g] => Rank(M, r) >= offset'[g]
      BY <1>2, <2>9, <3>2
    <3>4. ASSUME pc'[g] = "answered", NEW s \in existed'[g] \cap Serials(records)
          PROVE  s \in got'[g]
      <4>1. Cardinality(page) < limit
        BY <2>9, <3>4
      <4>2. PICK r \in records : r.serial = s
        BY DEF Serials
      <4>3. r \in M
        BY <2>6, <4>2
      <4> QED
        BY <1>2, <2>9, <3>2, <4>1, <4>2, <4>3
    <3> QED
      BY <1>6, <2>5, <2>6, <2>7, <3>3, <3>4 DEF ReaderInv
  <2> QED
    BY <1>0, <1>3, <2>8, <2>9 DEF ApiTypes, Goto
<1> QED
  BY <1>7, <1>8, <1>9, <1>10 DEF ApiInv

LEMMA ApiInvStep == ApiInv /\ [Next]_vars => ApiInv'
<1> SUFFICES ASSUME ApiInv, [Next]_vars PROVE ApiInv'
  OBVIOUS
<1>1. ASSUME NEW g \in Goroutines, Quiet(g) PROVE ApiInv'
  <2>1. ApiTypes
    BY DEF ApiInv
  <2> QED
    BY <1>1, <2>1, QuietStepsApi, QuietKeepsApi
<1>2. CASE Ticks \/ UNCHANGED vars
  <2>1. UNCHANGED <<historyVars, apiVars>>
    BY <1>2 DEF Ticks, vars
  <2>2. ApiTypes'
    BY <2>1 DEF ApiInv, ApiTypes, apiVars
  <2> QED
    BY <2>1, <2>2, QuietKeepsApi DEF apiVars
<1> QED
  BY <1>1, <1>2, RunsAgentKeepsApi, NextPageKeepsApi DEF Next, Step, Quiet

LEMMA ApiStarts == Init => ApiInv
<1> SUFFICES ASSUME Init PROVE ApiInv
  OBVIOUS
<1>1. ApiTypes
  <2>1. \A g \in Goroutines : asks[g].offset \in Nat
    <3> SUFFICES ASSUME NEW g \in Goroutines PROVE asks[g].offset \in Nat
      OBVIOUS
    <3>1. asks[g] \in Asks
      BY ApiAssumption DEF Init
    <3>2. asks[g].offset \in 0..MaxInt /\ MaxInt \in Nat
      BY <3>1, HistoryAssumption DEF Asks
    <3> QED
      BY <3>2
  <2> QED
    BY <2>1 DEF Init, ApiTypes
<1>2. HistoryInv
  <2>1. records = {} /\ recorded = 0 /\ IsFiniteSet({}) /\ Cardinality({}) <= MaxRecords
    BY FS_EmptySet, HistoryAssumption DEF Init, HistoryInit
  <2> QED
    BY <2>1 DEF HistoryInv, HistoryTypeOK, Ordered
<1>3. \A g \in Goroutines : ReaderInv(g)
  BY DEF Init, HistoryInit, ReaderInv, Asked, Matching
<1> QED
  BY <1>1, <1>2, <1>3 DEF ApiInv

LEMMA ApiInvAlways == Spec => []ApiInv
BY ApiStarts, ApiInvStep, PTL DEF Spec

\* However pages and records interleave, a reader is given every record that was there at
\* its first page and still is at its last (manager.go:66-132).
THEOREM ReadersMissNothing == Spec => []PagesMissNothing
<1>1. ApiInv => PagesMissNothing
  BY DEF ApiInv, ReaderInv, PagesMissNothing
<1> QED
  BY <1>1, ApiInvAlways, PTL

-----------------------------------------------------------------------------

\* What a step of the API is for the limiter, the reports and the cache.
LEMMA StepUsesComponents ==
  ASSUME ApiTypes, NEW g \in Goroutines, Step(g)
  PROVE  /\ [LimiterNext]_<<now, limiterVars>>
         /\ [ReportsNext]_<<now, reportVars>>
         /\ [LookupNext]_<<now, cacheVars>>
<1>1. CASE Fails(g)
  <2>1. RecordFailure(asks[g].from) /\ asks[g].from \in Addresses
    BY <1>1, AsksTyped DEF Fails
  <2>2. UNCHANGED <<now, reportVars, cacheVars>>
    BY <1>1 DEF Fails, RecordFailure
  <2> QED
    BY <2>1, <2>2 DEF LimiterNext
<1>2. CASE UsesReports(g)
  BY <1>2 DEF UsesReports, ReportsNext
<1>3. CASE Reporting(g)
  BY <1>3 DEF Reporting, ReportsNext
<1>4. CASE TakesAgent(g)
  <2>1. PICK a \in due[g] \cap asks[g].fallsBack : GetOrCreate(a)
    BY <1>4 DEF TakesAgent
  <2>2. a \in Keys
    BY ApiAssumption DEF ApiTypes
  <2>3. UNCHANGED <<now, limiterVars, reportVars>>
    BY <1>4, <2>1 DEF TakesAgent, GetOrCreate
  <2> QED
    BY <2>1, <2>2, <2>3 DEF LookupNext
<1>5. CASE \/ Exempt(g) \/ AsksLimiter(g) \/ ChecksToken(g) \/ AnswersAtOnce(g)
           \/ Trigger(g) \/ RunsAgent(g) \/ NextPage(g)
  BY <1>5 DEF Exempt, AsksLimiter, ChecksToken, AnswersAtOnce, Trigger, RunsAgent, NextPage
<1> QED
  BY <1>1, <1>2, <1>3, <1>4, <1>5 DEF Step

LEMMA ComponentSteps ==
  ApiInv /\ [Next]_vars =>
    /\ [LimiterNext]_<<now, limiterVars>>
    /\ [ReportsNext]_<<now, reportVars>>
    /\ [LookupNext]_<<now, cacheVars>>
<1> SUFFICES ASSUME ApiInv, [Next]_vars
             PROVE  /\ [LimiterNext]_<<now, limiterVars>>
                    /\ [ReportsNext]_<<now, reportVars>>
                    /\ [LookupNext]_<<now, cacheVars>>
  OBVIOUS
<1>1. CASE Ticks
  BY <1>1 DEF Ticks, LimiterNext, ReportsNext, LookupNext, TimePasses
<1>2. ASSUME NEW g \in Goroutines, Step(g)
      PROVE  /\ [LimiterNext]_<<now, limiterVars>>
             /\ [ReportsNext]_<<now, reportVars>>
             /\ [LookupNext]_<<now, cacheVars>>
  BY <1>2, StepUsesComponents DEF ApiInv
<1>3. CASE UNCHANGED vars
  BY <1>3 DEF vars
<1> QED
  BY <1>1, <1>2, <1>3 DEF Next

\* However requests and rounds interleave, the cache of the executor sees lookups one
\* by one (executor.go:80-96).
THEOREM ImplementsLookups == Spec => LookupSpec
<1>1. Init => ClockInit /\ CacheInit
  BY DEF Init
<1> QED
  BY <1>1, ApiInvAlways, ComponentSteps, PTL DEF Spec, LookupSpec

\* All that authCheck and the handlers do is for the limiter a failure of one of its
\* addresses, or nothing (auth.go:214-225).
THEOREM ImplementsLimiter == Spec => LimiterSpec
<1>1. Init => ClockInit /\ LimiterInit
  BY DEF Init
<1> QED
  BY <1>1, ApiInvAlways, ComponentSteps, PTL DEF Spec, LimiterSpec

\* All that the handlers and rounds do is for the report files a step of a method of
\* their manager, or nothing (server.go:382-524).
THEOREM ImplementsReports == Spec => ReportsSpec
<1>1. Init => ClockInit /\ ReportsInit
  BY DEF Init
<1> QED
  BY <1>1, ApiInvAlways, ComponentSteps, PTL DEF Spec, ReportsSpec

\* Behind the API, too, an agent since whose last use fewer than MaxSize others were
\* used is still in the cache.
THEOREM RecentKept == Spec => []RecentlyUsedKept
BY ImplementsLookups, LookupsKeepRecent, PTL

\* Behind authCheck an address is blocked exactly if too many of its failures lay within
\* a window and the last of them is less than a block's time ago (auth.go:136-172).
THEOREM Blocked == Spec => []BlockedIffTooManyFailures
BY ImplementsLimiter, BlockedExactly, PTL

\* Requests and rounds, however they overlap, remove no report but one that as many newer
\* ones outlive as are kept (report.go:53-67).
THEOREM WantedStay == Spec => NewestKept
BY ImplementsReports, RemovalsAreOutlived, PTL

\* When no save is under way there are no more reports than are kept, but for those
\* that were written by others, or could not be removed, since a save last read the
\* directory (report.go:52-66 and 178-206).
THEOREM NoneTooMany == Spec => []PrunedAtRest
BY ImplementsReports, RestIsPruned, PTL

\* Latest answers a request with the report that was the newest when it read the
\* directory, unless as many newer ones as are kept are there by now (report.go:70-112
\* and 208-218).
THEOREM NewestReturned == Spec => []LatestUnlessOvertaken
BY ImplementsReports, LatestFound, PTL

\* All variables of the API and its components keep their types; of those, the cache and
\* the history never hold more than their caps (cache.go:70-100, manager.go:83-92).
THEOREM TypeCorrect == Spec => []TypeOK
<1>1. LookupSpec => []CacheTypeOK
  <2>1. CacheInv /\ [LookupNext]_<<now, cacheVars>> => CacheInv'
    BY CacheInvStep DEF CacheNext
  <2>2. ClockInit /\ CacheInit => CacheInv
    BY CacheStarts
  <2>3. CacheInv => CacheTypeOK
    BY DEF CacheInv
  <2> QED
    BY <2>1, <2>2, <2>3, PTL DEF LookupSpec
<1>2. LimiterTypeOK /\ ReportsTypeOK /\ CacheTypeOK /\ ApiInv => TypeOK
  BY DEF ApiInv, ApiTypes, HistoryInv, TypeOK
<1> QED
  BY <1>1, <1>2, LimiterTyped, ReportsTyped, ApiInvAlways, ImplementsLookups,
     ImplementsLimiter, ImplementsReports, PTL
=============================================================================

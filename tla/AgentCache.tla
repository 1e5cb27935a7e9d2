---------------------------- MODULE AgentCache ----------------------------
(***************************************************************************)
(* AgentCache of internal/agent/cache.go: the ReAct agents an executor     *)
(* keeps for attempts whose self-driven worker has failed.  Each method    *)
(* holds the one mutex, and GetOrCreate runs the factory under it, which   *)
(* is buildWorkerAgent and never fails: a call is one step.                *)
(*                                                                         *)
(* The program only calls GetOrCreate (LookupSpec); CacheSpec lets anyone  *)
(* call any method.                                                        *)
(***************************************************************************)
EXTENDS Clock, FiniteSets

CONSTANTS
  Keys,           \* the names of agents
  MaxSize,        \* 10
  TTL,            \* 3600
  Idle            \* 600

\* NewAgentCache replaces what is not positive.
ASSUME CacheAssumption ==
  IsFiniteSet(Keys) /\ {MaxSize, TTL, Idle} \subseteq Nat \ {0}

VARIABLES
  cache,          \* the agents there are, with CreatedAt and LastUsed
  lastUse         \* history: when each was last asked for, if ever

cacheVars == <<cache, lastUse>>

Never == -1

Entries == [created : Nat, used : Nat]

CacheTypeOK ==
  /\ DOMAIN cache \subseteq Keys
  /\ cache \in [DOMAIN cache -> Entries]
  /\ Cardinality(DOMAIN cache) <= MaxSize
  /\ lastUse \in [Keys -> Nat \cup {Never}]

CacheInit ==
  /\ cache = [a \in {} |-> [created |-> 0, used |-> 0]]
  /\ lastUse = [a \in Keys |-> Never]

Hit(a) == a \in DOMAIN cache /\ now <= cache[a].created + TTL

Keep(names) == [a \in names |-> cache[a]]

\* Those evictOldestLocked may find, in the order a Go map happens to have.
LeastRecent(names) == {a \in names : \A b \in names : cache[a].used <= cache[b].used}

-----------------------------------------------------------------------------

\* Mutant of Create.
CreateEvictingNewest(a) ==
  LET others == DOMAIN cache \ {a}
      Newest == {b \in others : \A c \in others : cache[c].used <= cache[b].used}
      victims == IF Cardinality(others) < MaxSize THEN {a} ELSE Newest
  IN \E v \in victims :
       cache' = [b \in (others \ {v}) \cup {a} |->
                   IF b = a THEN [created |-> now, used |-> now] ELSE cache[b]]

\* An expired instance goes first.  There never being more than MaxSize, the
\* eviction loop runs once if at all.
Create(a) ==
  LET others == DOMAIN cache \ {a}
      victims == IF Cardinality(others) < MaxSize THEN {a} ELSE LeastRecent(others)
  IN \E v \in victims :
       cache' = [b \in (others \ {v}) \cup {a} |->
                   IF b = a THEN [created |-> now, used |-> now] ELSE cache[b]]

GetOrCreate(a) ==
  /\ IF Hit(a) THEN cache' = [cache EXCEPT ![a].used = now] ELSE Create(a)
  /\ lastUse' = [lastUse EXCEPT ![a] = now]
  /\ UNCHANGED now

\* Remove, Clear and CleanupIdle: called by tests only.
RemoveEntry(a) == cache' = Keep(DOMAIN cache \ {a}) /\ UNCHANGED <<now, lastUse>>

Clear == cache' = Keep({}) /\ UNCHANGED <<now, lastUse>>

CleanupIdle ==
  /\ cache' = Keep({a \in DOMAIN cache : now <= cache[a].used + Idle})
  /\ UNCHANGED <<now, lastUse>>

TimePasses == Tick /\ UNCHANGED cacheVars

LookupNext == TimePasses \/ \E a \in Keys : GetOrCreate(a)

LookupSpec == ClockInit /\ CacheInit /\ [][LookupNext]_<<now, cacheVars>>

CacheNext == LookupNext \/ Clear \/ CleanupIdle \/ \E a \in Keys : RemoveEntry(a)

CacheSpec == ClockInit /\ CacheInit /\ [][CacheNext]_<<now, cacheVars>>

-----------------------------------------------------------------------------

\* Who was asked for no earlier than a was last.
AskedSince(a) == {b \in Keys \ {a} : lastUse[b] >= lastUse[a]}

\* An agent since whose last use fewer than MaxSize others were used is still
\* there, as the instance that was handed out then, which had not outlived TTL:
\* neither eviction, with the ties the clock leaves it, nor expiry nor the order
\* of overlapping executions takes away what is in use or hands out what is old
\* (cache.go:50-100).
RecentlyUsedKept ==
  \A a \in Keys :
    lastUse[a] # Never /\ Cardinality(AskedSince(a)) < MaxSize =>
      /\ a \in DOMAIN cache
      /\ cache[a].used = lastUse[a]
      /\ lastUse[a] <= cache[a].created + TTL
=============================================================================

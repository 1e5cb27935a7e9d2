------------------------------ MODULE RWMutex ------------------------------
(***************************************************************************)
(* sync.RWMutex, which mcp.Registry and mcp.Runtime lock their maps with.  *)
(* Any number of goroutines may read, or one may write.  A goroutine that  *)
(* asks to write keeps new readers out from then on, also those that read  *)
(* already.                                                                *)
(***************************************************************************)
CONSTANT Locks    \* the mutexes

VARIABLES
  readers,        \* goroutines that hold each lock to read
  writers,        \* goroutines that asked to write, and those that do
  writing         \* the goroutine that writes, if any

lockVars == <<readers, writers, writing>>

\* The types, for a set of goroutines.
LocksTypeOK(G) ==
  /\ readers \in [Locks -> SUBSET G]
  /\ writers \in [Locks -> SUBSET G]
  /\ writing \in [Locks -> SUBSET G]

LocksInit ==
  /\ readers = [l \in Locks |-> {}]
  /\ writers = [l \in Locks |-> {}]
  /\ writing = [l \in Locks |-> {}]

\* Whether RLock would return at once.
Readable(l) == writers[l] = {}

RLock(g, l) ==
  /\ Readable(l)
  /\ readers' = [readers EXCEPT ![l] = @ \cup {g}]
  /\ UNCHANGED <<writers, writing>>

RUnlock(g, l) ==
  /\ readers' = [readers EXCEPT ![l] = @ \ {g}]
  /\ UNCHANGED <<writers, writing>>

\* Lock is two steps: shut new readers out, then wait for those there are.
AskToWrite(g, l) ==
  /\ writers' = [writers EXCEPT ![l] = @ \cup {g}]
  /\ UNCHANGED <<readers, writing>>

Lock(g, l) ==
  /\ g \in writers[l]
  /\ readers[l] = {} /\ writing[l] = {}
  /\ writing' = [writing EXCEPT ![l] = {g}]
  /\ UNCHANGED <<readers, writers>>

\* Unlock of every lock in held, by the goroutine that writes under them.
Unlock(g, held) ==
  /\ writers' = [l \in Locks |-> IF l \in held THEN writers[l] \ {g} ELSE writers[l]]
  /\ writing' = [l \in Locks |-> IF l \in held THEN writing[l] \ {g} ELSE writing[l]]
  /\ UNCHANGED readers
=============================================================================

----------------------- MODULE ConcurrencyController -----------------------
(***************************************************************************)
(* WithAgentSlot of internal/runtime/production.go: a buffered channel     *)
(* whose capacity is the number of agent slots, and the set of names shown *)
(* as active on /health and /metrics.                                      *)
(*                                                                         *)
(* A call waits for a slot or for its context; with a slot it enters its   *)
(* agent's name in the set, runs its function, and on the way out, defers  *)
(* being LIFO, deletes the name and then gives the slot back.  Each of     *)
(* these is one action: other calls run between any two of them.           *)
(***************************************************************************)
EXTENDS Integers, FiniteSets

CONSTANTS
  Calls,          \* calls of WithAgentSlot that may be in progress together
  AgentOf,        \* the agentName argument of each call
  MaxAgents       \* cfg.MaxConcurrentAgents, the capacity of agentCh

\* settings.go lets only a positive capacity through; with 0 the channel would
\* be unbuffered and no call would ever get a slot.
ASSUME ControllerAssumption ==
  /\ IsFiniteSet(Calls)
  /\ DOMAIN AgentOf = Calls
  /\ MaxAgents \in Nat \ {0}

VARIABLES
  agentCh,        \* len(agentCh)
  activeAgents,   \* the keys of ConcurrencyController.activeAgents
  slot            \* where each call is inside WithAgentSlot

slotVars == <<agentCh, activeAgents, slot>>

SlotStates == {"outside", "waiting", "acquired", "running", "unlisted"}

SlotTypeOK ==
  /\ agentCh \in Nat
  /\ activeAgents \in SUBSET {AgentOf[c] : c \in Calls}
  /\ slot \in [Calls -> SlotStates]

SlotInit ==
  /\ agentCh = 0
  /\ activeAgents = {}
  /\ slot = [c \in Calls |-> "outside"]

Holders == {c \in Calls : slot[c] \in {"acquired", "running", "unlisted"}}
Running == {c \in Calls : slot[c] = "running"}

Move(c, from, to) ==
  /\ slot[c] = from
  /\ slot' = [slot EXCEPT ![c] = to]

-----------------------------------------------------------------------------

\* Mutants of the steps below, used to show what the properties detect.
ReleaseKeepsToken(c) ==
  /\ Move(c, "unlisted", "outside")
  /\ UNCHANGED <<agentCh, activeAgents>>

-----------------------------------------------------------------------------

Enter(c) ==
  /\ Move(c, "outside", "waiting")
  /\ UNCHANGED <<agentCh, activeAgents>>

\* case c.agentCh <- struct{}{}
Acquire(c) ==
  /\ agentCh < MaxAgents
  /\ Move(c, "waiting", "acquired")
  /\ agentCh' = agentCh + 1
  /\ UNCHANGED activeAgents

\* case <-ctx.Done(): possible whether or not a slot is free, since select
\* picks any ready case.  The caller says when the context may be done.
GiveUp(c) ==
  /\ Move(c, "waiting", "outside")
  /\ UNCHANGED <<agentCh, activeAgents>>

List(c) ==
  /\ Move(c, "acquired", "running")
  /\ activeAgents' = activeAgents \cup {AgentOf[c]}
  /\ UNCHANGED agentCh

\* The deferred delete, when fn has returned.
Unlist(c) ==
  /\ Move(c, "running", "unlisted")
  /\ activeAgents' = activeAgents \ {AgentOf[c]}
  /\ UNCHANGED agentCh

\* The deferred receive.
Release(c) ==
  /\ Move(c, "unlisted", "outside")
  /\ agentCh' = agentCh - 1
  /\ UNCHANGED activeAgents

SlotStep(c) ==
  \/ Enter(c) \/ Acquire(c) \/ GiveUp(c)
  \/ List(c) \/ Unlist(c) \/ Release(c)

SlotNext == \E c \in Calls : SlotStep(c)

SlotSpec == SlotInit /\ [][SlotNext]_slotVars

-----------------------------------------------------------------------------

\* The channel holds exactly one token per call between its acquisition and
\* its release, and never more than its capacity: no path leaks or returns a
\* slot twice (production.go:115-134).
SlotsAccounted ==
  /\ agentCh = Cardinality(Holders)
  /\ agentCh <= MaxAgents

\* A name shown as active belongs to a call that is running; together with
\* SlotsAccounted no more names are shown than there are slots.  The
\* converse does not hold: a call of the same agent that ends takes its name away.
NoGhostAgents ==
  activeAgents \subseteq {AgentOf[c] : c \in Running}
=============================================================================

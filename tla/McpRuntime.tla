----------------------------- MODULE McpRuntime -----------------------------
(***************************************************************************)
(* Runtime (internal/mcp/client.go) and Registry (internal/mcp/registry.go)*)
(* over the clients of McpClient: InitializeMCP connects the configured    *)
(* servers one by one and publishes their tools, agents then call and list *)
(* them, and ShutdownMCP closes every client.                              *)
(*                                                                         *)
(* Main is the goroutine that initializes and shuts down.  A member of     *)
(* Calls is one use of a tool of CreateMCPToolFunction, a member of        *)
(* Listers one call of MCPToolsAsAgentTools.                               *)
(***************************************************************************)
EXTENDS McpClient, RWMutex

CONSTANTS
  Configs,        \* the enabled servers, in the order of the file
  Tools,
  Offers,         \* the tools each server lists
  Main, Calls, Listers,
  ToolOf          \* the tool each call uses

ASSUME RuntimeAssumption ==
  /\ Configs \in Seq(Servers)
  /\ Offers \in [Servers -> SUBSET Tools]
  /\ ToolOf \in [Calls -> Tools]
  /\ Locks = {"registry", "runtime"}
  /\ Goroutines = {Main} \cup Calls \cup Listers
  /\ Main \notin Calls \cup Listers
  /\ Calls \cap Listers = {}

VARIABLES
  pc,             \* where each goroutine is
  todo,           \* what Initialize has left of Configs
  runtime,        \* Registry.runtime: is it non-nil?
  clients,        \* Runtime.clients: the servers that have one
  route,          \* Runtime.server: for each tool, its server, if any
  target          \* for each call, the server whose client it uses

mapVars == <<todo, runtime, clients, route, target>>
vars == <<clientVars, lockVars, pc, mapVars>>

Initializing == {"connect", "handshake", "shaking", "list", "listing"}
Closing == {"closing", "closingRuntime", "closingClients"}

\* Where a goroutine may be.
MainLocations == Initializing \cup {"serving", "closed"} \cup Closing
CallLocations == {"idle", "begun", "found", "routed", "locked", "sent", "done"}
ListLocations == {"idle", "begun", "reading", "read", "done"}

TypeOK ==
  /\ ClientTypeOK
  /\ LocksTypeOK(Goroutines)
  /\ pc \in [Goroutines -> MainLocations \cup CallLocations \cup ListLocations]
  /\ pc[Main] \in MainLocations
  /\ \A c \in Calls : pc[c] \in CallLocations
  /\ \A l \in Listers : pc[l] \in ListLocations
  /\ todo \in Seq(Servers)
  /\ runtime \in BOOLEAN
  /\ clients \in SUBSET Servers
  /\ route \in [Tools -> SUBSET Servers]
  /\ target \in [Calls -> SUBSET Servers]
  /\ \A t \in Tools : route[t] \subseteq clients

Init ==
  /\ ClientInit
  /\ LocksInit
  /\ pc = [g \in Goroutines |-> IF g = Main THEN "connect" ELSE "idle"]
  /\ todo = Configs
  /\ runtime = FALSE
  /\ clients = {}
  /\ route = [t \in Tools |-> {}]
  /\ target = [c \in Calls |-> {}]

Goto(g, from, to) ==
  /\ pc[g] = from
  /\ pc' = [pc EXCEPT ![g] = to]

-----------------------------------------------------------------------------

\* Mutants of the steps below, used to show what the properties detect.
InitializeReturnsUncancelled ==
  /\ todo = <<>>
  /\ Goto(Main, "connect", "serving")
  /\ runtime' = (Configs # <<>>)
  /\ UNCHANGED <<clientVars, lockVars, todo, clients, route, target>>

CallAsksUnlocked(c) ==
  /\ Goto(c, "locked", "sent")
  /\ \E s \in Servers :
       /\ target[c] = {s}
       /\ s \in Stdio => connected[s]
       /\ SendWrites(c, s)
       /\ UnlockClient(c, s)
  /\ UNCHANGED <<connected, process, ctxDone, lockVars, mapVars>>

CallHearsLocked(c) ==
  /\ Goto(c, "sent", "done")
  /\ \E s \in Servers :
       /\ target[c] = {s}
       /\ Answered(c, s)
       /\ IF heard'[c].is = "error" THEN UNCHANGED holder ELSE UnlockClient(c, s)
  /\ UNCHANGED <<connected, process, id, ctxDone, asked, lockVars, mapVars>>

-----------------------------------------------------------------------------

\* Runtime.Initialize, by Main alone: neither the registry nor the runtime is
\* shared before InitializeMCP returns.

\* The server Initialize is at.
Current == Head(todo)

\* What Main reads; a request by HTTP fails when its context is done.
MainHears ==
  /\ Answered(Main, Current)
  /\ ctxDone /\ Current \notin Stdio => heard'[Main].is = "error"

\* Connect fails: the client is dropped and the next server tried.
NextServer ==
  /\ pc' = [pc EXCEPT ![Main] = "connect"]
  /\ todo' = Tail(todo)
  /\ UnlockClient(Main, Current)

\* The process is started under the context of Initialize, with new pipes; a
\* client for HTTP has nothing to start.
ConnectStarts ==
  /\ todo # <<>>
  /\ Goto(Main, "connect", "handshake")
  /\ LockClient(Main, Current)
  /\ IF Current \in Stdio
     THEN /\ ~ctxDone
          /\ connected' = [connected EXCEPT ![Current] = TRUE]
          /\ process' = [process EXCEPT ![Current] = "up"]
          /\ toServer' = [toServer EXCEPT ![Current] = <<>>]
          /\ fromServer' = [fromServer EXCEPT ![Current] = <<>>]
     ELSE UNCHANGED <<connected, process, toServer, fromServer>>
  /\ UNCHANGED <<id, chattered, ctxDone, asked, heard, lockVars, mapVars>>

\* The command cannot be started: c.cmd stays set, the client is dropped.
ConnectFails ==
  /\ pc[Main] = "connect" /\ todo # <<>>
  /\ Current \in Stdio
  /\ connected' = [connected EXCEPT ![Current] = TRUE]
  /\ todo' = Tail(todo)
  /\ UNCHANGED <<holder, process, id, pipeVars, ctxDone, asked, heard, lockVars,
                 pc, runtime, clients, route, target>>

AskHandshake ==
  /\ Goto(Main, "handshake", "shaking")
  /\ SendWrites(Main, Current)
  /\ UNCHANGED <<holder, connected, process, ctxDone, lockVars, mapVars>>

\* A failed handshake kills the process.
HearHandshake ==
  /\ pc[Main] = "shaking"
  /\ MainHears
  /\ \/ /\ heard'[Main].is = "result"
        /\ Goto(Main, "shaking", "list")
        /\ UNCHANGED <<holder, process, todo>>
     \/ /\ heard'[Main].is = "error"
        /\ NextServer
        /\ Kill(Current)
  /\ UNCHANGED <<connected, id, ctxDone, asked, lockVars, runtime, clients, route,
                 target>>

AskTools ==
  /\ Goto(Main, "list", "listing")
  /\ SendWrites(Main, Current)
  /\ UNCHANGED <<holder, connected, process, ctxDone, lockVars, mapVars>>

\* A failed listing leaves the process to the context.  Any other line connects
\* the client, with the tools of the server if it is the answer and none if not.
HearTools ==
  LET found == IF heard'[Main].re = asked[Main] THEN Offers[Current] ELSE {} IN
  /\ pc[Main] = "listing"
  /\ MainHears
  /\ NextServer
  /\ IF heard'[Main].is = "result"
     THEN /\ clients' = clients \cup {Current}
          /\ route' = [t \in Tools |-> IF t \in found THEN {Current} ELSE route[t]]
     ELSE UNCHANGED <<clients, route>>
  /\ UNCHANGED <<connected, process, id, ctxDone, asked, lockVars, runtime, target>>

\* Thirty seconds have passed.
InitializeTimesOut ==
  /\ pc[Main] \in Initializing /\ ~ctxDone
  /\ ctxDone' = TRUE
  /\ UNCHANGED <<holder, connected, process, id, pipeVars, asked, heard, lockVars,
                 pc, mapVars>>

\* The deferred cancel, and InitializeMCP publishes the runtime.
InitializeReturns ==
  /\ todo = <<>>
  /\ Goto(Main, "connect", "serving")
  /\ ctxDone' = TRUE
  /\ runtime' = (Configs # <<>>)
  /\ UNCHANGED <<holder, connected, process, id, pipeVars, asked, heard, lockVars,
                 todo, clients, route, target>>

-----------------------------------------------------------------------------

\* A tool call: the registry's lock, the runtime's, then the client's.

Uses(c, s) == target[c] = {s}

Call(c) ==
  /\ pc[Main] \notin Initializing
  /\ Goto(c, "idle", "begun")
  /\ UNCHANGED <<clientVars, lockVars, mapVars>>

\* RLock, read and RUnlock of the registry in one step.
FindRuntime(c) ==
  /\ Readable("registry")
  /\ Goto(c, "begun", IF runtime THEN "found" ELSE "done")
  /\ UNCHANGED <<clientVars, lockVars, mapVars>>

FindClient(c) ==
  /\ Readable("runtime")
  /\ Goto(c, "found", IF route[ToolOf[c]] # {} THEN "routed" ELSE "done")
  /\ target' = [target EXCEPT ![c] = route[ToolOf[c]]]
  /\ UNCHANGED <<clientVars, lockVars, todo, runtime, clients, route>>

CallLocks(c) ==
  /\ Goto(c, "routed", "locked")
  /\ \E s \in Servers : Uses(c, s) /\ LockClient(c, s)
  /\ UNCHANGED <<connected, process, id, pipeVars, ctxDone, asked, heard, lockVars,
                 mapVars>>

CallAsks(c) ==
  /\ Goto(c, "locked", "sent")
  /\ \E s \in Servers :
       /\ Uses(c, s)
       /\ s \in Stdio => connected[s]
       /\ SendWrites(c, s)
  /\ UNCHANGED <<holder, connected, process, ctxDone, lockVars, mapVars>>

\* The client was closed before the call had its lock.
CallRefused(c) ==
  /\ Goto(c, "locked", "done")
  /\ \E s \in Stdio : Uses(c, s) /\ ~connected[s] /\ UnlockClient(c, s)
  /\ UNCHANGED <<connected, process, id, pipeVars, ctxDone, asked, heard, lockVars,
                 mapVars>>

CallHears(c) ==
  /\ Goto(c, "sent", "done")
  /\ \E s \in Servers : Uses(c, s) /\ Answered(c, s) /\ UnlockClient(c, s)
  /\ UNCHANGED <<connected, process, id, ctxDone, asked, lockVars, mapVars>>

-----------------------------------------------------------------------------

\* MCPToolsAsAgentTools locks the registry to read and, inside, lets ListTools
\* lock it to read once more.

List(l) ==
  /\ pc[Main] \notin Initializing
  /\ Goto(l, "idle", "begun")
  /\ UNCHANGED <<clientVars, lockVars, mapVars>>

ListLocks(l) ==
  /\ Goto(l, "begun", "reading")
  /\ RLock(l, "registry")
  /\ UNCHANGED <<clientVars, mapVars>>

ListReads(l) ==
  /\ Readable("registry")
  /\ Goto(l, "reading", "read")
  /\ UNCHANGED <<clientVars, lockVars, mapVars>>

ListEnds(l) ==
  /\ Goto(l, "read", "done")
  /\ RUnlock(l, "registry")
  /\ UNCHANGED <<clientVars, mapVars>>

-----------------------------------------------------------------------------

\* ShutdownMCP and, under its lock, Runtime.Shutdown.

Shutdown ==
  /\ Goto(Main, "serving", "closing")
  /\ AskToWrite(Main, "registry")
  /\ UNCHANGED <<clientVars, mapVars>>

ShutdownLocks ==
  /\ Goto(Main, "closing", "closingRuntime")
  /\ Lock(Main, "registry")
  /\ UNCHANGED <<clientVars, mapVars>>

\* Nothing holds the runtime's lock for longer than a read.
RuntimeLocks ==
  /\ Goto(Main, "closingRuntime", "closingClients")
  /\ writers' = [writers EXCEPT !["runtime"] = {Main}]
  /\ writing' = [writing EXCEPT !["runtime"] = {Main}]
  /\ UNCHANGED <<clientVars, readers, mapVars>>

\* Mutant of CloseClient.
CloseClientAtOnce(s) ==
  /\ pc[Main] = "closingClients"
  /\ s \in clients \cap Stdio
  /\ connected[s]
  /\ connected' = [connected EXCEPT ![s] = FALSE]
  /\ Kill(s)
  /\ UNCHANGED <<holder, id, pipeVars, ctxDone, asked, heard, lockVars, pc, mapVars>>

\* Close of one client, in any order: it waits for the call that holds c.mu, but
\* for HTTP, where it does nothing.
CloseClient(s) ==
  /\ pc[Main] = "closingClients"
  /\ s \in clients \cap Stdio
  /\ connected[s]
  /\ holder[s] = {}
  /\ connected' = [connected EXCEPT ![s] = FALSE]
  /\ Kill(s)
  /\ UNCHANGED <<holder, id, pipeVars, ctxDone, asked, heard, lockVars, pc, mapVars>>

ShutdownReturns ==
  /\ Goto(Main, "closingClients", "closed")
  /\ \A s \in clients \cap Stdio : ~connected[s]
  /\ clients' = {}
  /\ route' = [t \in Tools |-> {}]
  /\ runtime' = FALSE
  /\ Unlock(Main, Locks)
  /\ UNCHANGED <<clientVars, todo, target>>

-----------------------------------------------------------------------------

Initialize ==
  \/ ConnectStarts \/ ConnectFails
  \/ AskHandshake \/ HearHandshake \/ AskTools \/ HearTools
  \/ InitializeReturns

Close ==
  \/ ShutdownLocks \/ RuntimeLocks
  \/ \E s \in Servers : CloseClient(s)
  \/ ShutdownReturns

Proceed(c) ==
  \/ FindRuntime(c) \/ FindClient(c)
  \/ CallLocks(c) \/ CallAsks(c) \/ CallRefused(c) \/ CallHears(c)

ProceedListing(l) == ListLocks(l) \/ ListReads(l) \/ ListEnds(l)

Next ==
  \/ Initialize \/ InitializeTimesOut
  \/ \E c \in Calls : Call(c) \/ Proceed(c)
  \/ \E l \in Listers : List(l) \/ ProceedListing(l)
  \/ Shutdown \/ Close
  \/ ServerNext /\ UNCHANGED <<lockVars, pc, mapVars>>

\* Fairness: a goroutine that can run is run, a response to a POST comes or its
\* client gives up after a minute, a context is done after its timeout, and a
\* process whose context is done is killed.  Nothing obliges a server to answer,
\* an agent to call, or the program to shut down.
Fairness ==
  /\ WF_vars(Initialize)
  /\ WF_vars(InitializeTimesOut)
  /\ \A c \in Calls : WF_vars(Proceed(c))
  /\ \A l \in Listers : WF_vars(ProceedListing(l))
  /\ WF_vars(Close)
  /\ \A s \in Stdio :
       WF_vars(KilledByContext(s) /\ UNCHANGED <<lockVars, pc, mapVars>>)

SafeSpec == Init /\ [][Next]_vars

Spec == SafeSpec /\ Fairness

-----------------------------------------------------------------------------

\* A call that returns a result returns the answer to its own request, as long
\* as its server writes nothing it was not asked for: send compares no id
\* (client.go:176-200), so this rests on no two requests being under way on one
\* pipe and on every request that was written being waited for.
OwnAnswers ==
  \A c \in Calls :
    pc[c] = "done" /\ heard[c].is = "result" /\ target[c] \cap chattered = {}
      => heard[c].re = asked[c]

\* The shutdown takes its process from no call that waits for an answer, and no client
\* that is being called is taken for one that was never connected: Close has c.mu
\* first, which a call keeps from before its request (client.go:203-231, 262-275).
ShutdownInterruptsNobody ==
  \A c \in Calls, s \in Stdio : pc[c] = "sent" /\ Uses(c, s) => connected[s]

\* What ShutdownMCP may have to wait for is first who lists tools already, then the
\* answers to calls: while it closes the clients nobody else holds the mutex of one,
\* and a call that does has come past the locks that are taken from it
\* (registry.go:257-264 and 309-312, client.go:203-231 and 462-471).
ShutdownWaitsForTheseOnly ==
  /\ pc[Main] = "closing" =>
       \A g \in readers["registry"] : g \in Listers /\ pc[g] \in {"reading", "read"}
  /\ pc[Main] = "closingClients" =>
       \A s \in Servers : \A g \in holder[s] : g \in Calls /\ pc[g] \in {"locked", "sent"}

\* The shutdown waits for listings that are under way and for the calls that are with a
\* client, whom it takes nothing from, and for nobody else.
ShutdownLetsCallsEnd == ShutdownInterruptsNobody /\ ShutdownWaitsForTheseOnly

\* ShutdownMCP has asked for the registry's lock between the two that a lister takes to
\* read, one inside the other: neither goes on (registry.go:259 and 310-311).
Deadlocked == pc[Main] = "closing" /\ \E l \in Listers : pc[l] = "reading"

\* A tool call returns, also when its server never answers: what ends it is the
\* death of the process (client.go:203-231, which takes no notice of ctx).  The deadlock
\* of shutdown and listing keeps no call but those that come to the registry's lock
\* after it.
CallsAnswered ==
  \A c \in Calls :
    pc[c] = "begun" ~> pc[c] = "done" \/ (pc[c] = "begun" /\ Deadlocked)

\* ShutdownMCP returns although it waits, under two locks, for the mutex of every
\* client a call may hold (registry.go:257-264, client.go:462-471), unless it met a
\* listing between its two locks.
ShutdownEnds == pc[Main] = "closing" ~> pc[Main] = "closed" \/ Deadlocked

\* No server outlives the registry, those neither whose client was dropped when
\* it failed to list its tools, which nothing closes (client.go:109-112, 446-448).
ProcessesEnd ==
  pc[Main] = "closed" ~> [](\A s \in Stdio : process[s] # "up")

\* registry.go:267: "If Registry has runtime via InitializeMCP, actually calls
\* MCP server": a server that does not exit by itself is there to be called.
ServersStay ==
  runtime => \A s \in (clients \cap Stdio) \ Unstable : connected[s] => process[s] = "up"
=============================================================================

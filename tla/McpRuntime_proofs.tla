------------------------- MODULE McpRuntime_proofs -------------------------
(***************************************************************************)
(* Proofs about McpRuntime, for any servers, configurations, tools and     *)
(* goroutines: types, and that a call whose server writes only when asked  *)
(* gets the answer to its own request.                                     *)
(***************************************************************************)
EXTENDS McpRuntime, SequenceTheorems, TLAPS

\* The goroutines and the servers, by their parts.
LEMMA Members ==
  /\ Main \in Goroutines /\ Calls \subseteq Goroutines /\ Listers \subseteq Goroutines
  /\ Main \notin Calls /\ Main \notin Listers /\ Calls \cap Listers = {}
  /\ Stdio \subseteq Servers /\ Chatty \subseteq Stdio
BY RuntimeAssumption, ClientAssumption

-----------------------------------------------------------------------------

\* Initialize is at a server while it connects one.
AtServer == pc[Main] \in Initializing \ {"connect"} => todo # <<>>

Typed == TypeOK /\ AtServer

\* The conjuncts of TypeOK by what changes them.
PcType ==
  /\ pc \in [Goroutines -> MainLocations \cup CallLocations \cup ListLocations]
  /\ pc[Main] \in MainLocations
  /\ \A c \in Calls : pc[c] \in CallLocations
  /\ \A l \in Listers : pc[l] \in ListLocations

MapsType ==
  /\ todo \in Seq(Servers)
  /\ runtime \in BOOLEAN
  /\ clients \in SUBSET Servers
  /\ route \in [Tools -> SUBSET Servers]
  /\ target \in [Calls -> SUBSET Servers]
  /\ \A t \in Tools : route[t] \subseteq clients

\* TypeOK is the conjunction of its parts.
LEMMA TypeParts ==
  TypeOK <=> ClientTypeOK /\ LocksTypeOK(Goroutines) /\ PcType /\ MapsType
BY DEF TypeOK, PcType, MapsType

\* The steps of a goroutine on a client keep its types.
LEMMA SendsKeepType ==
  ASSUME ClientTypeOK, NEW g \in Goroutines, NEW s \in Servers
  PROVE  /\ SendWrites(g, s) =>
              /\ id' \in [Servers -> Nat]
              /\ asked' \in [Goroutines -> Nat]
              /\ heard' \in [Goroutines -> Lines \cup {Awaited}]
              /\ toServer' \in [Servers -> Seq(Nat \ {0})]
              /\ fromServer' \in [Servers -> Seq(Lines)]
              /\ chattered' \in SUBSET Chatty
         /\ Answered(g, s) =>
              /\ heard' \in [Goroutines -> Lines \cup {Awaited}]
              /\ toServer' \in [Servers -> Seq(Nat \ {0})]
              /\ fromServer' \in [Servers -> Seq(Lines)]
              /\ chattered' \in SUBSET Chatty
<1> USE DEF ClientTypeOK
<1>0. Failed \in Lines /\ id[s] + 1 \in Nat \ {0}
  BY DEF Failed, Lines
<1>1. ASSUME SendWrites(g, s)
      PROVE  /\ id' \in [Servers -> Nat] /\ asked' \in [Goroutines -> Nat]
             /\ heard' \in [Goroutines -> Lines \cup {Awaited}]
             /\ toServer' \in [Servers -> Seq(Nat \ {0})]
             /\ fromServer' \in [Servers -> Seq(Lines)]
             /\ chattered' \in SUBSET Chatty
  <2>1. id' \in [Servers -> Nat] /\ asked' \in [Goroutines -> Nat]
    BY <1>0, <1>1 DEF SendWrites
  <2>2. heard' \in [Goroutines -> Lines \cup {Awaited}]
    BY <1>0, <1>1 DEF SendWrites
  <2>3. Append(toServer[s], id[s] + 1) \in Seq(Nat \ {0})
    BY <1>0
  <2>4. toServer' \in [Servers -> Seq(Nat \ {0})]
    <3> DEFINE q == IF s \in Stdio THEN Append(toServer[s], id[s] + 1) ELSE toServer[s]
    <3>1. toServer' = toServer \/ toServer' = [toServer EXCEPT ![s] = q]
      BY <1>1 DEF SendWrites
    <3>2. q \in Seq(Nat \ {0})
      BY <2>3
    <3> QED
      BY <3>1, <3>2
  <2>5. UNCHANGED <<fromServer, chattered>>
    BY <1>1 DEF SendWrites
  <2> QED
    BY <2>1, <2>2, <2>4, <2>5
<1>2. ASSUME SendReads(g, s)
      PROVE  /\ heard' \in [Goroutines -> Lines \cup {Awaited}]
             /\ toServer' \in [Servers -> Seq(Nat \ {0})]
             /\ fromServer' \in [Servers -> Seq(Lines)]
             /\ chattered' \in SUBSET Chatty
  <2>1. fromServer[s] # <<>> => Head(fromServer[s]) \in Lines /\ Tail(fromServer[s]) \in Seq(Lines)
    OBVIOUS
  <2>2. UNCHANGED <<toServer, chattered>>
    BY <1>2 DEF SendReads
  <2>3. heard' \in [Goroutines -> Lines \cup {Awaited}]
    BY <1>0, <1>2, <2>1 DEF SendReads
  <2>4. \/ UNCHANGED fromServer
        \/ /\ fromServer[s] # <<>>
           /\ fromServer' = [fromServer EXCEPT ![s] = Tail(fromServer[s])]
    BY <1>2 DEF SendReads
  <2>5. fromServer' \in [Servers -> Seq(Lines)]
    BY <2>1, <2>4
  <2> QED
    BY <2>2, <2>3, <2>5
<1>3. ASSUME PostReturns(g, s)
      PROVE  /\ heard' \in [Goroutines -> Lines \cup {Awaited}]
             /\ toServer' \in [Servers -> Seq(Nat \ {0})]
             /\ fromServer' \in [Servers -> Seq(Lines)]
             /\ chattered' \in SUBSET Chatty
  BY <1>3 DEF PostReturns, pipeVars, Lines
<1> QED
  BY <1>1, <1>2, <1>3 DEF Answered

\* Lock and Unlock keep the type of the mutexes.
LEMMA HoldersKeepType ==
  ASSUME ClientTypeOK, NEW g \in Goroutines, NEW s \in Servers,
         LockClient(g, s) \/ UnlockClient(g, s)
  PROVE  holder' \in [Servers -> SUBSET Goroutines]
<1>1. {g} \in SUBSET Goroutines /\ holder[s] \ {g} \in SUBSET Goroutines
  BY DEF ClientTypeOK
<1> QED
  BY <1>1 DEF ClientTypeOK, LockClient, UnlockClient

\* The death of a process keeps the type of the processes.
LEMMA KillKeepsType ==
  ASSUME ClientTypeOK, NEW s, Kill(s)
  PROVE  process' \in [Servers -> {"none", "up", "down"}]
BY DEF ClientTypeOK, Kill

\* The steps of the servers keep the types of the clients.
LEMMA ServerKeepsType ==
  ASSUME ClientTypeOK, ServerNext
  PROVE  ClientTypeOK'
<1> USE DEF ClientTypeOK
<1>1. ASSUME NEW s \in Stdio, Answers(s) PROVE ClientTypeOK'
  <2>1. s \in Servers /\ Head(toServer[s]) \in Nat /\ Tail(toServer[s]) \in Seq(Nat \ {0})
    BY <1>1, Members DEF Answers
  <2> QED
    BY <1>1, <2>1 DEF Answers, Lines
<1>2. ASSUME NEW s \in Stdio, Chatters(s) PROVE ClientTypeOK'
  BY <1>2, Members DEF Chatters, Lines
<1>3. ASSUME NEW s \in Stdio, Exits(s) \/ KilledByContext(s) PROVE ClientTypeOK'
  BY <1>3, KillKeepsType DEF Exits, KilledByContext, pipeVars
<1> QED
  BY <1>1, <1>2, <1>3 DEF ServerNext

\* The types hold at first.
LEMMA InitTyped == Init => Typed
<1> SUFFICES ASSUME Init PROVE Typed
  OBVIOUS
<1>1. ClientTypeOK
  <2>1. <<>> \in Seq(Lines) /\ <<>> \in Seq(Nat \ {0}) /\ Failed \in Lines
    BY DEF Lines, Failed
  <2> QED
    BY <2>1 DEF Init, ClientInit, ClientTypeOK
<1>2. LocksTypeOK(Goroutines)
  BY DEF Init, LocksInit, LocksTypeOK
<1>3. PcType
  BY Members DEF Init, PcType, MainLocations, CallLocations, ListLocations, Initializing
<1>4. MapsType
  BY RuntimeAssumption DEF Init, MapsType
<1>5. AtServer
  BY Members DEF Init, AtServer
<1> QED
  BY <1>1, <1>2, <1>3, <1>4, <1>5, TypeParts DEF Typed

\* A goroutine that goes where it may keeps the type of pc.
LEMMA MainGoes ==
  ASSUME PcType, NEW to \in MainLocations, pc' = [pc EXCEPT ![Main] = to]
  PROVE  PcType' /\ pc'[Main] = to
BY Members DEF PcType

\* So does a call, and leaves Main where it is.
LEMMA CallGoes ==
  ASSUME PcType, NEW c \in Calls, NEW to \in CallLocations, pc' = [pc EXCEPT ![c] = to]
  PROVE  PcType' /\ pc'[Main] = pc[Main]
BY Members DEF PcType

\* So does a lister.
LEMMA ListerGoes ==
  ASSUME PcType, NEW l \in Listers, NEW to \in ListLocations, pc' = [pc EXCEPT ![l] = to]
  PROVE  PcType' /\ pc'[Main] = pc[Main]
BY Members DEF PcType

\* The locks keep their types.
LEMMA LocksKeepType ==
  ASSUME LocksTypeOK(Goroutines), NEW g \in Goroutines, NEW l \in Locks,
         RLock(g, l) \/ RUnlock(g, l) \/ AskToWrite(g, l) \/ Lock(g, l)
           \/ Unlock(g, Locks)
  PROVE  LocksTypeOK(Goroutines)'
BY DEF LocksTypeOK, RLock, RUnlock, AskToWrite, Lock, Unlock

\* The steps of Initialize keep the types.
LEMMA InitializeKeepsType ==
  ASSUME Typed, Initialize
  PROVE  Typed'
<1> USE DEF Typed
<1> DEFINE Parts == ClientTypeOK /\ LocksTypeOK(Goroutines) /\ PcType /\ MapsType
<1>1. Parts /\ Main \in Goroutines
  BY TypeParts, Members
<1> SUFFICES Parts' /\ AtServer'
  BY TypeParts DEF ClientTypeOK, LocksTypeOK, TypeOK, PcType, MapsType
<1>2. todo # <<>> => Current \in Servers /\ Tail(todo) \in Seq(Servers)
  BY <1>1 DEF MapsType, Current
<1>3. pc[Main] \in {"handshake", "shaking", "list", "listing"} => todo # <<>>
  BY DEF AtServer, Initializing
<1>l. UNCHANGED lockVars => LocksTypeOK(Goroutines)'
  BY <1>1 DEF lockVars, LocksTypeOK
<1>m. UNCHANGED mapVars => MapsType'
  BY <1>1 DEF mapVars, MapsType
<1>g. MainLocations = {"connect", "handshake", "shaking", "list", "listing", "serving",
                       "closed", "closing", "closingRuntime", "closingClients"}
  BY DEF MainLocations, Initializing, Closing
<1>u. ASSUME NEW s \in Servers, LockClient(Main, s) \/ UnlockClient(Main, s)
      PROVE  holder' \in [Servers -> SUBSET Goroutines]
  BY <1>1, <1>u, HoldersKeepType
<1>a. ASSUME ConnectStarts PROVE Parts' /\ AtServer'
  <2>1. PcType' /\ pc'[Main] = "handshake"
    BY <1>a, <1>1, <1>g, MainGoes DEF ConnectStarts, Goto
  <2>2. LocksTypeOK(Goroutines)' /\ MapsType' /\ AtServer'
    BY <1>a, <1>l, <1>m DEF ConnectStarts, AtServer, mapVars
  <2>3. holder' \in [Servers -> SUBSET Goroutines]
    BY <1>a, <1>1, <1>2, <1>u DEF ConnectStarts
  <2>4. connected' \in [Servers -> BOOLEAN] /\ process' \in [Servers -> {"none", "up", "down"}]
    BY <1>a, <1>1 DEF ConnectStarts, ClientTypeOK
  <2>5. toServer' \in [Servers -> Seq(Nat \ {0})] /\ fromServer' \in [Servers -> Seq(Lines)]
    <3>1. <<>> \in Seq(Nat \ {0}) /\ <<>> \in Seq(Lines)
      OBVIOUS
    <3> QED
      BY <1>a, <1>1, <3>1 DEF ConnectStarts, ClientTypeOK
  <2>6. ClientTypeOK'
    BY <1>a, <1>1, <2>3, <2>4, <2>5 DEF ConnectStarts, ClientTypeOK
  <2> QED
    BY <2>1, <2>2, <2>6
<1>b. ASSUME ConnectFails PROVE Parts' /\ AtServer'
  <2>1. ClientTypeOK'
    BY <1>b, <1>1 DEF ConnectFails, ClientTypeOK, pipeVars
  <2>2. MapsType'
    BY <1>b, <1>1, <1>2 DEF ConnectFails, MapsType
  <2>3. PcType' /\ AtServer'
    BY <1>b, <1>1 DEF ConnectFails, PcType, AtServer
  <2> QED
    BY <1>b, <1>l, <2>1, <2>2, <2>3 DEF ConnectFails
<1>c. ASSUME AskHandshake \/ AskTools PROVE Parts' /\ AtServer'
  <2>0. Current \in Servers /\ todo # <<>>
    BY <1>c, <1>2, <1>3 DEF AskHandshake, AskTools, Goto
  <2>1. PcType' /\ AtServer'
    <3>1. PcType'
      BY <1>c, <1>1, <1>g, MainGoes DEF AskHandshake, AskTools, Goto
    <3>2. todo' = todo
      BY <1>c DEF AskHandshake, AskTools, mapVars
    <3> QED
      BY <2>0, <3>1, <3>2 DEF AtServer
  <2>2. SendWrites(Main, Current)
    BY <1>c DEF AskHandshake, AskTools
  <2>3. UNCHANGED <<holder, connected, process, ctxDone>>
    BY <1>c DEF AskHandshake, AskTools
  <2>4. ClientTypeOK'
    BY <1>1, <2>0, <2>2, <2>3, SendsKeepType DEF ClientTypeOK
  <2> QED
    BY <1>c, <1>l, <1>m, <2>1, <2>4 DEF AskHandshake, AskTools
<1>d. ASSUME HearHandshake PROVE Parts' /\ AtServer'
  <2>0. Current \in Servers /\ todo # <<>>
    BY <1>d, <1>2, <1>3 DEF HearHandshake
  <2>1. \/ pc' = [pc EXCEPT ![Main] = "list"] /\ UNCHANGED <<holder, process, todo>>
        \/ NextServer /\ Kill(Current)
    BY <1>d DEF HearHandshake, Goto
  <2>2. PcType' /\ AtServer'
    <3>1. CASE pc' = [pc EXCEPT ![Main] = "list"] /\ UNCHANGED todo
      BY <1>1, <1>g, <2>0, <3>1, MainGoes DEF AtServer
    <3>2. CASE NextServer
      BY <1>1, <1>g, <3>2, MainGoes DEF NextServer, AtServer
    <3> QED
      BY <2>1, <3>1, <3>2
  <2>3. /\ holder' \in [Servers -> SUBSET Goroutines]
        /\ process' \in [Servers -> {"none", "up", "down"}]
        /\ todo' \in Seq(Servers)
    <3>1. CASE UNCHANGED <<holder, process, todo>>
      BY <1>1, <3>1 DEF ClientTypeOK, MapsType
    <3>2. CASE NextServer /\ Kill(Current)
      BY <1>1, <1>2, <1>u, <2>0, <3>2, KillKeepsType DEF NextServer
    <3> QED
      BY <2>1, <3>1, <3>2
  <2>4. Answered(Main, Current) /\ UNCHANGED <<connected, id, ctxDone, asked>>
    BY <1>d DEF HearHandshake, MainHears
  <2>5. ClientTypeOK'
    BY <1>1, <2>0, <2>3, <2>4, SendsKeepType DEF ClientTypeOK
  <2>6. MapsType'
    BY <1>d, <1>1, <2>3 DEF HearHandshake, MapsType
  <2> QED
    BY <1>d, <1>l, <2>2, <2>5, <2>6 DEF HearHandshake
<1>e. ASSUME HearTools PROVE Parts' /\ AtServer'
  <2>0. Current \in Servers /\ todo # <<>>
    BY <1>e, <1>2, <1>3 DEF HearTools
  <2>1. NextServer /\ Answered(Main, Current)
        /\ UNCHANGED <<connected, process, id, ctxDone, asked>>
    BY <1>e DEF HearTools, MainHears
  <2>2. PcType' /\ AtServer'
    BY <1>1, <1>g, <2>1, MainGoes DEF NextServer, AtServer
  <2>3. holder' \in [Servers -> SUBSET Goroutines]
    BY <1>1, <1>u, <2>0, <2>1 DEF NextServer
  <2>4. ClientTypeOK'
    BY <1>1, <2>0, <2>1, <2>3, SendsKeepType DEF ClientTypeOK
  <2>5. todo' \in Seq(Servers)
    BY <1>2, <2>0, <2>1 DEF NextServer
  <2>6. /\ clients' \in SUBSET Servers
        /\ route' \in [Tools -> SUBSET Servers]
        /\ \A t \in Tools : route'[t] \subseteq clients'
    BY <1>e, <1>1, <2>0 DEF HearTools, MapsType
  <2>7. MapsType'
    BY <1>e, <1>1, <2>5, <2>6 DEF HearTools, MapsType
  <2> QED
    BY <1>e, <1>l, <2>2, <2>4, <2>7 DEF HearTools
<1>f. ASSUME InitializeReturns PROVE Parts' /\ AtServer'
  <2>1. PcType' /\ pc'[Main] = "serving"
    BY <1>f, <1>1, <1>g, MainGoes DEF InitializeReturns, Goto
  <2>2. ClientTypeOK'
    BY <1>f, <1>1 DEF InitializeReturns, ClientTypeOK, pipeVars
  <2>3. MapsType'
    BY <1>f, <1>1 DEF InitializeReturns, MapsType
  <2>4. AtServer'
    BY <2>1 DEF AtServer, Initializing
  <2> QED
    BY <1>f, <1>l, <2>1, <2>2, <2>3, <2>4 DEF InitializeReturns
<1> QED
  BY <1>a, <1>b, <1>c, <1>d, <1>e, <1>f DEF Initialize

\* The steps of a call keep the types.
LEMMA CallsKeepType ==
  ASSUME Typed, NEW c \in Calls, Call(c) \/ Proceed(c)
  PROVE  Typed'
<1> DEFINE Parts == ClientTypeOK /\ LocksTypeOK(Goroutines) /\ PcType /\ MapsType
<1>1. Parts /\ c \in Goroutines /\ AtServer
  BY TypeParts, Members DEF Typed
<1> SUFFICES Parts' /\ AtServer'
  BY TypeParts DEF Typed, ClientTypeOK, LocksTypeOK, TypeOK, PcType, MapsType
<1>2. UNCHANGED lockVars
  BY DEF Call, Proceed, FindRuntime, FindClient, CallLocks, CallAsks, CallRefused, CallHears
<1>3. LocksTypeOK(Goroutines)'
  BY <1>1, <1>2 DEF lockVars, LocksTypeOK
<1>4. \E to \in CallLocations : pc' = [pc EXCEPT ![c] = to]
  BY DEF Call, Proceed, FindRuntime, FindClient, CallLocks, CallAsks, CallRefused, CallHears,
         Goto, CallLocations
<1>5. PcType' /\ pc'[Main] = pc[Main]
  BY <1>1, <1>4, CallGoes
<1>6. todo' = todo
  BY DEF Call, Proceed, FindRuntime, FindClient, CallLocks, CallAsks, CallRefused, CallHears,
         mapVars
<1>7. AtServer'
  BY <1>1, <1>5, <1>6 DEF AtServer
<1>8. MapsType'
  <2>1. CASE FindClient(c)
    BY <1>1, <2>1, RuntimeAssumption DEF FindClient, MapsType
  <2>2. CASE ~FindClient(c)
    <3>1. UNCHANGED mapVars
      BY <2>2 DEF Call, Proceed, FindRuntime, CallLocks, CallAsks, CallRefused, CallHears
    <3> QED
      BY <1>1, <3>1 DEF mapVars, MapsType
  <2> QED
    BY <2>1, <2>2
<1>9. ClientTypeOK'
  <2>1. CASE Call(c) \/ FindRuntime(c) \/ FindClient(c)
    <3>1. UNCHANGED clientVars
      BY <2>1 DEF Call, FindRuntime, FindClient
    <3> QED
      BY <1>1, <3>1 DEF ClientTypeOK, clientVars, pipeVars
  <2>2. CASE CallLocks(c)
    <3>1. holder' \in [Servers -> SUBSET Goroutines]
      BY <1>1, <2>2, HoldersKeepType DEF CallLocks
    <3> QED
      BY <1>1, <2>2, <3>1 DEF CallLocks, ClientTypeOK, pipeVars
  <2>3. CASE CallAsks(c)
    <3>1. PICK s \in Servers : SendWrites(c, s)
      BY <2>3 DEF CallAsks
    <3>2. UNCHANGED <<holder, connected, process, ctxDone>>
      BY <2>3 DEF CallAsks
    <3> QED
      BY <1>1, <3>1, <3>2, SendsKeepType DEF ClientTypeOK
  <2>4. CASE CallRefused(c)
    <3>1. holder' \in [Servers -> SUBSET Goroutines]
      BY <1>1, <2>4, HoldersKeepType, Members DEF CallRefused
    <3> QED
      BY <1>1, <2>4, <3>1 DEF CallRefused, ClientTypeOK, pipeVars
  <2>5. CASE CallHears(c)
    <3>1. PICK s \in Servers : Answered(c, s) /\ UnlockClient(c, s)
      BY <2>5 DEF CallHears
    <3>2. UNCHANGED <<connected, process, id, ctxDone, asked>>
      BY <2>5 DEF CallHears
    <3>3. holder' \in [Servers -> SUBSET Goroutines]
      BY <1>1, <3>1, HoldersKeepType
    <3> QED
      BY <1>1, <3>1, <3>2, <3>3, SendsKeepType DEF ClientTypeOK
  <2> QED
    BY <2>1, <2>2, <2>3, <2>4, <2>5 DEF Proceed
<1> QED
  BY <1>3, <1>5, <1>7, <1>8, <1>9

\* The steps of a lister keep the types.
LEMMA ListingKeepsType ==
  ASSUME Typed, NEW l \in Listers, List(l) \/ ProceedListing(l)
  PROVE  Typed'
<1>1. /\ ClientTypeOK /\ LocksTypeOK(Goroutines) /\ PcType /\ MapsType /\ AtServer
      /\ l \in Goroutines /\ "registry" \in Locks
  BY TypeParts, Members, RuntimeAssumption DEF Typed
<1>2. UNCHANGED <<clientVars, mapVars>>
  BY DEF List, ProceedListing, ListLocks, ListReads, ListEnds
<1>3. \E to \in ListLocations : pc' = [pc EXCEPT ![l] = to]
  BY DEF List, ProceedListing, ListLocks, ListReads, ListEnds, Goto, ListLocations
<1>4. PcType' /\ pc'[Main] = pc[Main]
  BY <1>1, <1>3, ListerGoes
<1>5. UNCHANGED lockVars \/ RLock(l, "registry") \/ RUnlock(l, "registry")
  BY DEF List, ProceedListing, ListLocks, ListReads, ListEnds
<1>6. LocksTypeOK(Goroutines)'
  <2>1. CASE UNCHANGED lockVars
    BY <1>1, <2>1 DEF lockVars, LocksTypeOK
  <2>2. CASE RLock(l, "registry") \/ RUnlock(l, "registry")
    BY <1>1, <2>2, LocksKeepType
  <2> QED
    BY <1>5, <2>1, <2>2
<1>7. ClientTypeOK' /\ MapsType' /\ AtServer'
  BY <1>1, <1>2, <1>4 DEF clientVars, pipeVars, mapVars, ClientTypeOK, MapsType, AtServer
<1> QED
  BY <1>4, <1>6, <1>7 DEF Typed, TypeOK, PcType, MapsType

\* The steps of ShutdownMCP keep the types.
LEMMA ShutdownKeepsType ==
  ASSUME Typed, Shutdown \/ Close
  PROVE  Typed'
<1>1. /\ ClientTypeOK /\ LocksTypeOK(Goroutines) /\ PcType /\ MapsType /\ AtServer
      /\ Main \in Goroutines /\ "registry" \in Locks
  BY TypeParts, Members, RuntimeAssumption DEF Typed
<1>2. \/ \E to \in Closing \cup {"closed"} : pc' = [pc EXCEPT ![Main] = to]
      \/ UNCHANGED pc /\ pc[Main] = "closingClients"
  BY DEF Shutdown, Close, ShutdownLocks, RuntimeLocks, CloseClient, ShutdownReturns, Goto,
         Closing
<1>3. PcType' /\ AtServer'
  <2>1. CASE UNCHANGED pc /\ pc[Main] = "closingClients"
    BY <1>1, <2>1 DEF PcType, AtServer, Initializing
  <2>2. ASSUME NEW to \in Closing \cup {"closed"}, pc' = [pc EXCEPT ![Main] = to]
        PROVE  PcType' /\ AtServer'
    <3>1. to \in MainLocations /\ to \notin Initializing
      BY DEF MainLocations, Closing, Initializing
    <3> QED
      BY <1>1, <2>2, <3>1, MainGoes DEF AtServer
  <2> QED
    BY <1>2, <2>1, <2>2
<1>4. LocksTypeOK(Goroutines)'
  <2>1. CASE Shutdown \/ ShutdownLocks \/ ShutdownReturns
    BY <1>1, <2>1, LocksKeepType DEF Shutdown, ShutdownLocks, ShutdownReturns
  <2>2. CASE RuntimeLocks
    BY <1>1, <2>2 DEF RuntimeLocks, LocksTypeOK
  <2>3. CASE \E s \in Servers : CloseClient(s)
    BY <1>1, <2>3 DEF CloseClient, lockVars, LocksTypeOK
  <2> QED
    BY <2>1, <2>2, <2>3 DEF Close
<1>5. ClientTypeOK'
  <2>1. CASE \E s \in Servers : CloseClient(s)
    <3>1. PICK s \in Servers : CloseClient(s)
      BY <2>1
    <3>2. process' \in [Servers -> {"none", "up", "down"}]
      BY <1>1, <3>1, KillKeepsType DEF CloseClient
    <3> QED
      BY <1>1, <3>1, <3>2 DEF CloseClient, ClientTypeOK, pipeVars
  <2>2. CASE UNCHANGED clientVars
    BY <1>1, <2>2 DEF ClientTypeOK, clientVars, pipeVars
  <2> QED
    BY <2>1, <2>2 DEF Shutdown, Close, ShutdownLocks, RuntimeLocks, ShutdownReturns
<1>6. MapsType'
  <2>1. CASE ShutdownReturns
    BY <1>1, <2>1 DEF ShutdownReturns, MapsType
  <2>2. CASE UNCHANGED mapVars
    BY <1>1, <2>2 DEF MapsType, mapVars
  <2> QED
    BY <2>1, <2>2 DEF Shutdown, Close, ShutdownLocks, RuntimeLocks, CloseClient
<1> QED
  BY <1>3, <1>4, <1>5, <1>6 DEF Typed, TypeOK, PcType, MapsType

\* Every step keeps the types.
LEMMA StepKeepsType == Typed /\ [Next]_vars => Typed'
<1> SUFFICES ASSUME Typed, [Next]_vars PROVE Typed'
  OBVIOUS
<1>1. CASE Initialize
  BY <1>1, InitializeKeepsType
<1>2. ASSUME NEW c \in Calls, Call(c) \/ Proceed(c) PROVE Typed'
  BY <1>2, CallsKeepType
<1>3. ASSUME NEW l \in Listers, List(l) \/ ProceedListing(l) PROVE Typed'
  BY <1>3, ListingKeepsType
<1>4. CASE Shutdown \/ Close
  BY <1>4, ShutdownKeepsType
<1>5. CASE ServerNext /\ UNCHANGED <<lockVars, pc, mapVars>>
  BY <1>5, ServerKeepsType DEF Typed, TypeOK, AtServer, LocksTypeOK, lockVars, mapVars
<1>6. CASE InitializeTimesOut
  BY <1>6 DEF InitializeTimesOut, Typed, TypeOK, ClientTypeOK, AtServer, LocksTypeOK,
              lockVars, mapVars, pipeVars
<1>7. CASE UNCHANGED vars
  BY <1>7 DEF vars, clientVars, Typed, TypeOK, ClientTypeOK, AtServer, LocksTypeOK,
              lockVars, mapVars, pipeVars
<1> QED
  BY <1>1, <1>2, <1>3, <1>4, <1>5, <1>6, <1>7 DEF Next

\* Every variable keeps its type (all of McpRuntime and McpClient).
THEOREM TypeCorrect == Spec => []TypeOK
<1>1. SafeSpec => []Typed
  BY InitTyped, StepKeepsType, PTL DEF SafeSpec
<1> QED
  BY <1>1, PTL DEF Spec, Typed

-----------------------------------------------------------------------------

\* The goroutine that is between Lock and Unlock of the mutex of a client.
Occupies(g, s) ==
  \/ g = Main /\ pc[Main] \in {"handshake", "shaking", "list", "listing"} /\ s = Current
  \/ g \in Calls /\ pc[g] \in {"locked", "sent"} /\ Uses(g, s)

\* It is the one that holds the mutex.
Exclusion ==
  \A s \in Servers : \A g \in Goroutines :
    /\ g \in holder[s] => Occupies(g, s)
    /\ Occupies(g, s) => holder[s] = {g}

\* Main awaits an answer from its request on until it has one.
MainHearing ==
  pc[Main] \in {"connect", "handshake", "list"} => heard[Main] # Awaited

\* So does a call, whose answer is its own.
Hearing(c) ==
  /\ pc[c] \notin {"sent", "done"} => heard[c] = Failed
  /\ pc[c] = "sent" => heard[c] \in {Awaited, Failed}
  /\ pc[c] = "done" /\ heard[c].is = "result" /\ target[c] \cap chattered = {}
       => heard[c].re = asked[c]

\* The request with this id is the one under way at the server.
Awaits(s, n) == \E g \in holder[s] : heard[g] = Awaited /\ asked[g] = n

\* The pipes of a server hold one request or its answer, or nothing; what a dead
\* process has not read stays there.
Pipe(s) ==
  /\ Len(fromServer[s]) <= 1
  /\ fromServer[s] # <<>> => Awaits(s, Head(fromServer[s]).re)
  /\ process[s] = "up" =>
       /\ Len(toServer[s]) <= 1
       /\ toServer[s] # <<>> => fromServer[s] = <<>> /\ Awaits(s, Head(toServer[s]))

\* So it is for every server that has written only when asked.
Pipes == \A s \in Stdio \ chattered : Pipe(s)

\* The inductive invariant.
Answering ==
  /\ Typed
  /\ Exclusion
  /\ Pipes
  /\ MainHearing
  /\ \A c \in Calls : Hearing(c)

\* Head and tail of a pipe with at most one request or line.
LEMMA OneInPipe ==
  ASSUME NEW S, NEW q \in Seq(S), Len(q) <= 1
  PROVE  /\ q # <<>> => Tail(q) = <<>>
         /\ q = <<>> => \A x \in S : Append(q, x) # <<>> /\ Len(Append(q, x)) = 1
                                     /\ Head(Append(q, x)) = x
<1>1. ASSUME q # <<>> PROVE Tail(q) = <<>>
  <2>0. Len(q) \in Nat \ {0}
    BY <1>1, EmptySeq, Zenon
  <2>1. Len(q) = 1
    <3>1. \A n \in Nat \ {0} : n <= 1 => n = 1
      OBVIOUS
    <3> QED
      BY <2>0, <3>1, Zenon
  <2>2. Len(Tail(q)) = 0 /\ Tail(q) \in Seq(S)
    BY <1>1, <2>1
  <2> QED
    BY <2>2, EmptySeq
<1>2. ASSUME q = <<>>, NEW x \in S
      PROVE  Append(q, x) # <<>> /\ Len(Append(q, x)) = 1 /\ Head(Append(q, x)) = x
  BY <1>2
<1> QED
  BY <1>1, <1>2

\* What stands for an answer that has not come is no line.
LEMMA AwaitedIsNoLine == Awaited \notin Lines /\ Failed \in Lines /\ Failed.is = "error"
<1>1. Failed \in Lines /\ Failed.is = "error"
  BY DEF Failed, Lines
<1>2. ASSUME Awaited \in Lines PROVE FALSE
  <2>1. Awaited.is \in {"result", "error"}
    BY <1>2 DEF Lines
  <2> QED
    BY <2>1 DEF Awaited
<1> QED
  BY <1>1, <1>2

\* A client is used by one goroutine at a time, and a goroutine uses one client.
LEMMA OneUser ==
  ASSUME Exclusion, NEW s \in Servers, NEW g \in Goroutines, Occupies(g, s),
         NEW r \in Servers, r # s
  PROVE  holder[s] = {g} /\ g \notin holder[r]
<1>1. holder[s] = {g}
  BY DEF Exclusion
<1>2. g \in holder[r] => Occupies(g, r)
  BY DEF Exclusion
<1>3. ~Occupies(g, r)
  BY Members DEF Occupies, Uses
<1> QED
  BY <1>1, <1>2, <1>3

\* Only the user of a client changes what is awaited at its server.
LEMMA AwaitsElsewhere ==
  ASSUME Exclusion, NEW s \in Servers, NEW g \in Goroutines, Occupies(g, s),
         NEW r \in Servers, r # s, holder'[r] = holder[r], Typed,
         \A k \in Goroutines \ {g} : heard'[k] = heard[k] /\ asked'[k] = asked[k],
         NEW n
  PROVE  Awaits(r, n)' <=> Awaits(r, n)
<1>1. g \notin holder[r] /\ holder[r] \subseteq Goroutines
  BY OneUser DEF Typed, TypeOK, ClientTypeOK
<1> QED
  BY <1>1 DEF Awaits

\* A step on one client leaves the pipes of the others as they are.
LEMMA PipeElsewhere ==
  ASSUME Typed, Exclusion, NEW s \in Servers, NEW g \in Goroutines, Occupies(g, s),
         NEW r \in Servers, r # s, Pipe(r),
         \A k \in Goroutines \ {g} : heard'[k] = heard[k] /\ asked'[k] = asked[k],
         holder'[r] = holder[r], process'[r] = process[r],
         toServer'[r] = toServer[r], fromServer'[r] = fromServer[r]
  PROVE  Pipe(r)'
<1>1. \A n : Awaits(r, n)' <=> Awaits(r, n)
  BY AwaitsElsewhere
<1> QED
  BY <1>1 DEF Pipe

\* A write finds both pipes empty, and what it wrote is awaited.
LEMMA WriteKeepsPipes ==
  ASSUME Typed, Exclusion, Pipes, NEW g \in Goroutines, NEW s \in Servers,
         Occupies(g, s), heard[g] # Awaited,
         SendWrites(g, s), UNCHANGED <<holder, process>>
  PROVE  Pipes'
<1> SUFFICES ASSUME NEW r \in Stdio \ chattered PROVE Pipe(r)'
  BY DEF SendWrites, Pipes, Pipe
<1>0. Pipe(r) /\ r \in Servers /\ ClientTypeOK
  BY Members DEF Typed, TypeOK, Pipes
<1>1. CASE r # s
  <2>1. /\ \A k \in Goroutines \ {g} : heard'[k] = heard[k] /\ asked'[k] = asked[k]
        /\ toServer'[r] = toServer[r] /\ fromServer'[r] = fromServer[r]
    BY <1>0, <1>1 DEF SendWrites, ClientTypeOK
  <2> QED
    BY <1>0, <1>1, <2>1, PipeElsewhere
<1>2. CASE r = s
  <2>1. holder[s] = {g}
    BY <1>2 DEF Exclusion
  <2>2. \A n : ~Awaits(s, n)
    BY <2>1 DEF Awaits
  <2>3. fromServer[s] = <<>> /\ fromServer'[s] = <<>>
    BY <1>0, <1>2, <2>2 DEF Pipe, SendWrites
  <2>4. CASE process[s] # "up"
    BY <1>0, <1>2, <2>3, <2>4 DEF Pipe
  <2>5. CASE process[s] = "up"
    <3>1. toServer[s] = <<>>
      BY <1>0, <1>2, <2>2, <2>5 DEF Pipe
    <3>2. /\ toServer'[s] = Append(<<>>, id[s] + 1)
          /\ heard'[g] = Awaited /\ asked'[g] = id[s] + 1 /\ id[s] + 1 \in Nat
      BY <1>0, <1>2, <2>5, <3>1 DEF SendWrites, ClientTypeOK
    <3>3. Len(toServer'[s]) = 1 /\ Head(toServer'[s]) = id[s] + 1
      BY <3>2
    <3>4. Awaits(s, Head(toServer[s]))'
      BY <2>1, <3>2, <3>3 DEF Awaits
    <3> QED
      BY <1>2, <2>3, <3>3, <3>4 DEF Pipe
  <2> QED
    BY <2>4, <2>5
<1> QED
  BY <1>1, <1>2

\* A read leaves nothing to read, and what it got answers the request.
LEMMA ReadKeepsPipes ==
  ASSUME Typed, Exclusion, Pipes, NEW g \in Goroutines, NEW s \in Servers,
         Occupies(g, s), Answered(g, s),
         UNCHANGED holder \/ UnlockClient(g, s),
         UNCHANGED process \/ Kill(s), UNCHANGED asked
  PROVE  /\ Pipes'
         /\ heard'[g] # Awaited
         /\ \/ heard'[g] = heard[g] \/ heard'[g].is = "error"
            \/ s \in chattered \/ heard'[g].re = asked[g]
<1>0. ClientTypeOK /\ holder[s] = {g} /\ UNCHANGED chattered
  BY DEF Typed, TypeOK, Exclusion, Answered, SendReads, PostReturns, pipeVars
<1>1. heard'[g] # Awaited
  <2>1. CASE SendReads(g, s)
    BY <1>0, <2>1, AwaitedIsNoLine DEF SendReads, ClientTypeOK
  <2>2. CASE PostReturns(g, s)
    BY <1>0, <2>2, AwaitedIsNoLine DEF PostReturns, ClientTypeOK, Lines
  <2> QED
    BY <2>1, <2>2 DEF Answered
<1>2. \/ heard'[g] = heard[g] \/ heard'[g].is = "error"
      \/ s \in chattered \/ heard'[g].re = asked[g]
  <2>1. CASE PostReturns(g, s)
    BY <1>0, <2>1 DEF PostReturns, ClientTypeOK
  <2>2. CASE SendReads(g, s) /\ heard[g] # Awaited
    BY <2>2 DEF SendReads
  <2>3. CASE SendReads(g, s) /\ heard[g] = Awaited /\ fromServer[s] = <<>>
    BY <1>0, <2>3, AwaitedIsNoLine DEF SendReads, ClientTypeOK
  <2>4. CASE SendReads(g, s) /\ heard[g] = Awaited /\ fromServer[s] # <<>> /\ s \notin chattered
    <3>1. Pipe(s) /\ heard'[g] = Head(fromServer[s])
      BY <1>0, <2>4 DEF SendReads, ClientTypeOK, Pipes
    <3>2. Awaits(s, Head(fromServer[s]).re)
      BY <2>4, <3>1 DEF Pipe
    <3> QED
      BY <1>0, <3>1, <3>2 DEF Awaits
  <2> QED
    BY <2>1, <2>2, <2>3, <2>4 DEF Answered
<1>3. \A k \in Goroutines \ {g} : heard'[k] = heard[k] /\ asked'[k] = asked[k]
  BY <1>0 DEF Answered, SendReads, PostReturns, ClientTypeOK
<1>4. ASSUME NEW r \in Stdio \ chattered PROVE Pipe(r)'
  <2>0. Pipe(r) /\ r \in Servers
    BY Members DEF Pipes
  <2>1. CASE r # s
    <3>1. /\ toServer'[r] = toServer[r] /\ fromServer'[r] = fromServer[r]
          /\ holder'[r] = holder[r] /\ process'[r] = process[r]
      BY <1>0, <2>0, <2>1
      DEF Answered, SendReads, PostReturns, pipeVars, ClientTypeOK, UnlockClient, Kill
    <3> QED
      BY <1>3, <2>0, <2>1, <3>1, PipeElsewhere
  <2>2. CASE r = s
    <3>1. SendReads(g, s)
      BY <2>2 DEF Answered, PostReturns
    <3>2. toServer' = toServer /\ (process'[s] = "up" => process[s] = "up")
      BY <1>0, <3>1 DEF SendReads, Kill, ClientTypeOK
    <3>3. fromServer'[s] = <<>>
      <4>1. CASE heard[g] # Awaited
        <5>1. \A n : ~Awaits(s, n)
          BY <1>0, <4>1 DEF Awaits
        <5> QED
          BY <2>0, <2>2, <3>1, <4>1, <5>1 DEF Pipe, SendReads
      <4>2. CASE heard[g] = Awaited /\ fromServer[s] = <<>>
        BY <3>1, <4>2 DEF SendReads
      <4>3. CASE heard[g] = Awaited /\ fromServer[s] # <<>>
        <5>1. fromServer'[s] = Tail(fromServer[s])
          BY <1>0, <3>1, <4>3 DEF SendReads, ClientTypeOK
        <5>2. fromServer[s] \in Seq(Lines) /\ Len(fromServer[s]) <= 1
          BY <1>0, <2>0, <2>2 DEF ClientTypeOK, Pipe
        <5> QED
          BY <4>3, <5>1, <5>2, OneInPipe
      <4> QED
        BY <4>1, <4>2, <4>3
    <3>4. process[s] = "up" => toServer[s] = <<>>
      <4>1. ASSUME process[s] = "up", toServer[s] # <<>> PROVE FALSE
        <5>1. fromServer[s] = <<>> /\ Awaits(s, Head(toServer[s]))
          BY <2>0, <2>2, <4>1 DEF Pipe
        <5>2. heard[g] = Awaited
          BY <1>0, <5>1 DEF Awaits
        <5> QED
          BY <3>1, <4>1, <5>1, <5>2 DEF SendReads
      <4> QED
        BY <4>1
    <3> QED
      BY <2>2, <3>2, <3>3, <3>4 DEF Pipe
  <2> QED
    BY <2>1, <2>2
<1> QED
  BY <1>0, <1>1, <1>2, <1>4 DEF Pipes, Pipe

\* Locking a client that nobody uses, with its pipes as they were or new ones.
LEMMA LockKeepsPipes ==
  ASSUME Typed, Exclusion, Pipes, NEW g \in Goroutines, NEW s \in Servers,
         LockClient(g, s), UNCHANGED <<chattered, asked, heard>>,
         \/ UNCHANGED <<process, toServer, fromServer>>
         \/ /\ process' = [process EXCEPT ![s] = "up"]
            /\ toServer' = [toServer EXCEPT ![s] = <<>>]
            /\ fromServer' = [fromServer EXCEPT ![s] = <<>>]
  PROVE  Pipes'
<1> SUFFICES ASSUME NEW r \in Stdio \ chattered PROVE Pipe(r)'
  BY DEF Pipes, Pipe
<1>0. Pipe(r) /\ r \in Servers /\ ClientTypeOK
  BY Members DEF Typed, TypeOK, Pipes
<1>1. CASE r # s
  <2>1. /\ holder'[r] = holder[r] /\ process'[r] = process[r]
        /\ toServer'[r] = toServer[r] /\ fromServer'[r] = fromServer[r]
    BY <1>0, <1>1 DEF LockClient, ClientTypeOK
  <2>2. \A n : Awaits(r, n)' <=> Awaits(r, n)
    BY <2>1 DEF Awaits
  <2> QED
    BY <1>0, <2>1, <2>2 DEF Pipe
<1>2. CASE r = s
  <2>1. \A n : ~Awaits(s, n)
    BY DEF LockClient, Awaits
  <2>2. fromServer[s] = <<>> /\ (process[s] = "up" => toServer[s] = <<>>)
    BY <1>0, <1>2, <2>1 DEF Pipe
  <2>3. Len(<<>>) <= 1
    OBVIOUS
  <2>4. fromServer'[s] = <<>> /\ (process'[s] = "up" => toServer'[s] = <<>>)
    BY <1>0, <2>2 DEF ClientTypeOK
  <2> QED
    BY <1>2, <2>3, <2>4 DEF Pipe
<1> QED
  BY <1>1, <1>2

\* The death of a process changes nothing that is said of its pipes.
LEMMA QuietKeepsPipes ==
  ASSUME Typed, Pipes, UNCHANGED <<holder, pipeVars, asked, heard>>,
         UNCHANGED process \/ \E s \in Servers : Kill(s)
  PROVE  Pipes'
<1>1. \A r \in Servers : process'[r] = "up" => process[r] = "up"
  BY DEF Typed, TypeOK, ClientTypeOK, Kill
<1>2. \A r, n : Awaits(r, n)' <=> Awaits(r, n)
  BY DEF Awaits
<1>3. ASSUME NEW r \in Stdio \ chattered PROVE Pipe(r)'
  BY <1>1, <1>2, Members DEF Pipe, pipeVars, Pipes
<1> QED
  BY <1>3 DEF pipeVars, Pipes, Pipe

\* The server answers the request under way.
LEMMA ServerKeepsPipes ==
  ASSUME Typed, Pipes, ServerNext
  PROVE  Pipes'
<1>0. ClientTypeOK
  BY DEF Typed, TypeOK
<1>1. ASSUME NEW s \in Stdio, Answers(s) PROVE Pipes'
  <2>0. s \in Servers /\ UNCHANGED <<chattered, process>> /\ process[s] = "up"
        /\ toServer[s] # <<>>
    BY <1>1, Members DEF Answers
  <2>1. \A r, n : Awaits(r, n)' <=> Awaits(r, n)
    BY <1>1 DEF Answers, Awaits
  <2>2. ASSUME NEW r \in Stdio \ chattered, r # s PROVE Pipe(r)'
    <3>1. toServer'[r] = toServer[r] /\ fromServer'[r] = fromServer[r]
      BY <1>0, <1>1, <2>2, Members DEF Answers, ClientTypeOK
    <3> QED
      BY <2>0, <2>1, <2>2, <3>1 DEF Pipe, Pipes
  <2>3. ASSUME s \notin chattered PROVE Pipe(s)'
    <3>1. Len(toServer[s]) <= 1 /\ fromServer[s] = <<>> /\ Awaits(s, Head(toServer[s]))
      BY <2>0, <2>3 DEF Pipe, Pipes
    <3>2. PICK is \in {"result", "error"} :
            fromServer'[s] = Append(fromServer[s], [is |-> is, re |-> Head(toServer[s])])
      BY <1>0, <1>1, <2>0 DEF Answers, ClientTypeOK
    <3>3. /\ Len(fromServer'[s]) = 1
          /\ Head(fromServer'[s]) = [is |-> is, re |-> Head(toServer[s])]
      BY <3>1, <3>2
    <3>4. toServer'[s] = Tail(toServer[s]) /\ toServer[s] \in Seq(Nat \ {0})
      BY <1>0, <1>1, <2>0 DEF Answers, ClientTypeOK
    <3>5. toServer'[s] = <<>>
      BY <2>0, <3>1, <3>4, OneInPipe
    <3>6. Awaits(s, Head(fromServer[s]).re)'
      BY <2>1, <3>1, <3>3
    <3>7. Len(<<>>) <= 1
      OBVIOUS
    <3> QED
      BY <3>3, <3>5, <3>6, <3>7 DEF Pipe
  <2> QED
    BY <2>0, <2>2, <2>3 DEF Pipes, Pipe
<1>2. ASSUME NEW s \in Stdio, Chatters(s) PROVE Pipes'
  <2>1. \A r, n : Awaits(r, n)' <=> Awaits(r, n)
    BY <1>2 DEF Chatters, Awaits
  <2>2. chattered' = chattered \cup {s} /\ UNCHANGED <<process, toServer>>
    BY <1>2 DEF Chatters
  <2>3. ASSUME NEW r \in Stdio \ chattered, r # s PROVE Pipe(r)'
    <3>1. fromServer'[r] = fromServer[r]
      BY <1>0, <1>2, <2>3, Members DEF Chatters, ClientTypeOK
    <3> QED
      BY <2>1, <2>2, <2>3, <3>1 DEF Pipe, Pipes
  <2> QED
    BY <2>2, <2>3 DEF Pipes, Pipe
<1>3. ASSUME NEW s \in Stdio, Exits(s) \/ KilledByContext(s) PROVE Pipes'
  BY <1>3, QuietKeepsPipes, Members DEF Exits, KilledByContext
<1> QED
  BY <1>1, <1>2, <1>3 DEF ServerNext

\* Nothing changes for a goroutine that takes no step and whose server is
\* another's.
LEMMA UserUntouched ==
  ASSUME NEW k \in Goroutines, pc'[k] = pc[k],
         k = Main => UNCHANGED todo, k \in Calls => target'[k] = target[k]
  PROVE  \A r : Occupies(k, r)' <=> Occupies(k, r)
BY Members DEF Occupies, Uses, Current

\* Nor for a call, whatever its server writes.
LEMMA CallUntouched ==
  ASSUME NEW c \in Calls, Hearing(c), pc'[c] = pc[c], target'[c] = target[c],
         heard'[c] = heard[c], asked'[c] = asked[c], chattered \subseteq chattered'
  PROVE  Hearing(c)'
BY DEF Hearing

\* Lock of a client that nobody uses keeps the exclusion.
LEMMA LockKeepsExclusion ==
  ASSUME Typed, Exclusion, NEW g \in Goroutines, NEW s \in Servers, LockClient(g, s),
         \A r \in Servers : ~Occupies(g, r), \A r \in Servers : Occupies(g, r)' <=> r = s,
         \A k \in Goroutines \ {g}, r \in Servers : Occupies(k, r)' <=> Occupies(k, r)
  PROVE  Exclusion'
<1>1. holder'[s] = {g} /\ \A r \in Servers : r # s => holder'[r] = holder[r]
  BY DEF LockClient, Typed, TypeOK, ClientTypeOK
<1>2. \A k \in Goroutines : ~Occupies(k, s)
  BY DEF LockClient, Exclusion
<1> QED
  BY <1>1, <1>2 DEF Exclusion

\* A step that neither locks nor unlocks keeps the exclusion.
LEMMA UseKeepsExclusion ==
  ASSUME Exclusion, UNCHANGED holder,
         \A k \in Goroutines, r \in Servers : Occupies(k, r)' <=> Occupies(k, r)
  PROVE  Exclusion'
BY DEF Exclusion

\* So does Unlock.
LEMMA UnlockKeepsExclusion ==
  ASSUME Typed, Exclusion, NEW g \in Goroutines, NEW s \in Servers, UnlockClient(g, s),
         Occupies(g, s), \A r \in Servers : ~Occupies(g, r)',
         \A k \in Goroutines \ {g}, r \in Servers : Occupies(k, r)' <=> Occupies(k, r)
  PROVE  Exclusion'
<1>1. holder[s] = {g} /\ holder'[s] = {} /\ \A r \in Servers : r # s => holder'[r] = holder[r]
  BY DEF UnlockClient, Typed, TypeOK, ClientTypeOK, Exclusion
<1>2. \A r \in Servers : r # s => g \notin holder[r]
  BY OneUser
<1>3. \A k \in Goroutines \ {g} : ~Occupies(k, s)
  BY <1>1 DEF Exclusion
<1> QED
  BY <1>1, <1>2, <1>3 DEF Exclusion

-----------------------------------------------------------------------------

\* The invariant holds at first.
LEMMA InitAnswering == Init => Answering
<1> SUFFICES ASSUME Init PROVE Answering
  OBVIOUS
<1>1. Exclusion
  BY Members DEF Init, ClientInit, Exclusion, Occupies
<1>2. Pipes
  <2>1. Len(<<>>) <= 1
    OBVIOUS
  <2> QED
    BY <2>1, Members DEF Init, ClientInit, Pipes, Pipe
<1>3. MainHearing
  BY Members, AwaitedIsNoLine DEF Init, ClientInit, MainHearing
<1>4. ASSUME NEW c \in Calls PROVE Hearing(c)
  BY Members DEF Init, ClientInit, Hearing
<1> QED
  BY <1>1, <1>2, <1>3, <1>4, InitTyped DEF Answering

\* The steps of Initialize keep the invariant.
LEMMA InitializeKeepsAnswers ==
  ASSUME Answering, Initialize
  PROVE  Exclusion' /\ Pipes' /\ MainHearing' /\ \A c \in Calls : Hearing(c)'
<1>0. /\ Typed /\ Exclusion /\ Pipes /\ MainHearing
      /\ ClientTypeOK /\ PcType /\ MapsType /\ AtServer /\ Main \in Goroutines
  BY TypeParts, Members DEF Answering, Typed
<1>1. \A k \in Goroutines \ {Main} : pc'[k] = pc[k] /\ heard'[k] = heard[k] /\ asked'[k] = asked[k]
  BY <1>0 DEF Initialize, ConnectStarts, ConnectFails, AskHandshake, HearHandshake, AskTools,
              HearTools, InitializeReturns, Goto, PcType, ClientTypeOK, SendWrites, MainHears,
              Answered, SendReads, PostReturns, NextServer
<1>2. UNCHANGED <<target, chattered>>
  BY DEF Initialize, ConnectStarts, ConnectFails, AskHandshake, HearHandshake, AskTools,
         HearTools, InitializeReturns, SendWrites, MainHears, Answered, SendReads,
         PostReturns, pipeVars, mapVars
<1>3. \A c \in Calls : Hearing(c)'
  BY <1>1, <1>2, CallUntouched, Members DEF Answering
<1>4. \A k \in Goroutines \ {Main}, r \in Servers : Occupies(k, r)' <=> Occupies(k, r)
  BY <1>1, <1>2, UserUntouched
<1>5. pc[Main] \in {"handshake", "shaking", "list", "listing"} =>
        Current \in Servers /\ Occupies(Main, Current)
  BY <1>0 DEF AtServer, Initializing, MapsType, Current, Occupies
<1>6. ~(pc[Main] \in {"handshake", "shaking", "list", "listing"}) => \A r : ~Occupies(Main, r)
  BY Members DEF Occupies
<1>7. ~(pc'[Main] \in {"handshake", "shaking", "list", "listing"}) => \A r : ~Occupies(Main, r)'
  BY Members DEF Occupies
<1>a. CASE ConnectStarts
  <2>1. /\ pc[Main] = "connect" /\ pc'[Main] = "handshake" /\ todo' = todo
        /\ Current \in Servers /\ LockClient(Main, Current) /\ UNCHANGED <<chattered, asked, heard>>
    BY <1>0, <1>a DEF ConnectStarts, Goto, PcType, MapsType, Current, mapVars
  <2>2. \A r : Occupies(Main, r)' <=> r = Current
    BY <2>1, Members DEF Occupies, Current
  <2>3. Exclusion'
    BY <1>0, <1>4, <1>6, <2>1, <2>2, LockKeepsExclusion
  <2>4. Pipes'
    BY <1>0, <1>a, <2>1, LockKeepsPipes DEF ConnectStarts
  <2>5. MainHearing'
    BY <1>0, <2>1 DEF MainHearing
  <2> QED
    BY <1>3, <2>3, <2>4, <2>5
<1>b. CASE ConnectFails \/ InitializeReturns
  <2>1. /\ pc[Main] = "connect" /\ pc'[Main] \in {"connect", "serving"}
        /\ UNCHANGED <<holder, process, pipeVars, asked, heard>>
    BY <1>0, <1>b DEF ConnectFails, InitializeReturns, Goto, PcType
  <2>2. \A r \in Servers : Occupies(Main, r)' <=> Occupies(Main, r)
    BY <1>6, <1>7, <2>1
  <2>3. Exclusion'
    BY <1>0, <1>4, <2>1, <2>2, UseKeepsExclusion
  <2>4. Pipes'
    BY <1>0, <2>1, QuietKeepsPipes
  <2>5. MainHearing'
    BY <1>0, <2>1 DEF MainHearing
  <2> QED
    BY <1>3, <2>3, <2>4, <2>5
<1>c. CASE AskHandshake \/ AskTools
  <2>1. /\ pc[Main] \in {"handshake", "list"} /\ pc'[Main] \in {"shaking", "listing"}
        /\ todo' = todo /\ SendWrites(Main, Current) /\ UNCHANGED <<holder, process>>
    BY <1>0, <1>c DEF AskHandshake, AskTools, Goto, PcType, mapVars
  <2>2. \A r : Occupies(Main, r)' <=> Occupies(Main, r)
    BY <2>1, Members DEF Occupies, Current
  <2>3. Exclusion'
    BY <1>0, <1>4, <2>1, <2>2, UseKeepsExclusion
  <2>4. Pipes'
    BY <1>0, <1>5, <2>1, WriteKeepsPipes DEF MainHearing
  <2>5. MainHearing'
    BY <2>1 DEF MainHearing
  <2> QED
    BY <1>3, <2>3, <2>4, <2>5
<1>d. CASE HearHandshake \/ HearTools
  <2>1. /\ pc[Main] \in {"shaking", "listing"} /\ Answered(Main, Current) /\ UNCHANGED asked
        /\ \/ pc'[Main] = "list" /\ UNCHANGED <<todo, holder, process>>
           \/ /\ pc'[Main] = "connect" /\ UnlockClient(Main, Current)
              /\ UNCHANGED process \/ Kill(Current)
    BY <1>0, <1>d DEF HearHandshake, HearTools, MainHears, NextServer, Goto, PcType
  <2>2. Current \in Servers /\ Occupies(Main, Current)
    BY <1>5, <2>1
  <2>3. Exclusion'
    <3>1. CASE pc'[Main] = "list" /\ UNCHANGED <<todo, holder>>
      <4>1. \A r : Occupies(Main, r)' <=> Occupies(Main, r)
        BY <2>1, <3>1, Members DEF Occupies, Current
      <4> QED
        BY <1>0, <1>4, <3>1, <4>1, UseKeepsExclusion
    <3>2. CASE pc'[Main] = "connect" /\ UnlockClient(Main, Current)
      BY <1>0, <1>4, <1>7, <2>2, <3>2, UnlockKeepsExclusion
    <3> QED
      BY <2>1, <3>1, <3>2
  <2>4. Pipes' /\ heard'[Main] # Awaited
    BY <1>0, <2>1, <2>2, ReadKeepsPipes
  <2> QED
    BY <1>3, <2>3, <2>4 DEF MainHearing
<1> QED
  BY <1>a, <1>b, <1>c, <1>d DEF Initialize

\* The steps of a call keep the invariant.
LEMMA CallsKeepAnswers ==
  ASSUME Answering, NEW c \in Calls, Call(c) \/ Proceed(c)
  PROVE  Exclusion' /\ Pipes' /\ MainHearing' /\ \A d \in Calls : Hearing(d)'
<1>0. /\ Typed /\ Exclusion /\ Pipes /\ MainHearing /\ Hearing(c)
      /\ ClientTypeOK /\ PcType /\ MapsType /\ c \in Goroutines /\ c # Main
  BY TypeParts, Members DEF Answering, Typed
<1>1. \A k \in Goroutines \ {c} : pc'[k] = pc[k] /\ heard'[k] = heard[k] /\ asked'[k] = asked[k]
  BY <1>0 DEF Call, Proceed, FindRuntime, FindClient, CallLocks, CallAsks, CallRefused, CallHears,
              Goto, PcType, ClientTypeOK, SendWrites, Answered, SendReads, PostReturns,
              clientVars
<1>2. UNCHANGED <<todo, chattered>> /\ \A d \in Calls \ {c} : target'[d] = target[d]
  BY <1>0 DEF Call, Proceed, FindRuntime, FindClient, CallLocks, CallAsks, CallRefused, CallHears,
              SendWrites, Answered, SendReads, PostReturns, pipeVars, mapVars, clientVars, MapsType
<1>3. MainHearing' /\ \A d \in Calls \ {c} : Hearing(d)'
  <2>1. MainHearing'
    BY <1>0, <1>1, Members DEF MainHearing
  <2> QED
    BY <1>1, <1>2, <2>1, CallUntouched, Members DEF Answering
<1>4. \A k \in Goroutines \ {c}, r \in Servers : Occupies(k, r)' <=> Occupies(k, r)
  BY <1>1, <1>2, UserUntouched
<1> SUFFICES Exclusion' /\ Pipes' /\ Hearing(c)'
  BY <1>3
<1>5. \A r : Occupies(c, r) <=> pc[c] \in {"locked", "sent"} /\ target[c] = {r}
  BY <1>0 DEF Occupies, Uses
<1>6. \A r : Occupies(c, r)' <=> pc'[c] \in {"locked", "sent"} /\ target'[c] = {r}
  BY <1>0 DEF Occupies, Uses
<1>a. CASE Call(c) \/ FindRuntime(c) \/ FindClient(c)
  <2>1. /\ pc[c] \in {"idle", "begun", "found"} /\ pc'[c] \in {"begun", "found", "routed", "done"}
        /\ UNCHANGED clientVars
    BY <1>0, <1>a DEF Call, FindRuntime, FindClient, Goto, PcType
  <2>2. Exclusion'
    BY <1>0, <1>4, <1>5, <1>6, <2>1, UseKeepsExclusion DEF clientVars
  <2>3. Pipes'
    BY <1>0, <2>1, QuietKeepsPipes DEF clientVars
  <2>4. Hearing(c)'
    BY <1>0, <2>1, AwaitedIsNoLine DEF Hearing, clientVars
  <2> QED
    BY <2>2, <2>3, <2>4
<1>b. CASE CallLocks(c)
  <2>1. /\ pc[c] = "routed" /\ pc'[c] = "locked" /\ UNCHANGED target
        /\ UNCHANGED <<process, pipeVars, asked, heard>>
    BY <1>0, <1>b DEF CallLocks, Goto, PcType, mapVars
  <2>2. PICK s \in Servers : Uses(c, s) /\ LockClient(c, s)
    BY <1>b DEF CallLocks
  <2>3. \A r \in Servers : ~Occupies(c, r) /\ (Occupies(c, r)' <=> r = s)
    BY <1>5, <1>6, <2>1, <2>2 DEF Uses
  <2>4. Exclusion'
    BY <1>0, <1>4, <2>2, <2>3, LockKeepsExclusion
  <2>5. Pipes'
    BY <1>0, <2>1, <2>2, LockKeepsPipes DEF pipeVars
  <2>6. Hearing(c)'
    BY <1>0, <2>1 DEF Hearing
  <2> QED
    BY <2>4, <2>5, <2>6
<1>c. CASE CallAsks(c)
  <2>1. pc[c] = "locked" /\ pc'[c] = "sent" /\ UNCHANGED <<target, holder, process>>
    BY <1>0, <1>c DEF CallAsks, Goto, PcType, mapVars
  <2>2. PICK s \in Servers : Uses(c, s) /\ SendWrites(c, s)
    BY <1>c DEF CallAsks
  <2>3. Occupies(c, s) /\ heard[c] # Awaited
    BY <1>0, <1>5, <2>1, <2>2, AwaitedIsNoLine DEF Uses, Hearing
  <2>4. Exclusion'
    BY <1>0, <1>4, <1>5, <1>6, <2>1, UseKeepsExclusion
  <2>5. Pipes'
    BY <1>0, <2>1, <2>2, <2>3, WriteKeepsPipes
  <2>6. Hearing(c)'
    BY <1>0, <2>1, <2>2 DEF Hearing, SendWrites, ClientTypeOK
  <2> QED
    BY <2>4, <2>5, <2>6
<1>d. CASE CallRefused(c)
  <2>1. /\ pc[c] = "locked" /\ pc'[c] = "done"
        /\ UNCHANGED <<process, pipeVars, asked, heard>>
    BY <1>0, <1>d DEF CallRefused, Goto, PcType
  <2>2. PICK s \in Servers : Uses(c, s) /\ UnlockClient(c, s)
    BY <1>d, Members DEF CallRefused
  <2>3. Occupies(c, s) /\ \A r \in Servers : ~Occupies(c, r)'
    BY <1>5, <1>6, <2>1, <2>2 DEF Uses
  <2>4. Exclusion'
    BY <1>0, <1>4, <2>2, <2>3, UnlockKeepsExclusion
  <2>5. heard[c] = Failed
    BY <1>0, <2>1 DEF Hearing
  <2>6. Pipes'
    <3>1. holder[s] = {c} /\ holder' = [holder EXCEPT ![s] = {}]
      BY <1>0, <2>2, <2>3 DEF UnlockClient, Exclusion
    <3>2. \A n : \A r \in Servers : Awaits(r, n)' <=> Awaits(r, n)
      BY <1>0, <2>1, <2>5, <3>1, AwaitedIsNoLine DEF Awaits, ClientTypeOK
    <3> QED
      BY <1>0, <2>1, <3>2, Members DEF Pipes, Pipe, pipeVars
  <2>7. Hearing(c)'
    BY <2>1, <2>5, AwaitedIsNoLine DEF Hearing
  <2> QED
    BY <2>4, <2>6, <2>7
<1>e. CASE CallHears(c)
  <2>1. pc[c] = "sent" /\ pc'[c] = "done" /\ UNCHANGED <<target, process, asked>>
    BY <1>0, <1>e DEF CallHears, Goto, PcType, mapVars
  <2>2. PICK s \in Servers : Uses(c, s) /\ Answered(c, s) /\ UnlockClient(c, s)
    BY <1>e DEF CallHears
  <2>3. Occupies(c, s) /\ \A r \in Servers : ~Occupies(c, r)'
    BY <1>5, <1>6, <2>1, <2>2 DEF Uses
  <2>4. Exclusion'
    BY <1>0, <1>4, <2>2, <2>3, UnlockKeepsExclusion
  <2>5. /\ Pipes' /\ heard'[c] # Awaited
        /\ \/ heard'[c] = heard[c] \/ heard'[c].is = "error"
           \/ s \in chattered \/ heard'[c].re = asked[c]
    BY <1>0, <2>1, <2>2, <2>3, ReadKeepsPipes
  <2>6. heard'[c] = heard[c] => heard'[c].is = "error"
    BY <1>0, <2>1, <2>5, AwaitedIsNoLine DEF Hearing
  <2>7. Hearing(c)'
    BY <1>2, <2>1, <2>2, <2>5, <2>6 DEF Hearing, Uses
  <2> QED
    BY <2>4, <2>5, <2>7
<1> QED
  BY <1>a, <1>b, <1>c, <1>d, <1>e DEF Proceed

\* A step that none of the goroutines takes on a client.
LEMMA OthersKeepAnswers ==
  ASSUME Answering, UNCHANGED <<holder, pipeVars, asked, heard>>,
         UNCHANGED process \/ \E s \in Servers : Kill(s),
         UNCHANGED <<todo, target>>,
         \A c \in Calls : pc'[c] = pc[c],
         \/ pc'[Main] = pc[Main]
         \/ ~({pc[Main], pc'[Main]} \cap Initializing # {})
  PROVE  Exclusion' /\ Pipes' /\ MainHearing' /\ \A c \in Calls : Hearing(c)'
<1>0. Typed /\ Exclusion /\ Pipes /\ MainHearing
  BY DEF Answering
<1>1. \A c \in Calls : Hearing(c)'
  BY CallUntouched DEF Answering, pipeVars
<1>2. MainHearing'
  BY <1>0 DEF MainHearing, Initializing
<1>3. \A k \in Goroutines, r \in Servers : Occupies(k, r)' <=> Occupies(k, r)
  BY Members DEF Occupies, Uses, Current, Initializing
<1>4. Exclusion'
  BY <1>0, <1>3, UseKeepsExclusion
<1>5. Pipes'
  BY <1>0, QuietKeepsPipes
<1> QED
  BY <1>1, <1>2, <1>4, <1>5

\* Every step keeps the invariant.
LEMMA StepKeepsAnswers == Answering /\ [Next]_vars => Answering'
<1> SUFFICES ASSUME Answering, [Next]_vars
             PROVE  Exclusion' /\ Pipes' /\ MainHearing' /\ \A c \in Calls : Hearing(c)'
  BY StepKeepsType DEF Answering
<1>0. /\ Exclusion /\ MainHearing /\ \A c \in Calls : Hearing(c)
      /\ ClientTypeOK /\ PcType /\ Main \in Goroutines /\ Typed
  BY TypeParts, Members DEF Answering, Typed
<1> DEFINE Kept == Exclusion' /\ Pipes' /\ MainHearing' /\ \A c \in Calls : Hearing(c)'
<1>1. CASE Initialize
  BY <1>1, InitializeKeepsAnswers
<1>2. ASSUME NEW c \in Calls, Call(c) \/ Proceed(c) PROVE Kept
  BY <1>2, CallsKeepAnswers
<1>3. ASSUME NEW l \in Listers, List(l) \/ ProceedListing(l) PROVE Kept
  <2>1. UNCHANGED <<clientVars, mapVars>>
    BY <1>3 DEF List, ProceedListing, ListLocks, ListReads, ListEnds
  <2>2. \A k \in Goroutines \ {l} : pc'[k] = pc[k]
    BY <1>0, <1>3 DEF List, ProceedListing, ListLocks, ListReads, ListEnds, Goto, PcType
  <2> QED
    BY <2>1, <2>2, OthersKeepAnswers, Members DEF clientVars, mapVars
<1>4. CASE Shutdown \/ Close
  <2>1. /\ UNCHANGED <<holder, pipeVars, asked, heard, todo, target>>
        /\ UNCHANGED process \/ \E s \in Servers : Kill(s)
    BY <1>4 DEF Shutdown, Close, ShutdownLocks, RuntimeLocks, CloseClient, ShutdownReturns,
                clientVars, mapVars
  <2>2. \A k \in Goroutines \ {Main} : pc'[k] = pc[k]
    BY <1>0, <1>4 DEF Shutdown, Close, ShutdownLocks, RuntimeLocks, CloseClient, ShutdownReturns,
                      Goto, PcType
  <2>3. pc[Main] \notin Initializing /\ pc'[Main] \notin Initializing
    BY <1>0, <1>4 DEF Shutdown, Close, ShutdownLocks, RuntimeLocks, CloseClient, ShutdownReturns,
                      Goto, PcType, Initializing
  <2> QED
    BY <2>1, <2>2, <2>3, OthersKeepAnswers, Members
<1>5. CASE ServerNext /\ UNCHANGED <<lockVars, pc, mapVars>>
  <2>1. /\ UNCHANGED <<holder, asked, heard, pc, todo, target>> /\ chattered \subseteq chattered'
    BY <1>5 DEF ServerNext, Answers, Chatters, Exits, KilledByContext, pipeVars, mapVars
  <2>2. Pipes'
    BY <1>5, ServerKeepsPipes DEF Answering
  <2>3. Exclusion'
    BY <1>0, <2>1, UserUntouched, UseKeepsExclusion
  <2>4. MainHearing' /\ \A c \in Calls : Hearing(c)'
    BY <1>0, <2>1, CallUntouched DEF MainHearing
  <2> QED
    BY <2>2, <2>3, <2>4
<1>6. CASE InitializeTimesOut \/ UNCHANGED vars
  <2>1. UNCHANGED <<holder, process, pipeVars, asked, heard, pc, todo, target>>
    BY <1>6 DEF InitializeTimesOut, vars, clientVars, mapVars
  <2> QED
    BY <2>1, OthersKeepAnswers
<1> QED
  BY <1>1, <1>2, <1>3, <1>4, <1>5, <1>6 DEF Next

\* The inductive invariant holds in every state.
THEOREM AlwaysAnswering == Spec => []Answering
<1>1. SafeSpec => []Answering
  BY InitAnswering, StepKeepsAnswers, PTL DEF SafeSpec
<1> QED
  BY <1>1, PTL DEF Spec

\* c.mu of a client is held by the one goroutine that is between its Lock and its
\* Unlock, and a goroutine holds at most one (client.go:66, 204, 235, 273, 374).
THEOREM OneUserPerClient == Spec => []Exclusion
<1>1. Answering => Exclusion
  BY DEF Answering
<1> QED
  BY <1>1, AlwaysAnswering, PTL

\* A call that returns a result returns the answer to its own request, for any
\* servers, configuration and calls, unless its server has written a line nobody
\* asked for (client.go:176-200).
THEOREM CallsGetOwnAnswers == Spec => []OwnAnswers
<1>1. Answering => OwnAnswers
  BY DEF Answering, Hearing, OwnAnswers
<1> QED
  BY <1>1, AlwaysAnswering, PTL
-----------------------------------------------------------------------------

\* A call keeps the mutex of its client, so that what it asked is asked of a client
\* that stays connected.
InterruptsNobody == Answering /\ ShutdownInterruptsNobody

\* Nobody waits for an answer before there is a call.
LEMMA InitInterruptsNobody == Init => InterruptsNobody
<1>1. Init => \A c \in Calls : pc[c] = "idle"
  BY Members DEF Init
<1> QED
  BY <1>1, InitAnswering DEF InterruptsNobody, ShutdownInterruptsNobody

\* A call that asks finds its client connected, and Close finds a client that no
\* call waits at.
LEMMA StepInterruptsNobody == InterruptsNobody /\ [Next]_vars => InterruptsNobody'
<1> SUFFICES ASSUME InterruptsNobody, [Next]_vars PROVE ShutdownInterruptsNobody'
  BY StepKeepsAnswers DEF InterruptsNobody
<1>0. /\ Typed /\ Exclusion /\ ShutdownInterruptsNobody
      /\ ClientTypeOK /\ PcType /\ MapsType
  BY TypeParts DEF InterruptsNobody, Answering, Typed
<1> USE Members
\* A step after which nobody waits who did not before, and all are connected who were.
<1>1. ASSUME \A s \in Stdio : connected[s] => connected'[s],
             \A c \in Calls : pc'[c] = "sent" => pc[c] = "sent" /\ target'[c] = target[c]
      PROVE  ShutdownInterruptsNobody'
  BY <1>0, <1>1 DEF ShutdownInterruptsNobody, Uses
<1>2. CASE Initialize
  <2>1. \A c \in Calls : pc'[c] = pc[c]
    BY <1>0, <1>2 DEF Initialize, ConnectStarts, ConnectFails, AskHandshake, HearHandshake,
      AskTools, HearTools, InitializeReturns, Goto, NextServer, PcType
  <2>2. target' = target
    BY <1>2 DEF Initialize, ConnectStarts, ConnectFails, AskHandshake, HearHandshake,
      AskTools, HearTools, InitializeReturns, mapVars
  <2>3. \A s \in Stdio : connected[s] => connected'[s]
    BY <1>0, <1>2 DEF Initialize, ConnectStarts, ConnectFails, AskHandshake, HearHandshake,
      AskTools, HearTools, InitializeReturns, ClientTypeOK
  <2> QED
    BY <1>1, <2>1, <2>2, <2>3
<1>3. ASSUME NEW c \in Calls, Call(c) \/ Proceed(c) PROVE ShutdownInterruptsNobody'
  <2>1. connected' = connected
    BY <1>3 DEF Call, Proceed, FindRuntime, FindClient, CallLocks, CallAsks, CallRefused,
      CallHears, clientVars
  <2>2. \A d \in Calls \ {c} : pc'[d] = pc[d] /\ target'[d] = target[d]
    BY <1>0, <1>3 DEF Call, Proceed, FindRuntime, FindClient, CallLocks, CallAsks,
      CallRefused, CallHears, Goto, PcType, MapsType, mapVars
  <2>3. CASE CallAsks(c)
    <3>1. PICK s \in Servers : Uses(c, s) /\ (s \in Stdio => connected[s])
      BY <2>3 DEF CallAsks
    <3>2. target' = target
      BY <2>3 DEF CallAsks, mapVars
    <3> QED
      BY <1>0, <2>1, <2>2, <3>1, <3>2 DEF ShutdownInterruptsNobody, Uses
  <2>4. CASE ~CallAsks(c)
    <3>1. pc'[c] # "sent"
      BY <1>0, <1>3, <2>4 DEF Call, Proceed, FindRuntime, FindClient, CallLocks,
        CallRefused, CallHears, Goto, PcType
    <3> QED
      BY <1>1, <2>1, <2>2, <3>1
  <2> QED
    BY <2>3, <2>4
<1>4. ASSUME NEW l \in Listers, List(l) \/ ProceedListing(l)
      PROVE  ShutdownInterruptsNobody'
  <2>1. connected' = connected /\ target' = target
    BY <1>4 DEF List, ProceedListing, ListLocks, ListReads, ListEnds, clientVars, mapVars
  <2>2. \A c \in Calls : pc'[c] = pc[c]
    BY <1>0, <1>4 DEF List, ProceedListing, ListLocks, ListReads, ListEnds, Goto, PcType
  <2> QED
    BY <1>1, <2>1, <2>2
<1>5. CASE Shutdown \/ Close
  <2>1. \A c \in Calls : pc'[c] = pc[c] /\ target'[c] = target[c]
    BY <1>0, <1>5 DEF Shutdown, Close, ShutdownLocks, RuntimeLocks, CloseClient,
      ShutdownReturns, Goto, PcType, mapVars
  <2>2. CASE \E s \in Servers : CloseClient(s)
    <3>1. PICK s \in Servers : CloseClient(s)
      BY <2>2
    <3>2. \A c \in Calls : pc[c] = "sent" => ~Uses(c, s)
      <4>1. ASSUME NEW c \in Calls, pc[c] = "sent", Uses(c, s) PROVE FALSE
        <5>1. Occupies(c, s)
          BY <4>1 DEF Occupies
        <5>2. holder[s] = {c}
          BY <1>0, <5>1 DEF Exclusion
        <5> QED
          BY <3>1, <5>2 DEF CloseClient
      <4> QED
        BY <4>1
    <3>3. \A r \in Servers \ {s} : connected'[r] = connected[r]
      BY <1>0, <3>1 DEF CloseClient, ClientTypeOK
    <3> QED
      BY <1>0, <2>1, <3>2, <3>3 DEF ShutdownInterruptsNobody, Uses
  <2>3. CASE ~\E s \in Servers : CloseClient(s)
    <3>1. connected' = connected
      BY <1>5, <2>3 DEF Shutdown, Close, ShutdownLocks, RuntimeLocks, ShutdownReturns,
        clientVars
    <3> QED
      BY <1>1, <2>1, <3>1
  <2> QED
    BY <2>2, <2>3
<1>6. CASE ServerNext /\ UNCHANGED <<lockVars, pc, mapVars>>
  <2>1. UNCHANGED <<connected, pc, target>>
    BY <1>6 DEF ServerNext, Answers, Chatters, Exits, KilledByContext, mapVars
  <2> QED
    BY <1>1, <2>1
<1>7. CASE InitializeTimesOut \/ UNCHANGED vars
  <2>1. UNCHANGED <<connected, pc, target>>
    BY <1>7 DEF InitializeTimesOut, vars, clientVars, mapVars
  <2> QED
    BY <1>1, <2>1
<1> QED
  BY <1>2, <1>3, <1>4, <1>5, <1>6, <1>7 DEF Next

\* The shutdown takes the process of no call that waits for its answer, for any
\* servers, configuration, calls and listings (client.go:203-231, 262-275).
THEOREM NobodyInterrupted == Spec => []ShutdownInterruptsNobody
<1>1. SafeSpec => []InterruptsNobody
  BY InitInterruptsNobody, StepInterruptsNobody, PTL DEF SafeSpec
<1>2. InterruptsNobody => ShutdownInterruptsNobody
  BY DEF InterruptsNobody
<1> QED
  BY <1>1, <1>2, PTL DEF Spec

-----------------------------------------------------------------------------

Reading == {l \in Listers : pc[l] \in {"reading", "read"}}

\* The registry's lock while it is shut down: those that read are the listers
\* inside, none comes after Main has asked to write, and none is left once it does.
Shutting ==
  /\ readers["registry"] = Reading
  /\ pc[Main] \in Closing => Main \in writers["registry"]
  /\ pc[Main] \in {"closingRuntime", "closingClients"} => Reading = {}

\* Nobody reads and nobody closes at first.
LEMMA InitShutting == Init => Shutting
BY Members, RuntimeAssumption
DEF Init, LocksInit, Shutting, Reading, Closing

\* A step that takes no lock and leaves listers and the closing Main where they are.
LEMMA OthersKeepShutting ==
  ASSUME Shutting, UNCHANGED lockVars, \A l \in Listers : pc'[l] = pc[l],
         pc'[Main] = pc[Main] \/ pc'[Main] \notin Closing
  PROVE  Shutting'
<1>1. Reading' = Reading
  BY DEF Reading
<1> QED
  BY <1>1 DEF Shutting, lockVars, Closing

\* Every step keeps the order of the registry's lock.
LEMMA StepKeepsShutting == Typed /\ Shutting /\ [Next]_vars => Shutting'
<1> SUFFICES ASSUME Typed, Shutting, [Next]_vars PROVE Shutting'
  OBVIOUS
<1>0. /\ PcType /\ LocksTypeOK(Goroutines) /\ "registry" \in Locks /\ "runtime" \in Locks
  BY TypeParts, RuntimeAssumption DEF Typed
<1> USE Members
<1>1. CASE Initialize
  <2>1. UNCHANGED lockVars
    BY <1>1 DEF Initialize, ConnectStarts, ConnectFails, AskHandshake, HearHandshake,
      AskTools, HearTools, InitializeReturns
  <2>2. \A l \in Listers : pc'[l] = pc[l]
    BY <1>0, <1>1 DEF Initialize, ConnectStarts, ConnectFails, AskHandshake, HearHandshake,
      AskTools, HearTools, InitializeReturns, Goto, NextServer, PcType
  <2>3. pc'[Main] = pc[Main] \/ pc'[Main] \notin Closing
    BY <1>0, <1>1 DEF Initialize, ConnectStarts, ConnectFails, AskHandshake, HearHandshake,
      AskTools, HearTools, InitializeReturns, Goto, NextServer, PcType, Closing
  <2> QED
    BY <2>1, <2>2, <2>3, OthersKeepShutting
<1>2. ASSUME NEW c \in Calls, Call(c) \/ Proceed(c) PROVE Shutting'
  <2>1. UNCHANGED lockVars
    BY <1>2 DEF Call, Proceed, FindRuntime, FindClient, CallLocks, CallAsks, CallRefused,
      CallHears
  <2>2. \A g \in Goroutines \ {c} : pc'[g] = pc[g]
    BY <1>0, <1>2 DEF Call, Proceed, FindRuntime, FindClient, CallLocks, CallAsks,
      CallRefused, CallHears, Goto, PcType
  <2> QED
    BY <2>1, <2>2, OthersKeepShutting
<1>3. ASSUME NEW l \in Listers, List(l) \/ ProceedListing(l) PROVE Shutting'
  <2>0. /\ \A g \in Goroutines \ {l} : pc'[g] = pc[g]
        /\ writers' = writers
    BY <1>0, <1>3 DEF List, ProceedListing, ListLocks, ListReads, ListEnds, Goto, PcType,
      RLock, RUnlock, lockVars
  <2>1. CASE List(l)
    <3>1. pc[l] = "idle" /\ pc'[l] = "begun" /\ readers' = readers
      BY <1>0, <2>1 DEF List, Goto, PcType, lockVars
    <3>2. Reading' = Reading
      BY <2>0, <3>1 DEF Reading
    <3> QED
      BY <2>0, <3>1, <3>2 DEF Shutting
  <2>2. CASE ListLocks(l)
    <3>1. /\ pc[l] = "begun" /\ pc'[l] = "reading" /\ writers["registry"] = {}
          /\ readers'["registry"] = readers["registry"] \cup {l}
      BY <1>0, <2>2 DEF ListLocks, Goto, PcType, RLock, Readable, LocksTypeOK
    <3>2. pc[Main] \notin Closing
      BY <3>1 DEF Shutting
    <3>3. Reading' = Reading \cup {l}
      BY <2>0, <3>1 DEF Reading
    <3> QED
      BY <2>0, <3>1, <3>2, <3>3 DEF Shutting, Closing
  <2>3. CASE ListReads(l)
    <3>1. pc[l] = "reading" /\ pc'[l] = "read" /\ readers' = readers
      BY <1>0, <2>3 DEF ListReads, Goto, PcType, lockVars
    <3>2. Reading' = Reading
      BY <2>0, <3>1 DEF Reading
    <3> QED
      BY <2>0, <3>1, <3>2 DEF Shutting
  <2>4. CASE ListEnds(l)
    <3>1. /\ pc[l] = "read" /\ pc'[l] = "done"
          /\ readers'["registry"] = readers["registry"] \ {l}
      BY <1>0, <2>4 DEF ListEnds, Goto, PcType, RUnlock, LocksTypeOK
    <3>2. Reading' = Reading \ {l}
      BY <2>0, <3>1 DEF Reading
    <3> QED
      BY <2>0, <3>1, <3>2 DEF Shutting
  <2> QED
    BY <1>3, <2>1, <2>2, <2>3, <2>4 DEF ProceedListing
<1>4. CASE Shutdown \/ Close
  <2>0. \A g \in Goroutines \ {Main} : pc'[g] = pc[g]
    BY <1>0, <1>4 DEF Shutdown, Close, ShutdownLocks, RuntimeLocks, CloseClient,
      ShutdownReturns, Goto, PcType
  <2>1. readers' = readers /\ Reading' = Reading
    BY <1>4, <2>0 DEF Shutdown, Close, ShutdownLocks, RuntimeLocks, CloseClient,
      ShutdownReturns, AskToWrite, Lock, Unlock, lockVars, Reading
  <2>2. CASE Shutdown
    <3>1. pc'[Main] = "closing" /\ Main \in writers'["registry"]
      BY <1>0, <2>2 DEF Shutdown, Goto, PcType, AskToWrite, LocksTypeOK
    <3> QED
      BY <2>0, <2>1, <3>1 DEF Shutting
  <2>3. CASE ShutdownLocks
    <3>1. /\ pc[Main] = "closing" /\ pc'[Main] = "closingRuntime"
          /\ readers["registry"] = {} /\ writers' = writers
      BY <1>0, <2>3 DEF ShutdownLocks, Goto, PcType, Lock
    <3> QED
      BY <2>0, <2>1, <3>1 DEF Shutting, Closing
  <2>4. CASE RuntimeLocks
    <3>1. /\ pc[Main] = "closingRuntime" /\ pc'[Main] = "closingClients"
          /\ writers'["registry"] = writers["registry"]
      BY <1>0, <2>4 DEF RuntimeLocks, Goto, PcType, LocksTypeOK
    <3> QED
      BY <2>0, <2>1, <3>1 DEF Shutting, Closing
  <2>5. CASE \E s \in Servers : CloseClient(s)
    <3>1. UNCHANGED <<lockVars, pc>>
      BY <2>5 DEF CloseClient
    <3> QED
      BY <3>1, OthersKeepShutting
  <2>6. CASE ShutdownReturns
    <3>1. pc'[Main] = "closed"
      BY <1>0, <2>6 DEF ShutdownReturns, Goto, PcType
    <3> QED
      BY <2>1, <3>1 DEF Shutting, Closing
  <2> QED
    BY <1>4, <2>2, <2>3, <2>4, <2>5, <2>6 DEF Close
<1>5. CASE ServerNext /\ UNCHANGED <<lockVars, pc, mapVars>>
  BY <1>5, OthersKeepShutting
<1>6. CASE InitializeTimesOut \/ UNCHANGED vars
  <2>1. UNCHANGED <<lockVars, pc>>
    BY <1>6 DEF InitializeTimesOut, vars
  <2> QED
    BY <2>1, OthersKeepShutting
<1> QED
  BY <1>1, <1>2, <1>3, <1>4, <1>5, <1>6 DEF Next

\* The registry's lock is in order in every state.
LEMMA AlwaysShutting == Spec => [](Answering /\ Shutting)
<1>1. Answering /\ Shutting /\ [Next]_vars => (Answering /\ Shutting)'
  BY StepKeepsAnswers, StepKeepsShutting DEF Answering
<1>2. SafeSpec => [](Answering /\ Shutting)
  BY <1>1, InitAnswering, InitShutting, PTL DEF SafeSpec
<1> QED
  BY <1>2, PTL DEF Spec

\* For any servers, configuration, calls and listings, who keeps the registry's lock
\* from ShutdownMCP lists tools, and who holds a client it closes is a call past the
\* locks that ShutdownMCP has by then (registry.go:257-264, client.go:203-231 and
\* 462-471).
THEOREM WaitsForTheseOnly == Spec => []ShutdownWaitsForTheseOnly
<1>1. ASSUME Answering, Shutting PROVE ShutdownWaitsForTheseOnly
  <2>0. Exclusion /\ ClientTypeOK
    BY <1>1, TypeParts DEF Answering, Typed
  <2>1. \A g \in readers["registry"] : g \in Listers /\ pc[g] \in {"reading", "read"}
    BY <1>1 DEF Shutting, Reading
  <2>2. ASSUME pc[Main] = "closingClients", NEW s \in Servers, NEW g \in holder[s]
        PROVE  g \in Calls /\ pc[g] \in {"locked", "sent"}
    <3>1. g \in Goroutines
      BY <2>0 DEF ClientTypeOK
    <3>2. Occupies(g, s)
      BY <2>0, <3>1 DEF Exclusion
    <3> QED
      BY <2>2, <3>1, <3>2, RuntimeAssumption DEF Occupies
  <2> QED
    BY <2>1, <2>2 DEF ShutdownWaitsForTheseOnly
<1> QED
  BY <1>1, AlwaysShutting, PTL

\* The shutdown waits for listings under way and for the calls that are with a client,
\* and interrupts none, for any servers, configuration, calls and listings
\* (registry.go:257-264, client.go:203-275).
THEOREM CallsEndFirst == Spec => []ShutdownLetsCallsEnd
BY NobodyInterrupted, WaitsForTheseOnly, PTL DEF ShutdownLetsCallsEnd

\* No tools are listed while the clients are closed: a listing that is under way ends
\* first or, having to lock to read once more, never does (registry.go:257-264,
\* 309-312).
THEOREM ListersKeptOut ==
  Spec => [](pc[Main] \in {"closingRuntime", "closingClients"} =>
               \A l \in Listers : pc[l] \notin {"reading", "read"})
<1>1. Shutting => (pc[Main] \in {"closingRuntime", "closingClients"} =>
                     \A l \in Listers : pc[l] \notin {"reading", "read"})
  BY DEF Shutting, Reading
<1> QED
  BY <1>1, AlwaysShutting, PTL
=============================================================================

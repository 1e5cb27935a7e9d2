------------------------------ MODULE HttpApi ------------------------------
(***************************************************************************)
(* The handlers of internal/httpapi that change state or read what others  *)
(* change, behind the middleware of auth.go as httpapi_test.go puts it     *)
(* before a handler (the application itself does not install it): what a   *)
(* request asks for is given, how the steps of requests interleave is not. *)
(*                                                                         *)
(* asks[g].op is                                                           *)
(*   "save", "latest", "get", "list"   of /api/report and /api/reports     *)
(*   "empty"      a POST to /api/report without a report, or to /trigger   *)
(*                with names that are no agents'                           *)
(*   "trigger"    a POST to /trigger                                       *)
(*   "history"    GETs of /api/operations?type=history, page by page       *)
(*   "write"      no request: a round of the scheduler, at its report      *)
(* and asks[g].fallsBack has the agents of a triggered round that take an  *)
(* instance from the executor's cache (executor.go:84-96).                 *)
(***************************************************************************)
EXTENDS AuthLimiter, Reports, OperationsHistory, AgentCache

CONSTANT Workloads    \* what the goroutines may ask for

VARIABLES
  asks,
  pc,             \* where each request is
  due,            \* agents that its round has yet to run
  offset,         \* of its next page
  got,            \* serials of the records it has got
  existed         \* history: of those there were at its first page

apiVars == <<asks, pc, due, offset, got, existed>>
vars == <<now, limiterVars, reportVars, historyVars, cacheVars, apiVars>>

Ops == {"save", "latest", "get", "list", "empty", "trigger", "history", "write"}

Asks == [op : Ops, from : Addresses, exempt : BOOLEAN, valid : BOOLEAN,
         agents : SUBSET Agents, fallsBack : SUBSET Agents, results : SUBSET BOOLEAN,
         limit : 1..MaxInt, offset : 0..MaxInt]

ASSUME ApiAssumption == Workloads \subseteq [Goroutines -> Asks] /\ Agents \subseteq Keys

TypeOK ==
  /\ LimiterTypeOK
  /\ ReportsTypeOK
  /\ HistoryTypeOK
  /\ CacheTypeOK
  /\ asks \in Workloads
  /\ pc \in [Goroutines -> {"arrived", "admitted", "failing", "passed", "busy", "answered",
                            "refused", "unauthorized", "panicked"}]
  /\ due \in [Goroutines -> SUBSET Agents]
  /\ offset \in [Goroutines -> Nat]
  /\ got \in [Goroutines -> SUBSET Nat]
  /\ existed \in [Goroutines -> SUBSET Nat]

Init ==
  /\ ClockInit
  /\ LimiterInit
  /\ ReportsInit
  /\ HistoryInit
  /\ CacheInit
  /\ asks \in Workloads
  /\ pc = [g \in Goroutines |-> IF asks[g].op = "write" THEN "passed" ELSE "arrived"]
  /\ due = [g \in Goroutines |-> {}]
  /\ offset = [g \in Goroutines |-> asks[g].offset]
  /\ got = [g \in Goroutines |-> {}]
  /\ existed = [g \in Goroutines |-> {}]

Goto(g, from, to) ==
  /\ pc[g] = from
  /\ pc' = [pc EXCEPT ![g] = to]

-----------------------------------------------------------------------------

\* authCheck: critical sections of the limiter, the tokens and the limiter.

\* The path is exempt, or no tokens are configured.
Exempt(g) ==
  /\ asks[g].exempt
  /\ Goto(g, "arrived", "passed")
  /\ UNCHANGED <<now, limiterVars, reportVars, historyVars, cacheVars, asks, due, offset, got, existed>>

AsksLimiter(g) ==
  /\ ~asks[g].exempt
  /\ Goto(g, "arrived", IF IsBlocked(asks[g].from) THEN "refused" ELSE "admitted")
  /\ UNCHANGED <<now, limiterVars, reportVars, historyVars, cacheVars, asks, due, offset, got, existed>>

ChecksToken(g) ==
  /\ Goto(g, "admitted", IF asks[g].valid THEN "passed" ELSE "failing")
  /\ UNCHANGED <<now, limiterVars, reportVars, historyVars, cacheVars, asks, due, offset, got, existed>>

Fails(g) ==
  /\ Goto(g, "failing", "unauthorized")
  /\ RecordFailure(asks[g].from)
  /\ UNCHANGED <<reportVars, historyVars, cacheVars, asks, due, offset, got, existed>>

-----------------------------------------------------------------------------

\* handleReportDetail, handleReportPOST, handleReportsList and writeReport.

UsesReports(g) ==
  /\ asks[g].op \in Jobs
  /\ Goto(g, "passed", "busy")
  /\ Begin(g, asks[g].op)
  /\ UNCHANGED <<now, limiterVars, historyVars, cacheVars, asks, due, offset, got, existed>>

Reporting(g) ==
  /\ ReportStep(g)
  /\ UNCHANGED <<now, limiterVars, historyVars, cacheVars, apiVars>>

AnswersAtOnce(g) ==
  /\ asks[g].op = "empty"
  /\ Goto(g, "passed", "answered")
  /\ UNCHANGED <<now, limiterVars, reportVars, historyVars, cacheVars, asks, due, offset, got, existed>>

\* handleTrigger: the round of the agents named, or of all, runs on its own.  Without a
\* scheduler, which only RegisterRoutes leaves out and the application does not use, the
\* request would run them itself, one by one, before it is answered (server.go:223-233).
Trigger(g) ==
  LET filtered == IF asks[g].agents = {} THEN Agents ELSE asks[g].agents IN
  /\ asks[g].op = "trigger"
  /\ Goto(g, "passed", "answered")
  /\ due' = [due EXCEPT ![g] = filtered]
  /\ UNCHANGED <<now, limiterVars, reportVars, historyVars, cacheVars, asks, offset, got, existed>>

\* An attempt of one of its executions whose self-driven worker has failed.
TakesAgent(g) ==
  /\ \E a \in due[g] \cap asks[g].fallsBack : GetOrCreate(a)
  /\ UNCHANGED <<limiterVars, reportVars, historyVars, apiVars>>

\* The executor records what the round runs, in any order.
RunsAgent(g) ==
  /\ \E a \in due[g], success \in BOOLEAN :
       /\ due' = [due EXCEPT ![g] = @ \ {a}]
       /\ Record(a, success)
  /\ UNCHANGED <<now, limiterVars, reportVars, cacheVars, asks, pc, offset, got, existed>>

\* handleOperations, once for each page, until one is not full: the next page begins
\* where this one ended.
NextPage(g) ==
  LET matching == Matching(asks[g].agents, asks[g].results)
      page == Page(matching, asks[g].limit, offset[g])
  IN /\ asks[g].op = "history"
     /\ existed' = IF offset[g] = asks[g].offset
                   THEN [existed EXCEPT ![g] = Serials(matching)] ELSE existed
     /\ IF Panics(matching, asks[g].limit, offset[g])
        THEN Goto(g, "passed", "panicked") /\ UNCHANGED <<got, offset>>
        ELSE /\ Goto(g, "passed", IF Cardinality(page) < asks[g].limit THEN "answered" ELSE "passed")
             /\ got' = [got EXCEPT ![g] = @ \cup Serials(page)]
             /\ offset' = [offset EXCEPT ![g] = @ + Cardinality(page)]
     /\ UNCHANGED <<now, limiterVars, reportVars, historyVars, cacheVars, asks, due>>

Ticks == Tick /\ UNCHANGED <<limiterVars, reportVars, historyVars, cacheVars, apiVars>>

-----------------------------------------------------------------------------

Step(g) ==
  \/ Exempt(g) \/ AsksLimiter(g) \/ ChecksToken(g) \/ Fails(g)
  \/ UsesReports(g) \/ Reporting(g) \/ AnswersAtOnce(g)
  \/ Trigger(g) \/ TakesAgent(g) \/ RunsAgent(g) \/ NextPage(g)

Next == Ticks \/ \E g \in Goroutines : Step(g)

Spec == Init /\ [][Next]_vars

-----------------------------------------------------------------------------

\* Who reads the history page by page gets every record that was there at the
\* first page and still is at the last, however many are recorded meanwhile
\* (manager.go:96-132: pages are counted from the newest, and the cap forgets the
\* oldest); some it may get twice.
PagesMissNothing ==
  \A g \in Goroutines :
    asks[g].op = "history" /\ asks[g].offset = 0 /\ pc[g] = "answered"
      => existed[g] \cap Serials(records) \subseteq got[g]
=============================================================================

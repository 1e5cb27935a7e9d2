----------------------------- MODULE McpClient -----------------------------
(***************************************************************************)
(* StdioClient and HTTPClient of internal/mcp/client.go: how a goroutine   *)
(* that holds the mutex of a client gets an answer from its server.        *)
(*                                                                         *)
(* A stdio client writes its request on one pipe and takes the next line   *)
(* of the other for the answer, whatever its id says.  The server at the   *)
(* other end is a process the code only starts and kills: it answers the   *)
(* requests it reads in order, or stays silent, exits, or writes lines     *)
(* nobody asked for.  An HTTP client has the answer in the response.       *)
(***************************************************************************)
EXTENDS Naturals, Sequences

CONSTANTS
  Goroutines,          \* goroutines that may use a client
  Servers,
  Stdio,          \* servers run as a process; the others are reached by HTTP
  Chatty,         \* stdio servers that may write a line nobody asked for
  Unstable        \* stdio servers that may exit by themselves

ASSUME ClientAssumption ==
  /\ Stdio \subseteq Servers
  /\ Chatty \subseteq Stdio
  /\ Unstable \subseteq Stdio

VARIABLES
  holder,         \* c.mu: the goroutine that holds it, if any
  connected,      \* c.cmd: is it non-nil?
  process,        \* the server's process
  id,             \* c.id
  toServer,       \* ids of the requests in the pipe to the server
  fromServer,     \* lines in the pipe from the server
  chattered,      \* servers that have written a line nobody asked for
  ctxDone,        \* the context of Runtime.Initialize is done
  asked,          \* the id of the last request of each goroutine
  heard           \* what send returned to each goroutine

pipeVars == <<toServer, fromServer, chattered>>
clientVars == <<holder, connected, process, id, pipeVars, ctxDone, asked, heard>>

\* A line, by what send makes of it and the request it answers: 0 for a line
\* nobody asked for.
Lines == [is : {"result", "error"}, re : Nat]

Awaited == [is |-> "awaited", re |-> 0]
Failed == [is |-> "error", re |-> 0]

ClientTypeOK ==
  /\ holder \in [Servers -> SUBSET Goroutines]
  /\ connected \in [Servers -> BOOLEAN]
  /\ process \in [Servers -> {"none", "up", "down"}]
  /\ id \in [Servers -> Nat]
  /\ toServer \in [Servers -> Seq(Nat \ {0})]
  /\ fromServer \in [Servers -> Seq(Lines)]
  /\ chattered \in SUBSET Chatty
  /\ ctxDone \in BOOLEAN
  /\ asked \in [Goroutines -> Nat]
  /\ heard \in [Goroutines -> Lines \cup {Awaited}]

ClientInit ==
  /\ holder = [s \in Servers |-> {}]
  /\ connected = [s \in Servers |-> FALSE]
  /\ process = [s \in Servers |-> "none"]
  /\ id = [s \in Servers |-> 0]
  /\ toServer = [s \in Servers |-> <<>>]
  /\ fromServer = [s \in Servers |-> <<>>]
  /\ chattered = {}
  /\ ctxDone = FALSE
  /\ asked = [g \in Goroutines |-> 0]
  /\ heard = [g \in Goroutines |-> Failed]

-----------------------------------------------------------------------------

LockClient(g, s) ==
  /\ holder[s] = {}
  /\ holder' = [holder EXCEPT ![s] = {g}]

UnlockClient(g, s) == holder' = [holder EXCEPT ![s] = @ \ {g}]

\* mkRequest and the first half of send.  The write fails when the process is
\* gone; then send returns an error and reads nothing.
SendWrites(g, s) ==
  LET next == id[s] + 1 IN
  /\ id' = [id EXCEPT ![s] = next]
  /\ asked' = [asked EXCEPT ![g] = next]
  /\ IF s \in Stdio /\ process[s] # "up"
     THEN heard' = [heard EXCEPT ![g] = Failed] /\ UNCHANGED toServer
     ELSE /\ heard' = [heard EXCEPT ![g] = Awaited]
          /\ toServer' = [toServer EXCEPT
                ![s] = IF s \in Stdio THEN Append(@, next) ELSE @]
  /\ UNCHANGED <<fromServer, chattered>>

\* The second half: the next line of the pipe, or its end.
SendReads(g, s) ==
  /\ s \in Stdio
  /\ \/ /\ heard[g] # Awaited
        /\ UNCHANGED <<heard, fromServer>>
     \/ /\ heard[g] = Awaited /\ fromServer[s] # <<>>
        /\ heard' = [heard EXCEPT ![g] = Head(fromServer[s])]
        /\ fromServer' = [fromServer EXCEPT ![s] = Tail(@)]
     \/ /\ heard[g] = Awaited /\ fromServer[s] = <<>> /\ process[s] = "down"
        /\ heard' = [heard EXCEPT ![g] = Failed]
        /\ UNCHANGED fromServer
  /\ UNCHANGED <<toServer, chattered>>

\* The response to the POST; "error" stands for no response in time as well.
PostReturns(g, s) ==
  /\ s \notin Stdio
  /\ \E line \in [is : {"result", "error"}, re : {asked[g]}] :
       heard' = [heard EXCEPT ![g] = line]
  /\ UNCHANGED pipeVars

Answered(g, s) == SendReads(g, s) \/ PostReturns(g, s)

Kill(s) ==
  process' = [process EXCEPT ![s] = IF @ = "up" THEN "down" ELSE @]

-----------------------------------------------------------------------------

\* The process of a server, which takes no lock of the client.

\* The server answers the oldest request it has not read.
Answers(s) ==
  /\ process[s] = "up" /\ toServer[s] # <<>>
  /\ \E is \in {"result", "error"} :
       fromServer' = [fromServer EXCEPT
                        ![s] = Append(@, [is |-> is, re |-> Head(toServer[s])])]
  /\ toServer' = [toServer EXCEPT ![s] = Tail(@)]
  /\ UNCHANGED <<holder, connected, process, id, chattered, ctxDone, asked, heard>>

\* A notification, or a line that is not JSON; at most one, to bound the pipe.
Chatters(s) ==
  /\ process[s] = "up" /\ s \in Chatty \ chattered
  /\ chattered' = chattered \cup {s}
  /\ \E is \in {"result", "error"} :
       fromServer' = [fromServer EXCEPT ![s] = Append(@, [is |-> is, re |-> 0])]
  /\ UNCHANGED <<holder, connected, process, id, toServer, ctxDone, asked, heard>>

Exits(s) ==
  /\ s \in Unstable /\ process[s] = "up"
  /\ Kill(s)
  /\ UNCHANGED <<holder, connected, id, pipeVars, ctxDone, asked, heard>>

\* exec.CommandContext: the process is killed when its context is done.
KilledByContext(s) ==
  /\ ctxDone /\ process[s] = "up"
  /\ Kill(s)
  /\ UNCHANGED <<holder, connected, id, pipeVars, ctxDone, asked, heard>>

ServerNext ==
  \E s \in Stdio : Answers(s) \/ Chatters(s) \/ Exits(s) \/ KilledByContext(s)
=============================================================================

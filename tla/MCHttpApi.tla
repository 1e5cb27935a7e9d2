----------------------------- MODULE MCHttpApi -----------------------------
(***************************************************************************)
(* Three goroutines, with the requests of one workload.                    *)
(***************************************************************************)
EXTENDS HttpApi, TLC

CONSTANTS g1, g2, g3, home, away, a, b, d

ThreeGoroutines == {g1, g2, g3}
TwoAddresses == {home, away}
TwoAgents == {a, b}
ThreeAgents == {a, b, d}
TwoStored == {-2, -1}

\* A request that needs no token.
To(op) == [op |-> op, from |-> home, exempt |-> TRUE, valid |-> FALSE, agents |-> {},
           fallsBack |-> {}, results |-> BOOLEAN, limit |-> 1, offset |-> 0]
Guess == [To("empty") EXCEPT !.exempt = FALSE]
Enter == [To("empty") EXCEPT !.exempt = FALSE, !.valid = TRUE]
TriggerBoth == [To("trigger") EXCEPT !.agents = TwoAgents]
TriggerCached == [To("trigger") EXCEPT !.fallsBack = ThreeAgents]
TriggerCached1 == [TriggerCached EXCEPT !.agents = {a}]
Trigger1 == [To("trigger") EXCEPT !.agents = {a}]
ReadAll == [To("history") EXCEPT !.agents = TwoAgents]
ReadFailures == [To("history") EXCEPT !.agents = {a}, !.results = {FALSE}]
ReadTooMany == [To("history") EXCEPT !.agents = TwoAgents, !.limit = MaxInt, !.offset = 1]

Three(x, y, z) == g1 :> x @@ g2 :> y @@ g3 :> z

NineWorkloads == {
  Three(Guess, Guess, Guess),
  Three(Guess, Guess, [Enter EXCEPT !.from = away]),
  Three(To("save"), To("save"), To("latest")),
  Three(To("save"), To("write"), To("get")),
  Three(To("save"), To("save"), To("list")),
  Three(TriggerBoth, TriggerBoth, ReadAll),
  Three(TriggerBoth, Trigger1, ReadFailures),
  Three(TriggerBoth, Trigger1, ReadTooMany),
  Three(TriggerCached, TriggerCached1, To("empty"))
}
=============================================================================

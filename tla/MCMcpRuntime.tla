---------------------------- MODULE MCMcpRuntime ----------------------------
(***************************************************************************)
(* Two servers, one by HTTP and one that is a process; both offer tool t,  *)
(* which is routed to the later of them that can be connected.             *)
(***************************************************************************)
EXTENDS McpRuntime, TLC

CONSTANTS http, stdio, t, u, main, c1, c2, l1

TwoServers == {http, stdio}
OneStdio == {stdio}
None == {}
HttpFirst == <<http, stdio>>
TwoTools == {t, u}
BothOfferT == (http :> {t, u}) @@ (stdio :> {t})
TwoCalls == {c1, c2}
OneLister == {l1}
AllOfT == [c \in TwoCalls |-> t]
TwoLocks == {"registry", "runtime"}
AllGoroutines == {main} \cup TwoCalls \cup OneLister
=============================================================================

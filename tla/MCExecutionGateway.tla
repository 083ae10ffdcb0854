-------------------------- MODULE MCExecutionGateway --------------------------
(* Instances of ExecutionGateway for TLC: who runs where is fixed here. *)
EXTENDS ExecutionGateway, TLC

CONSTANTS t1, t2, g1, g2

\* Two threads of one MCP server share its gateway and its lock.
OneProcess == (t1 :> g1) @@ (t2 :> g1)

\* Two processes, each with a gateway of its own, on the same table.
TwoProcesses == (t1 :> g1) @@ (t2 :> g2)

AllPaper == [g \in Gateways |-> "paper"]

\* One has a broker of its own, the other the adapter of the exchange.
MixedStyles == (g1 :> "dict") @@ (g2 :> "order")
DictStyle == [g \in Gateways |-> "dict"]

Symmetry == Permutations(Actors)
=============================================================================

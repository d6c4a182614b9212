-------------------------- MODULE MCUntronSystem --------------------------
(* Small instances of UntronSystem: the transactions its blocks hold.       *)
EXTENDS UntronSystem

CONSTANTS r1, a

Pay(n) == [to |-> r1, value |-> n, success |-> TRUE]

MCPayments   == {<<Pay(1)>>}
MCPassed     == {<<>>, <<Pay(1), Pay(1)>>}
MCMinDeposit == [id \in Ids |-> 2]
=============================================================================

-------------------------- MODULE MCUntronProgram --------------------------
(* Small instances of UntronProgram: the transactions its blocks hold, the  *)
(* lists that may be passed instead, and a minimum above the payments.      *)
EXTENDS UntronProgram

CONSTANTS r1, a, b, c, d

Pay(n)     == [to |-> r1, value |-> n, success |-> TRUE]
Failed(n)  == [Pay(n) EXCEPT !.success = FALSE]
Vote(p, n) == [to |-> p, value |-> n, success |-> TRUE]

MCPayments == {<<Pay(1)>>, <<Failed(1)>>}
MCMixed    == {<<Failed(1), Pay(1)>>}
MCVotes    == {<<Vote(a, 1), Vote(c, 1), Vote(d, 1)>>, <<Vote(b, 1)>>}

\* All the lists of at most n of the transactions of some lists.
Relisted(lists, n) == UNION {[1..m -> UNION {ToSet(l) : l \in lists}] : m \in 0..n}

MCPassedPayments == Relisted(MCPayments, 2)
MCPassedVotes ==
  LET inOrder == <<Vote(a, 1), Vote(c, 1), Vote(d, 1)>>
  IN  Relisted(MCVotes, 2) \cup {Append(inOrder, vote) : vote \in ToSet(inOrder)}
MCMinDeposit     == [id \in Ids |-> 2]
=============================================================================

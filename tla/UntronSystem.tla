---------------------------- MODULE UntronSystem ----------------------------
(***************************************************************************)
(* The contract, the ZK program and the provers over one action chain.     *)
(* The contract is its order book, which UntronCore implements.  A prover  *)
(* runs the program from a state of its choice and sends the proof to      *)
(* closeOrders; it goes on from the state it proved without waiting to see *)
(* the proof accepted (relayer.rs:205-209), starts again from another one  *)
(* after a crash, and is not alone.  Proofs are delayed, lost, sent twice  *)
(* and in any order.                                                       *)
(*                                                                         *)
(* A state of the program stands for its hash.  A proof is assumed to      *)
(* reach closeOrders as the four values that it decodes, as main.rs:10     *)
(* asks, though main.rs:54-64 commits seven.  A call of the contract is    *)
(* one step: the code of others that fulfill and closeOrders call does not *)
(* call back.                                                              *)
(*                                                                         *)
(* The variable state of the program is the state that the present run     *)
(* starts from (the contract's when there is none), reported is what the   *)
(* contract was told.  Others move while no run is under way.              *)
(***************************************************************************)
EXTENDS UntronProgram

CONSTANTS
  RECEIVER_TTL,  \* 300: what the contract calls ORDER_TTL
  ZeroAddress,   \* address(0), one of the addresses that the chain may name
  Patched,       \* receivers that the owner patches the chain with, in an emergency
  MaxBatch,      \* bound: orders in one call
  MaxProofs      \* bound: proofs made

ASSUME SystemAssumption ==
  /\ RECEIVER_TTL \in Nat /\ ZeroAddress \in Addresses /\ Patched \subseteq Addresses
  /\ MaxBatch \in Nat /\ MaxProofs \in Nat

VARIABLES status, busy,  \* the order book
          proven,        \* stateHash: the state of the program it stands for
          proofs         \* the proofs made so far; any may arrive at any time

book       == <<status, busy, proven>>
systemVars == <<vars, book, proofs>>

Book == INSTANCE OrderBook WITH
  Receivers <- Addresses \ {ZeroAddress}, ORDER_TTL <- RECEIVER_TTL

\* The contract's state and what it was told, seen as those of a single prover.
AtContract == INSTANCE UntronProgram WITH state <- proven

SystemInit == Init /\ Book!Init /\ proven = state /\ proofs = {}

-----------------------------------------------------------------------------
\* A call to the contract.  Bound: room on the chain.
Call(step) ==
  /\ pc = "idle" /\ step /\ Len(chain') <= MaxActions
  /\ state' = proven' /\ work' = proven'
  /\ UNCHANGED <<tron, solid, pc, active, closed, blocks, txs, proofs>>

Creators ==
  \/ \E receiver \in Addresses \ {ZeroAddress}, size \in Sizes :
       Call(Book!Open(receiver, size))
  \/ \E id \in DOMAIN chain : Call(Book!Stop(id))

Fulfillers ==
  \E ids \in Book!Lists(DOMAIN chain) : Call(Book!Fulfill(ids))

Providers ==
  \E receiver \in Addresses \ {ZeroAddress} : Call(Book!Release(<<receiver>>))

Owner ==
  \E receiver \in Patched, size \in Sizes : Call(Book!Patch(receiver, size))

Users == (Creators \/ Fulfillers \/ Providers \/ Owner) /\ UNCHANGED reported

PassTime ==
  /\ pc = "idle" /\ now < MaxTime /\ now' = now + 1
  /\ UNCHANGED <<chain, tron, solid, state, reported, run, book, proofs>>

Tron ==
  /\ \/ \E producer \in Producers, list \in TxLists : ProduceBlock(producer, list)
     \/ \E n \in 0..MaxBlocks : Reorganize(n)
  /\ UNCHANGED <<book, proofs>>

StartsFromProven_Unchecked(proof) == TRUE

StartsFromProven(proof) == proof.old = proven

IdsOf(reports) == [i \in DOMAIN reports |-> reports[i].id]

\* The latest included action must be one of the contract's.
Accept(proof) ==
  /\ StartsFromProven(proof)
  /\ proof.new.action_chain \in DOMAIN chain
  /\ Call(Book!Close(proven, proof.new, IdsOf(proof.closed)))
  /\ reported' = reported \o proof.closed

\* The states that provers start from: the contract's, or one that a prover has
\* reached or come back to.
States == {proven} \cup UNION {{proof.old, proof.new} : proof \in proofs}

\* Bound: room for the proof that the run may end in.
StartFrom(base) ==
  /\ Cardinality(proofs) < MaxProofs
  /\ \E skipped, actionCount \in 0..MaxActions, blockCount \in 1..MaxBlocks :
       StartOn(base, skipped, actionCount, blockCount)
  /\ state' = base
  /\ UNCHANGED <<book, proofs>>

Step ==
  /\ VerifyBlock \/ OpenOrder \/ CloseOrder \/ WalkThrough
     \/ IgnoreTx \/ CountTransfer \/ CountVote \/ FinishBlock
  /\ UNCHANGED <<book, proofs>>

\* The run is over and its proof is sent off, or it came to nothing.
Finish ==
  /\ \/ /\ pc = "verify" /\ blocks = <<>>
        /\ proofs' = proofs \cup {[old |-> state, new |-> work, closed |-> closed]}
     \/ pc # "idle" /\ UNCHANGED proofs
  /\ state' = proven /\ Forget(proven)
  /\ UNCHANGED <<env, reported, book>>

SystemNext ==
  \/ Users \/ PassTime \/ Tron
  \/ \E proof \in proofs : Accept(proof)
  \/ \E base \in States : StartFrom(base)
  \/ Step \/ Finish

SystemSpec == SystemInit /\ [][SystemNext]_systemVars

-----------------------------------------------------------------------------
(* Properties. *)

\* However provers race, crash and repeat themselves, the contract is told of no
\* order twice, and of none that its state still counts as open.
ToldOnce == AtContract!ClosedOnce

\* However provers race, crash and repeat themselves, each transfer is paid for as
\* inflow of the one order that lives by the times that the program reads, once.  The
\* life of an order whose closure was left out on the way to the contract's state goes
\* on to the next action on its receiver that was not.
PaidAsRead == AtContract!InflowWasRead

\* The contract accepts no block ahead of an action of its own that the block reaches
\* and the accepted state has not come to.  It does not see that one was left out.
ProofsCoverBlocks == AtContract!ActionsCoverBlocks

\* A proof stays about final blocks however late it comes: no reorganization
\* takes back what a proof in flight, or the contract, has taken in.
ProofsStayFinal ==
  \A s \in States : Len(s.latest) <= solid /\ IsPrefix(s.latest, tron)

\* Orders that the contract was told of are settled for good: the contract does
\* not hold them open, nor does a receiver still wait for them.
ToldIsSettled ==
  \A i \in DOMAIN reported :
    /\ status[reported[i].id] # "open"
    /\ \A r \in DOMAIN busy : busy[r] # reported[i].id

\* A refused proof stays refused: the contract never comes back to a state from
\* which it has moved on.
NeverBack == [][proven' # proven => Len(proven'.latest) > Len(proven.latest)]_systemVars
=============================================================================

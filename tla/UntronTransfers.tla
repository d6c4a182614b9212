--------------------------- MODULE UntronTransfers ---------------------------
(***************************************************************************)
(* What a smart transfer of contracts/src/UntronTransfers.sol takes from   *)
(* the contract.  A transfer is a record with the fields of the Solidity   *)
(* struct that decide how much leaves the contract; the token addresses,   *)
(* the swap calldata and the Across deadlines are left out.                *)
(*                                                                         *)
(* The 1inch router is external: it takes "amount" of USDT and returns at  *)
(* least the minReturnAmount it was given; the parameter bonus is what it  *)
(* returns above that.  The executor and the token of a swap are code that *)
(* the creator of the order names; here they move tokens and nothing else. *)
(* Also external is the Across SpokePool: it accepts a deposit for the     *)
(* chains in Routes and reverts for the others.                            *)
(***************************************************************************)
EXTENDS Integers

CONSTANTS
  USDT_UNIT,     \* 1e6, the divisor of minOutputPerUSDT
  HostChain,     \* chainId(): the chain the contract runs on
  NoChain,       \* chain id 0, stored in an order that is not there
  OtherChains,   \* chains an order may ask for besides the host chain
  Routes         \* chains the bridge accepts a deposit for

\* The Transfer struct, over a set of addresses.
TransferType(addresses) ==
  [recipient        : addresses,
   chainId          : {HostChain, NoChain} \cup OtherChains,
   doSwap           : BOOLEAN,
   fixedOutput      : BOOLEAN,
   minOutputPerUSDT : Nat,
   acrossFee        : Nat]

\* minReturnAmount in the swap description.
minReturnAmount(t, amount) == (t.minOutputPerUSDT * amount) \div USDT_UNIT

\* smartTransfer(t, amount): the USDT that leaves the contract, and whether
\* the call succeeds.  With fixedOutput the recipient gets a fixed amount of
\* the swapped token, and as many units of USDT as the router returned above
\* it are sent to the owner.  A transfer to another chain is a deposit with
\* outputAmount = amount - acrossFee.
smartTransfer(t, amount, bonus) ==
  LET minimum == minReturnAmount(t, amount)
      output  == IF t.doSwap THEN minimum + bonus ELSE amount
      fixed   == t.doSwap /\ t.fixedOutput
      sent    == IF fixed THEN minimum + t.acrossFee ELSE output
  IN  [spent |-> IF fixed THEN amount + (output - sent) ELSE amount,
       ok    |-> /\ sent <= output
                 /\ \/ t.chainId = HostChain
                    \/ t.chainId \in Routes /\ t.acrossFee <= sent]
=============================================================================

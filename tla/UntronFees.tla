----------------------------- MODULE UntronFees -----------------------------
(***************************************************************************)
(* The fee arithmetic of contracts/src/UntronFees.sol.  Amounts are        *)
(* naturals in the smallest unit of USDT, rates are parts of BP (the       *)
(* contract's "bp", 1000000).  Solidity's checked arithmetic reverts       *)
(* where a subtraction would go below zero; the record a conversion        *)
(* returns says so in its field "ok".                                      *)
(***************************************************************************)
EXTENDS Integers

CONSTANT BP     \* basis points in 100%: the constant bp of the contract

ASSUME BPAssumption == BP \in Nat \ {0}

\* "Swap is approx 3x, Across deposit approx 2x an ERC20 transfer", plus one
\* fee point for Untron's own activity.
calculateFee(feePoint, doSwap, sameChain) ==
  (IF doSwap THEN 3 * feePoint ELSE 0)
    + (IF sameChain THEN feePoint ELSE 2 * feePoint)
    + feePoint

\* USDT Tron (size) in USDT L2 at a rate, rounded down.
Converted(size, rate) == (size * rate) \div BP

\* What is left of an amount after the relayer's fee, rounded down.
AfterRelayerFee(out, relayerFee) == (out * (BP - relayerFee)) \div BP

\* conversion(size, rate, fixedFee, true): the value that reaches the
\* recipient and the relayer's fee.  A relayer fee above 100%, or a fixed fee
\* above the value, reverts.
conversion(size, rate, fixedFee, relayerFee) ==
  LET out   == Converted(size, rate)
      value == AfterRelayerFee(out, relayerFee)
  IN  [ok    |-> relayerFee <= BP /\ fixedFee <= value,
       value |-> value - fixedFee,
       fee   |-> out - value]
=============================================================================

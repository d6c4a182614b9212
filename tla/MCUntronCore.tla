--------------------------- MODULE MCUntronCore ---------------------------
(* Small instances of UntronCore: the values of its set constants. *)
EXTENDS UntronCore

CONSTANTS p1, p2, u1, f1, r1, r2, zksync, base, h1, h2

ToSelf(chain, swap, fixed) ==
  [recipient |-> u1, chainId |-> chain, doSwap |-> swap, fixedOutput |-> fixed,
   minOutputPerUSDT |-> USDT_UNIT, acrossFee |-> IF chain = HostChain THEN 0 ELSE 1]

\* A transfer on the host chain, one over the bridge, and a swap with a fixed
\* output.
MCDirect      == {ToSelf(zksync, FALSE, FALSE)}
MCTransfers   == MCDirect \cup {ToSelf(base, FALSE, FALSE)}
MCFixedOutput == {ToSelf(zksync, TRUE, TRUE)}

AtRates(rates) == [rate : rates, minOrderSize : {0}, minDeposit : {0}]
MCParTerms  == AtRates({BP})
MCHighTerms == AtRates({2 * BP - 1})
MCLowTerms  == AtRates({BP \div 2})

MCList      == {<<r1>>}
MCPairList  == {<<r1, r2>>}

MCNoFees    == {[relayerFee |-> 0, feePoint |-> 0]}
MCFees      == {[relayerFee |-> 1, feePoint |-> 0], [relayerFee |-> 0, feePoint |-> 1]}
MCCore      == {[maxOrderSize |-> 2, requiredCollateral |-> 1]}
=============================================================================

-------------------------------- MODULE Fees --------------------------------
(***************************************************************************)
(* The fees of a gasless swap (fee_calculator.ts), charged in the token    *)
(* that is sold.  An integrator fee is a share of the volume; the fee of   *)
(* 0x is a share of the volume, or a share of the integrator's fee; the    *)
(* gas fee pays for the transaction, the transfers of the fees included.   *)
(* A fee that is billed on-chain becomes part of one transfer to its       *)
(* recipient.  The others are billed elsewhere and cost the taker nothing. *)
(***************************************************************************)
EXTENDS Rationals, FiniteSets, Functions

CONSTANTS
    Nobody,     \* no recipient: the address is missing
    NoFee       \* undefined, for a fee or its configuration

-----------------------------------------------------------------------------
(* The three fees.                                                           *)

Fee(config, amount) ==
    [type |-> config.type, feeRecipient |-> config.feeRecipient,
     billingType |-> config.billingType, feeAmount |-> amount]

IntegratorFee(config, sellAmount) ==
    IF config = NoFee THEN NoFee
    ELSE Fee(config, Floor(Times(Num(sellAmount), config.percentage)))

(* An integrator_share without an integrator fee is an error, which the      *)
(* parser of the request has ruled out.                                      *)
ZeroExFee(config, sellAmount, integratorFee) ==
    IF config = NoFee THEN NoFee
    ELSE LET base == IF config.type = "volume" THEN sellAmount ELSE integratorFee.feeAmount
         IN Fee(config, Floor(Times(Num(base), config.percentage)))

\* What makes a fee, or the configuration of one, a transfer on-chain.
BilledOnChain(fee) == fee # NoFee /\ fee.billingType = "on-chain" /\ fee.feeRecipient # Nobody

Charged(fee) == BilledOnChain(fee) /\ fee.feeAmount > 0

(* The gas fee pays for as many transfers as there will be, counted by       *)
(* recipient before the fee itself is known.  perWei is the amount of the    *)
(* sell token that one wei is worth, 0 if nobody knows a price.              *)
GasRecipients(config, perWei, others) ==
    {f.feeRecipient : f \in {f \in others : Charged(f)}}
    \cup (IF BilledOnChain(config) /\ Less(Zero, perWei) THEN {config.feeRecipient} ELSE {})

GasFee(config, perWei, gasPrice, gas, gasPerTransfer, others) ==
    IF config = NoFee THEN NoFee
    ELSE LET estimatedGas == gas + gasPerTransfer * Cardinality(GasRecipients(config, perWei, others))
         IN Fee(config, Floor(Times(perWei, Num(gasPrice * estimatedGas))))

-----------------------------------------------------------------------------
(* The transfers.                                                            *)

\* Mutant: the taker pays the share of 0x on top.
IntegratorReceivesAll(fees) == fees.integrator.feeAmount

(* The share of 0x is taken out of what the integrator receives.             *)
IntegratorReceives(fees) ==
    LET share == BilledOnChain(fees.zeroEx) /\ fees.zeroEx.type = "integrator_share"
    IN fees.integrator.feeAmount - (IF share THEN fees.zeroEx.feeAmount ELSE 0)

\* The transfers by kind of fee; fees of one recipient go in one transfer.
PartOf(fees) ==
    [k \in {k \in DOMAIN fees : Charged(fees[k])} |->
        IF k = "integrator" THEN IntegratorReceives(fees) ELSE fees[k].feeAmount]

OnChainTransfers(fees) ==
    LET part == PartOf(fees)
        kinds(r) == {k \in DOMAIN part : fees[k].feeRecipient = r}
    IN [r \in {fees[k].feeRecipient : k \in DOMAIN part} |->
            SumFunctionOnSet(part, kinds(r))]

TotalOnChain(transfers) == SumFunction(transfers)

calculateFees(configs, sellAmount, perWei, gasPrice, gas, gasPerTransfer) ==
    LET integrator == IntegratorFee(configs.integrator, sellAmount)
        zeroEx == ZeroExFee(configs.zeroEx, sellAmount, integrator)
    IN [integrator |-> integrator, zeroEx |-> zeroEx,
        gas |-> GasFee(configs.gas, perWei, gasPrice, gas, gasPerTransfer, {integrator, zeroEx})]

(* What the handler of the request accepts: known types, shares below one,   *)
(* and an integrator_share only with an integrator fee.                      *)
FeeTypes == [integrator |-> {"volume"}, zeroEx |-> {"volume", "integrator_share"}, gas |-> {"gas"}]

Accepted(configs) ==
    /\ \A k \in DOMAIN FeeTypes : configs[k] # NoFee => configs[k].type \in FeeTypes[k]
    /\ \A k \in {"integrator", "zeroEx"} :
           configs[k] # NoFee => Less(configs[k].percentage, One)
    /\ configs.zeroEx # NoFee /\ configs.zeroEx.type = "integrator_share"
           => configs.integrator # NoFee
=============================================================================

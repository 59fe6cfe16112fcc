------------------------ MODULE MCMakerBalanceCache ------------------------
(* Small instances of MakerBalanceCache for TLC. *)
EXTENDS MakerBalanceCache, TLC

CONSTANTS m1, t1, t2

Firm(m, t, maker, taker) ==
    [maker |-> m, token |-> t, makerAmount |-> maker, takerAmount |-> taker]

\* Calls of the validator are interchangeable.
ValidatorSymmetry == Permutations(Validators)

\* One maker, two tokens: a valid batch for each, a mixed and an empty one.
BatchesTwoTokens ==
    {<<Firm(m1, t1, 2, 3)>>, <<Firm(m1, t2, 1, 1)>>,
     <<Firm(m1, t1, 1, 1), Firm(m1, t2, 1, 1)>>, <<>>}

\* One maker, one token: one quote larger than some balances.
BatchesOne == {<<Firm(m1, t1, 2, 3)>>}
=============================================================================

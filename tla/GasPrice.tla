------------------------------ MODULE GasPrice ------------------------------
(***************************************************************************)
(* GasPriceUtils (gas_price_utils.ts): the gas price of the network, asked *)
(* of an oracle at every heartbeat and, as long as none is known, by the   *)
(* quotes that need one.  All share one estimation and one error count.    *)
(*                                                                         *)
(* A heartbeat does not wait for the one before it, so updates overlap.    *)
(***************************************************************************)
EXTENDS Naturals

CONSTANTS
    Beats,          \* heartbeats whose update may be under way together
    Callers,        \* calls of getGasPriceEstimationOrThrowAsync
    MaxErrorCount,  \* MAX_ERROR_COUNT
    MaxRow          \* bound: failures in a row, for the count kept by the properties

ASSUME ConstantsAssumption ==
    /\ Beats \cap Callers = {}
    /\ MaxErrorCount \in Nat /\ MaxRow \in Nat

VARIABLES
    estimation,  \* _gasPriceEstimation
    errorCount,  \* _errorCount
    update,      \* where each user's _updateGasPriceFromOracleOrThrow is
    answer,      \* what the caller got: a price, undefined, an error
    threw,       \* the last step was an update that threw
    row,         \* failures since the oracle last answered
    lacked       \* history: the callers whose own request was answered JSON without a result

vars == <<estimation, errorCount, update, answer, threw, row, lacked>>

Users == Beats \cup Callers
Estimation == {"undefined", "price"}
Answers == {"none", "price", "undefined", "error"}

Init ==
    /\ estimation = "undefined"
    /\ errorCount = 0
    /\ update = [u \in Users |-> "idle"]
    /\ answer = [c \in Callers |-> "none"]
    /\ threw = FALSE
    /\ row = 0
    /\ lacked = {}

\* _initializeHeartBeat: the event of the heart.
Beat(b) ==
    /\ update[b] = "idle"
    /\ update' = [update EXCEPT ![b] = "fetching"]
    /\ threw' = FALSE
    /\ UNCHANGED <<estimation, errorCount, answer, row, lacked>>

\* getGasPriceEstimationOrThrowAsync up to its await.
Call(c) ==
    /\ update[c] = "idle"
    /\ IF estimation = "undefined"
       THEN update' = [update EXCEPT ![c] = "fetching"] /\ answer' = [answer EXCEPT ![c] = "none"]
       ELSE UNCHANGED update /\ answer' = [answer EXCEPT ![c] = estimation]
    /\ lacked' = lacked \ {c}
    /\ threw' = FALSE
    /\ UNCHANGED <<estimation, errorCount, row>>

\* The caller of an update goes on: a quote returns what the estimation is now,
\* or throws; nothing follows the event of the heart.
Resume(u, gives) ==
    /\ update' = [update EXCEPT ![u] = "idle"]
    /\ answer' = IF u \in Callers THEN [answer EXCEPT ![u] = gives] ELSE answer

\* Mutant: a success does not clear the error count.
AnsweredKeepsCount(u) ==
    /\ update[u] = "fetching"
    /\ \E result \in Estimation :
         /\ estimation' = result
         /\ Resume(u, result)
         /\ lacked' = IF u \in Callers /\ result = "undefined" THEN lacked \cup {u} ELSE lacked
    /\ threw' = FALSE
    /\ row' = 0
    /\ UNCHANGED errorCount

\* The oracle answers JSON: the try block of _updateGasPriceFromOracleOrThrow.
Answered(u) ==
    /\ update[u] = "fetching"
    /\ \E result \in Estimation :
         /\ estimation' = result
         /\ Resume(u, result)
         /\ lacked' = IF u \in Callers /\ result = "undefined" THEN lacked \cup {u} ELSE lacked
    /\ errorCount' = 0
    /\ threw' = FALSE
    /\ row' = 0

\* Mutant: without a price at hand, a failure is counted and nothing more.
FailedOnlyCounts(u) ==
    /\ update[u] = "fetching"
    /\ row < MaxRow
    /\ row' = row + 1
    /\ threw' = (errorCount + 1 > MaxErrorCount)
    /\ errorCount' = IF threw' THEN 0 ELSE errorCount + 1
    /\ Resume(u, IF threw' THEN "error" ELSE estimation)
    /\ UNCHANGED <<estimation, lacked>>

\* The request fails or its answer is not JSON: the catch block.
Failed(u) ==
    /\ update[u] = "fetching"
    /\ row < MaxRow
    /\ row' = row + 1
    /\ threw' = (errorCount + 1 > MaxErrorCount \/ estimation = "undefined")
    /\ errorCount' = IF threw' THEN 0 ELSE errorCount + 1
    /\ Resume(u, IF threw' THEN "error" ELSE estimation)
    /\ UNCHANGED <<estimation, lacked>>

Next ==
    \/ \E b \in Beats : Beat(b)
    \/ \E c \in Callers : Call(c)
    \/ \E u \in Users : Answered(u) \/ Failed(u)

Spec == Init /\ [][Next]_vars

-----------------------------------------------------------------------------
(* Properties. *)

(* Type correctness.                                                         *)
TypeOK ==
    /\ estimation \in Estimation
    /\ errorCount \in 0 .. MaxErrorCount
    /\ update \in [Users -> {"idle", "fetching"}]
    /\ answer \in [Callers -> Answers]
    /\ threw \in BOOLEAN
    /\ row \in 0 .. MaxRow
    /\ lacked \subseteq Callers

(* "If we've reached our max error count then throw": with a price at hand   *)
(* an update throws only after more than MaxErrorCount failures in a row,    *)
(* whichever heartbeats and quotes those failures came from.                 *)
ThrowsOnlyInNeed ==
    threw /\ estimation = "price" => row > MaxErrorCount

(* A quote is given undefined for a price only if its own request to the     *)
(* oracle was answered with JSON that has no result: not because a heartbeat *)
(* or another quote was answered so, or failed, while it waited              *)
(* (getGasPriceEstimationOrThrowAsync).                                      *)
PriceUnlessOwnAnswerLacked == \A c \in Callers : answer[c] = "undefined" => c \in lacked
=============================================================================

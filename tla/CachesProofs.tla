---------------------------- MODULE CachesProofs ----------------------------
(***************************************************************************)
(* The safety of two of the copies that the process keeps of somebody      *)
(* else's data, for any number of updates under way: the gas price         *)
(* (GasPrice) and the blocked addresses (BlockedAddresses).                *)
(***************************************************************************)
EXTENDS ProcessCaches, TLAPS

-----------------------------------------------------------------------------
(* GasPrice. *)

(* What makes ThrowsOnlyInNeed inductive: the count never runs ahead of the  *)
(* failures it counts, since what clears the one clears the other or throws. *)
CountsAreFailures ==
    /\ errorCount \in Nat /\ row \in Nat
    /\ errorCount <= row

(* However many heartbeats and quotes update at the same time, an update     *)
(* with a price at hand throws only after more than MaxErrorCount failures   *)
(* in a row.                                                                 *)
THEOREM ThrowsAreNeeded == Spec => []ThrowsOnlyInNeed
<1> DEFINE Inv == CountsAreFailures /\ ThrowsOnlyInNeed
<1>1. Init => Inv
  BY DEF Init, CountsAreFailures, ThrowsOnlyInNeed
<1>2. ASSUME Inv, [Next]_vars PROVE Inv'
  <2> USE ConstantsAssumption DEF CountsAreFailures, ThrowsOnlyInNeed
  <2>1. ASSUME NEW b \in Beats, Beat(b) PROVE Inv'
    BY <1>2, <2>1 DEF Beat
  <2>2. ASSUME NEW c \in Callers, Call(c) PROVE Inv'
    BY <1>2, <2>2 DEF Call
  <2>3. ASSUME NEW u \in Users, Answered(u) PROVE Inv'
    BY <1>2, <2>3 DEF Answered
  <2>4. ASSUME NEW u \in Users, Failed(u) PROVE Inv'
    <3>1. row' = row + 1 /\ estimation' = estimation
      BY <2>4 DEF Failed
    <3>2. CASE threw'
      <4>1. errorCount' = 0
        BY <2>4, <3>2 DEF Failed
      <4>2. errorCount + 1 > MaxErrorCount \/ estimation = "undefined"
        BY <2>4, <3>2 DEF Failed
      <4> QED BY <1>2, <3>1, <4>1, <4>2
    <3>3. CASE ~threw'
      <4>1. errorCount' = errorCount + 1
        BY <2>4, <3>3 DEF Failed
      <4> QED BY <1>2, <3>1, <3>3, <4>1
    <3> QED BY <3>2, <3>3
  <2>5. CASE UNCHANGED vars
    BY <1>2, <2>5 DEF vars
  <2> QED BY <1>2, <2>1, <2>2, <2>3, <2>4, <2>5 DEF Next
<1>3. Inv => ThrowsOnlyInNeed
  OBVIOUS
<1> QED BY <1>1, <1>2, <1>3, PTL DEF Spec

(* What makes PriceUnlessOwnAnswerLacked inductive: which callers there are. *)
AnswersAreOfCallers == answer \in [Callers -> Answers] /\ estimation \in Estimation

(* getGasPriceEstimationOrThrowAsync gives undefined only to a quote whose   *)
(* own request was answered with JSON without a result, however many         *)
(* heartbeats and other quotes are answered so, or fail, in the meantime:    *)
(* the catch block throws when nothing is known, and a quote that finds      *)
(* nothing asks for itself.                                                  *)
THEOREM UndefinedIsOnesOwn == Spec => []PriceUnlessOwnAnswerLacked
<1> DEFINE Inv == AnswersAreOfCallers /\ PriceUnlessOwnAnswerLacked
<1> USE DEF AnswersAreOfCallers, PriceUnlessOwnAnswerLacked, Answers, Estimation
<1>1. Init => Inv
  BY DEF Init
<1>2. ASSUME Inv, [Next]_vars PROVE Inv'
  <2>1. ASSUME NEW b \in Beats, Beat(b) PROVE Inv'
    BY <1>2, <2>1 DEF Beat
  <2>2. ASSUME NEW c \in Callers, Call(c) PROVE Inv'
    BY <1>2, <2>2 DEF Call
  <2>3. ASSUME NEW u \in Users, Answered(u) PROVE Inv'
    <3>1. PICK result \in Estimation :
            /\ estimation' = result
            /\ answer' = IF u \in Callers THEN [answer EXCEPT ![u] = result] ELSE answer
            /\ lacked' = IF u \in Callers /\ result = "undefined" THEN lacked \cup {u} ELSE lacked
      BY <2>3 DEF Answered, Resume
    <3> QED BY <1>2, <3>1
  <2>4. ASSUME NEW u \in Users, Failed(u) PROVE Inv'
    <3>1. \E given \in {"price", "error"} :
            answer' = IF u \in Callers THEN [answer EXCEPT ![u] = given] ELSE answer
      <4>1. CASE threw'
        BY <2>4, <4>1 DEF Failed, Resume
      <4>2. CASE ~threw'
        <5>1. estimation = "price"
          BY <1>2, <2>4, <4>2 DEF Failed
        <5> QED BY <2>4, <4>2, <5>1 DEF Failed, Resume
      <4> QED BY <4>1, <4>2
    <3>2. UNCHANGED <<estimation, lacked>>
      BY <2>4 DEF Failed
    <3> QED BY <1>2, <3>1, <3>2
  <2>5. CASE UNCHANGED vars
    BY <1>2, <2>5 DEF vars
  <2> QED BY <1>2, <2>1, <2>2, <2>3, <2>4, <2>5 DEF Next
<1>3. Inv => PriceUnlessOwnAnswerLacked
  OBVIOUS
<1> QED BY <1>1, <1>2, <1>3, PTL DEF Spec

-----------------------------------------------------------------------------
(* BlockedAddresses. *)

(* What makes OneQueryAtATime inductive: a query only runs while the flag is *)
(* set.  The flag may outlive the query, after a failure.                    *)
QueriesAreFlagged ==
    /\ table \subseteq Addresses /\ query \in Blocked!Query
    /\ query.pc # "none" => updating

(* However many requests find the set expired while a query is under way,    *)
(* isBlocked sends no other one: the flag is set before the first await of   *)
(* _updateBlockedSetAsync and is cleared only after its last.                *)
THEOREM QueriesDoNotOverlap == Blocked!FairSpec => OneQueryAtATime
<1> USE DEF QueriesAreFlagged, Blocked!Query
<1>1. Blocked!Init => QueriesAreFlagged
  BY DEF Blocked!Init
<1>2. ASSUME QueriesAreFlagged, [Blocked!Next]_(Blocked!vars) PROVE QueriesAreFlagged'
  <2>1. CASE Blocked!Tick \/ Blocked!Edit \/ UNCHANGED Blocked!vars
    BY <1>2, <2>1 DEF Blocked!Tick, Blocked!Edit, Blocked!vars
  <2>2. CASE Blocked!IsBlocked
    BY <1>2, <2>2 DEF Blocked!IsBlocked
  <2>3. CASE Blocked!Answer
    <3>1. query.pc = "sent" /\ UNCHANGED <<table, updating>>
      BY <2>3 DEF Blocked!Answer
    <3>2. PICK rows \in SUBSET table : query' = [pc |-> "answered", rows |-> rows]
      BY <2>3 DEF Blocked!Answer
    <3> QED BY <1>2, <3>1, <3>2
  <2>4. CASE Blocked!QueryFails
    BY <1>2, <2>4 DEF Blocked!QueryFails
  <2>5. CASE Blocked!Update
    BY <1>2, <2>5 DEF Blocked!Update
  <2> QED BY <1>2, <2>1, <2>2, <2>3, <2>4, <2>5 DEF Blocked!Next
<1>3. ASSUME QueriesAreFlagged, [Blocked!Next]_(Blocked!vars)
      PROVE  query.pc # "none" /\ query' # query => query'.pc # "sent"
  BY <1>3 DEF Blocked!Next, Blocked!Tick, Blocked!Edit, Blocked!IsBlocked, Blocked!Answer,
              Blocked!QueryFails, Blocked!Update, Blocked!vars
<1> QED BY <1>1, <1>2, <1>3, PTL DEF Blocked!FairSpec, OneQueryAtATime, Blocked!OneQueryAtATime
=============================================================================

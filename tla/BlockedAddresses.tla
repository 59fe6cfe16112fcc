-------------------------- MODULE BlockedAddresses --------------------------
(***************************************************************************)
(* RfqBlockedAddressUtils (rfq_blocked_address_utils.ts), behind the Set   *)
(* that RfqDynamicBlacklist shows: the taker addresses that get no RFQ     *)
(* quotes, kept in memory, answered even if stale, and read again from the *)
(* database in the background when they have expired.                      *)
(*                                                                         *)
(* _expiresAt is kept as the time since the last update, which stops at    *)
(* Ttl + 1; the set is expired when that time exceeds Ttl.                 *)
(***************************************************************************)
EXTENDS Naturals, FiniteSets

CONSTANTS
    Addresses,
    MaxSetSize,     \* MAX_SET_SIZE, the rows that one query may return
    Ttl,            \* _ttlMs, in ticks
    MaxFailures     \* bound: queries that fail

VARIABLES
    table,      \* the rows of the database
    blocked,    \* _blocked
    age,        \* time since _expiresAt was set, Ttl + 1 when it has passed
    updating,   \* _updating
    query,      \* the query of the running _updateBlockedSetAsync
    failures    \* queries that failed so far

vars == <<table, blocked, age, updating, query, failures>>

Query == [pc : {"none", "sent"}] \cup [pc : {"answered"}, rows : SUBSET Addresses]

\* The constructor takes the configured set and lets it expire at once.
Init ==
    /\ table \in SUBSET Addresses
    /\ blocked \in SUBSET Addresses
    /\ age = Ttl
    /\ updating = FALSE
    /\ query = [pc |-> "none"]
    /\ failures = 0

Tick ==
    /\ age <= Ttl
    /\ age' = age + 1
    /\ UNCHANGED <<table, blocked, updating, query, failures>>

\* Somebody edits the table.
Edit ==
    /\ \E a \in Addresses : table' \in {table \cup {a}, table \ {a}}
    /\ UNCHANGED <<blocked, age, updating, query, failures>>

\* Mutant: the flag is set when the query has been answered, not before.
IsBlockedFlagsLate ==
    /\ age > Ttl
    /\ ~updating
    /\ query' = [pc |-> "sent"]
    /\ UNCHANGED <<table, blocked, age, updating, failures>>

\* isBlocked, with the first part of _updateBlockedSetAsync that it runs.  When
\* the set has not expired or is being updated it changes nothing.
IsBlocked ==
    /\ age > Ttl
    /\ ~updating
    /\ updating' = TRUE
    /\ query' = [pc |-> "sent"]
    /\ UNCHANGED <<table, blocked, age, failures>>

\* The database reads at most MaxSetSize rows, in no particular order.
Answer ==
    /\ query.pc = "sent"
    /\ \E rows \in SUBSET table :
         /\ rows = table \/ Cardinality(rows) = MaxSetSize
         /\ Cardinality(rows) <= MaxSetSize
         /\ query' = [pc |-> "answered", rows |-> rows]
    /\ UNCHANGED <<table, blocked, age, updating, failures>>

\* The query is rejected, and with it _updateBlockedSetAsync: nothing runs after
\* its await.
QueryFails ==
    /\ query.pc = "sent"
    /\ failures < MaxFailures
    /\ failures' = failures + 1
    /\ query' = [pc |-> "none"]
    /\ UNCHANGED <<table, blocked, age, updating>>

\* Mutant: the flag is not cleared.
UpdateKeepsFlag ==
    /\ query.pc = "answered"
    /\ blocked' = query.rows
    /\ age' = 0
    /\ query' = [pc |-> "none"]
    /\ UNCHANGED <<table, updating, failures>>

\* Mutant: what is read is added to the set, which only grows.
UpdateAdds ==
    /\ query.pc = "answered"
    /\ blocked' = blocked \cup query.rows
    /\ age' = 0
    /\ updating' = FALSE
    /\ query' = [pc |-> "none"]
    /\ UNCHANGED <<table, failures>>

\* The rest of _updateBlockedSetAsync.
Update ==
    /\ query.pc = "answered"
    /\ blocked' = query.rows
    /\ age' = 0
    /\ updating' = FALSE
    /\ query' = [pc |-> "none"]
    /\ UNCHANGED <<table, failures>>

Next == Tick \/ Edit \/ IsBlocked \/ Answer \/ QueryFails \/ Update

(* Time passes, requests keep asking, the database answers or fails, and the *)
(* continuation of an answered query runs.                                   *)
FairSpec ==
    /\ Init /\ [][Next]_vars
    /\ WF_vars(Tick) /\ WF_vars(IsBlocked) /\ WF_vars(Answer) /\ WF_vars(Update)

-----------------------------------------------------------------------------
(* Properties. *)

(* Type correctness.                                                         *)
TypeOK ==
    /\ table \subseteq Addresses /\ blocked \subseteq Addresses
    /\ age \in 0 .. (Ttl + 1)
    /\ updating \in BOOLEAN
    /\ query \in Query
    /\ failures \in 0 .. MaxFailures

(* However many requests find the set expired, one query runs at a time: a   *)
(* query that is under way is not sent again before it is answered or fails. *)
OneQueryAtATime ==
    [][query.pc # "none" /\ query' # query => query'.pc # "sent"]_vars

(* isBlocked "also updates the blocked set if the cache is expired": an      *)
(* address that is put into the table and stays there is refused in the end, *)
(* as long as the table is no longer than one query reads.                   *)
BlockedIsRefused ==
    \A a \in Addresses :
        <>[](a \in table /\ Cardinality(table) <= MaxSetSize) => <>[](a \in blocked)

(* An address that is taken out of the table for good is served again in the *)
(* end, also one that the configuration blocked at the start.                *)
UnblockedIsServed ==
    \A a \in Addresses : <>[](a \notin table) => <>[](a \notin blocked)
=============================================================================

--------------------------- MODULE ProcessCaches ---------------------------
(***************************************************************************)
(* The two copies of somebody else's data that every request to a web      *)
(* process may wait for or be refused by: the gas price (GasPrice) and the *)
(* blocked addresses (BlockedAddresses).  They share nothing.              *)
(***************************************************************************)
EXTENDS GasPrice

CONSTANTS Addresses, MaxSetSize, Ttl, MaxFailures
VARIABLES table, blocked, age, updating, query, failures

Blocked == INSTANCE BlockedAddresses

(* BlockedAddresses: one query at a time, however many requests find the set *)
(* expired, also after a query that failed.                                  *)
OneQueryAtATime == Blocked!OneQueryAtATime
=============================================================================

-------------------------- MODULE MCOrdersChannel --------------------------
(* Small instances of OrdersChannel for TLC. *)
EXTENDS OrdersChannel, TLC

CONSTANTS s1, s2, r1, r2

\* The client of s1 reconnects as s2 and subscribes again under the requestId it
\* had, or two clients chose the same one; r2 is used by s2 only.
SharedIds == s1 :> {r1} @@ s2 :> {r1, r2}
=============================================================================

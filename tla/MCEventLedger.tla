--------------------------- MODULE MCEventLedger ---------------------------
(* An instance of EventLedger for TLC: the lock map of the PostgreSQL store. *)
EXTENDS EventLedger

CONSTANTS p1, p2, p3, w1, w2

\* PostgreSQL: p1 and p2 agree in the 63 bits the advisory lock is keyed by
PostgresKeys == {"k12", "k3"}
PostgresLockOf == [p \in Projects |-> IF p = p3 THEN "k3" ELSE "k12"]

=============================================================================

----------------------------- MODULE MCGovernor -----------------------------
(* Small instances of the governor: a run with a fan-out, runs with a single *)
(* request each, and the main agent.                                         *)
EXTENDS ConcurrencyGovernor

Owners == [q \in Request |-> CASE q \in {"a1", "a2"} -> "a" [] q = "b1" -> "b"
                                [] q = "c1" -> "c" [] OTHER -> Observer]
=============================================================================

--------------------------- MODULE MCTestSession ---------------------------
(* TestSession with a coredump limit for each product: the one that can be   *)
(* rebooted is dumped in every loop, the other one meets its limit.          *)
EXTENDS TestSession

MCDumpLimit == [p \in Products |-> IF p \in Rebootable THEN 2 ELSE 1]

=============================================================================

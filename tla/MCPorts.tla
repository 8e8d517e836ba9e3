------------------------------ MODULE MCPorts ------------------------------
(* A port that listens, and one that is accepted by it or connects itself, *)
(* reads and writes.                                                       *)
EXTENDS Ports

CONSTANTS a, b

MCUses == [p \in Ports |-> IF p = a THEN {"listen"}
                           ELSE {"accepted", "lookup", "connect", "read",
                                 "part", "write"}]
============================================================================

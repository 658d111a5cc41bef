----------------------------- MODULE MCDispatch -----------------------------
(* Small instances of Dispatch for TLC.                                    *)
EXTENDS Dispatch

CONSTANTS c1, c2

\* c1 has a quality for the odd slots only, c2 a better one for each
MCScore == [c \in Collectors |-> [s \in Slots |->
                IF c = c1 THEN s % 2 ELSE 2]]
=============================================================================

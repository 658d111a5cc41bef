------------------------------- MODULE MCConn -------------------------------
(* Small instances of Conn for TLC.                                        *)
EXTENDS Conn

CONSTANTS pool, relay

MCPeer == [e \in Ends |-> IF e = pool THEN relay ELSE pool]

Msg(c, i) == [class |-> c, id |-> i, good |-> TRUE]

\* the pool sends requests of both priorities, the relay reports
MCScript == [e \in Ends |->
    IF e = pool THEN <<Msg(High, 1), Msg(Low, 2), Msg(Low, 3)>> ELSE <<>>]
=============================================================================

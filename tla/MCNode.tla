------------------------------- MODULE MCNode -------------------------------
EXTENDS Node

CONSTANTS s1, s2

\* slots 1 and 3 have a quality above the target, s2's is the better one there;
\* at slot 2 the best quality, s1's, only reaches it
MCQuality == [s \in Spaces |->
                [i \in 0 .. MaxSlot + AllowAhead |->
                   CASE i = 1 -> IF s = s1 THEN 4 ELSE 5
                     [] i = 2 -> IF s = s1 THEN 5 ELSE 2
                     [] i = 3 -> IF s = s1 THEN 2 ELSE 4
                     [] OTHER -> 0]]
MCTarget == [i \in 0 .. MaxSlot + AllowAhead |-> IF i = 2 THEN 5 ELSE 1]

MinesAtOnce == [mode |-> "m1", plot |-> TRUE, generate |-> TRUE, payout |-> TRUE,
                password |-> TRUE]
MinesLater  == [mode |-> "m1", plot |-> FALSE, generate |-> FALSE, payout |-> TRUE,
                password |-> TRUE]
Bare        == [mode |-> "m1", plot |-> FALSE, generate |-> FALSE, payout |-> FALSE,
                password |-> FALSE]
MinesV2     == [MinesAtOnce EXCEPT !.mode = "m2"]
MCConfigs == {MinesAtOnce, MinesLater, Bare, MinesV2,
              [MinesAtOnce EXCEPT !.mode = "core"]}

\* In mode m1 a node that mines from the start, undisturbed; one, at the end of
\* the clock, that gets two requests that may overlap; and one that has to be
\* configured first.  In mode m2 one that mines undisturbed, and one that gets a
\* request; the same in mode core.
MCStarts == {[cfg |-> MinesAtOnce, now |-> 0, tip |-> 0,
              requests |-> MaxRequests],
             [cfg |-> MinesLater, now |-> MaxSlot, tip |-> MaxTips - 1,
              requests |-> 0],
             [cfg |-> Bare, now |-> MaxSlot, tip |-> MaxTips,
              requests |-> 0],
             [cfg |-> MinesV2, now |-> 0, tip |-> 0, requests |-> MaxRequests],
             [cfg |-> MinesV2, now |-> MaxSlot, tip |-> MaxTips - 1,
              requests |-> MaxRequests - 1],
             [cfg |-> [MinesV2 EXCEPT !.mode = "core"], now |-> MaxSlot,
              tip |-> MaxTips, requests |-> MaxRequests - 1]}
=============================================================================

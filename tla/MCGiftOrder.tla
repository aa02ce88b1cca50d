---------------------------- MODULE MCGiftOrder ----------------------------
(***************************************************************************)
(* GiftOrder for TLC.  Two handler executions and one credit: a retry      *)
(* racing its original, a conflicting use of its key, or a second purchase *)
(* racing it for the wallet, with a credit in between.                     *)
(***************************************************************************)
EXTENDS GiftOrder, FiniteSetsExt, TLC

CONSTANTS u1, u2, g1, g2, k1, k2, r1

MCPrice == (g1 :> 2) @@ (g2 :> 4)
MCOpening == (u1 :> 3) @@ (u2 :> 2)

Ask(u, g, n, k) == [user |-> u, room |-> r1, gift |-> g, count |-> n, key |-> k]

\* A purchase and its retry; the key reused with another count, and by another
\* user; a second purchase from the same wallet; a count the API refuses; and a
\* product that does not fit the scaled int64.
MCRequests ==
    {Ask(u1, g1, 1, k1), Ask(u2, g1, 1, k1), Ask(u1, g1, 1, k2),
     Ask(u1, g1, 4, k2), Ask(u1, g2, 2, k2)}
MCCredits == {[user |-> u1, amount |-> 1], [user |-> u1, amount |-> 0]}

\* The viewer score in Redis never exceeds what the viewer was charged for in
\* the room: a replay adds nothing, and a lost increment is never made up twice.
ScoreNeverOvercounts ==
    \A r \in Rooms, u \in Users :
        giftValue[r][u] <=
            MapThenSumSet(LAMBDA k : orders[k].total,
                {k \in Keys : orders[k] # NoOrder /\ orders[k].room = r /\ orders[k].user = u})
=============================================================================

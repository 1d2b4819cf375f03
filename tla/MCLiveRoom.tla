----------------------------- MODULE MCLiveRoom -----------------------------
(* Small instances of LiveRoom: the constants that a .cfg cannot write.    *)
EXTENDS LiveRoom

CONSTANTS p1, p2, v1, v2

Everybody == [g \in Giveaways |-> Viewers]
\* One copy of each prize, two of the first, and the wheel cleared.
OneOfEach == [p \in Prizes |-> 1]
TwoOfP1   == [p \in Prizes |-> IF p = p1 THEN 2 ELSE 0]
SellersPools == {OneOfEach, TwoOfP1, NoWheel}
OnePool      == {OneOfEach}

\* Bound: giveaways and the randomizer share the process and nothing else, so an
\* evening has one or the other: the listing is sold out, or the giveaways are over
\* and their seed is idle.  Of two viewers who are alike the first is the one that
\* their two entries draw.
Seed == CHOOSE f \in Draws : TRUE

EveningInit ==
  /\ Init
  /\ \/ /\ status = "SOLD"
        /\ \A g \in Giveaways : giveaway[g].seed[{v1, v2}] = v1
     \/ \A g \in Giveaways : giveaway[g].status = "CLOSED" /\ giveaway[g].seed = Seed

Evening     == EveningInit /\ [][Next]_vars
FairEvening == Evening /\ Fairness

=============================================================================

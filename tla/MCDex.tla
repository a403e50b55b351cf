------------------------------- MODULE MCDex -------------------------------
(* Small instances of Dex: two ordinary pools near the reserve cap under    *)
(* trading, and a pool with protocol-owned shares beside a small one under  *)
(* deposits, withdrawals and the auction.                                   *)
EXTENDS Dex, TLC

CONSTANTS t1, t2, t3, anml, a1, a2, w1

Pool(token, erth, tok, supply, own, pol) ==
    [token |-> token, erth |-> erth, tok |-> tok, supply |-> supply, own |-> own,
     vol |-> 0, last |-> 0, due |-> 0, pol |-> pol]

TwoPools  == <<Pool(t1, 25, 21, 22, 0, NoPol), Pool(t2, 22, 24, 22, 0, NoPol)>>

\* The genesis pool of the shielded-only token: the protocol holds part of it.
PolPool   == <<Pool(anml, 10, 7, 6, 5, [total |-> 5, left |-> 5, start |-> 0, token |-> TRUE])>>
MixedPools == PolPool \o <<Pool(t1, 4, 6, 3, 0, NoPol)>>

Fee5 == [fee |-> 1, unbond |-> 1, depth |-> 1]
Fee20 == [fee |-> 4, unbond |-> 2, depth |-> 1]
TwoParams == {Fee5, Fee20}
Steps1 == {1}

Some(f) == [k \in Kinds |-> IF k \in DOMAIN f THEN f[k] ELSE 0]
Scenario(ps, f) == [pools |-> ps, params |-> Fee5, left |-> Some(f)]

Trading ==
    {Scenario(TwoPools, [swap |-> 2, reward |-> 1, deposit |-> 1]),
     Scenario(TwoPools, [swap |-> 2, reward |-> 2])}
Providing ==
    {Scenario(MixedPools, [swap |-> 1, deposit |-> 1, withdraw |-> 2]),
     Scenario(MixedPools, [params |-> 1, deposit |-> 1, withdraw |-> 2]),
     Scenario(MixedPools, [swap |-> 1, auction |-> 5]),
     Scenario(MixedPools, [auction |-> 3, deposit |-> 1, withdraw |-> 1])}
\* One pool may trade, draw a reward and then fail to expire at the cap.
StaleScenarios == {Scenario(TwoPools, [swap |-> 3, reward |-> 1])}
AllScenarios == Trading \cup Providing

====

---------------------------- MODULE MCAllocation ----------------------------
(* Small instances of Allocation: the groundworks stream under stake votes  *)
(* with one-second leases, options under private and human votes, and the   *)
(* two kinds of voter side by side.                                         *)
EXTENDS Allocation, TLC

CONSTANTS h1, h2, d1, d2, val1

OneMore == <<2, 3>>
OneStep    == {3}

Scenario(st, f) ==
    [stake |-> st, lease |-> 1,
     msgs |-> [k \in Kinds |-> IF k \in DOMAIN f THEN f[k] ELSE 0]]

NoStake == [d \in Delegators |-> 0]
OneStaked == [d \in Delegators |-> IF d = d1 THEN 3 ELSE 0]

ByStake ==
    {Scenario(OneStaked, [split |-> 2, stake |-> 1]),
     Scenario(OneStaked, [split |-> 2, reset |-> 1]),
     Scenario(OneStaked, [split |-> 1, stake |-> 2]),
     Scenario(OneStaked, [split |-> 1, stake |-> 1, reset |-> 1])}
ByOptions ==
    {Scenario(NoStake, [weighted |-> 2, remove |-> 1]),
     Scenario(NoStake, [weighted |-> 1, add |-> 1, claim |-> 1]),
     Scenario(NoStake, [weighted |-> 1, add |-> 1, remove |-> 1]),
     Scenario(NoStake, [human |-> 2, add |-> 1, draw |-> 1])}
Mixed ==
    {Scenario(OneStaked, [split |-> 1, weighted |-> 1, reset |-> 1]),
     Scenario(OneStaked, [split |-> 1, stake |-> 1, remove |-> 1]),
     Scenario(OneStaked, [split |-> 1, params |-> 1, add |-> 1])}
AllScenarios == ByStake \cup ByOptions \cup Mixed
====

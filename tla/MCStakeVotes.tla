---------------------------- MODULE MCStakeVotes ----------------------------
(* A small instance of StakeVotes: one validator whose derth is in two      *)
(* notes, two proposals, a month of two blocks.                             *)
EXTENDS StakeVotes

MCGenesisNotes == <<1, 1>>
MCBudgets ==
    {[deposit |-> 2, vote |-> 1, undelegate |-> 2],
     [deposit |-> 2, delegate |-> 1, undelegate |-> 1],
     [deposit |-> 1, vote |-> 2, delegate |-> 1, govvote |-> 1, slash |-> 1],
     [deposit |-> 1, vote |-> 2, restake |-> 2, fault |-> 1],
     [deposit |-> 2, vote |-> 2, cancel |-> 1]}
=============================================================================

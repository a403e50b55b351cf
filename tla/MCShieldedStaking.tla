------------------------- MODULE MCShieldedStaking -------------------------
(***************************************************************************)
(* A small instance of private staking: a month is three seconds and two   *)
(* months are live, an epoch two seconds, an unbonding three.  A sweep     *)
(* visits one book, makes two payouts and mints two notes; a validator may *)
(* be slashed by half or to nothing.  A share has a precision of a half,   *)
(* so that amounts as small as these are truncated.                        *)
(***************************************************************************)
EXTENDS ShieldedStaking

MCKindSets ==
    {{"delegate", "undelegate", "slash", "reward"},
     {"delegate", "undelegate", "fault"},
     {"delegate", "undelegate", "dust", "reward"},
     {"delegate", "undelegate", "checkin", "halt"}}
=============================================================================

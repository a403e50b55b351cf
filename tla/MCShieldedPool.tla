--------------------------- MODULE MCShieldedPool ---------------------------
(* Small instances of ShieldedPool for TLC. *)
EXTENDS ShieldedPool, TLC

CONSTANTS erth, anml, alice, dex

\* alice's coins and the module's, for the anchor run and the value run.
ValueBalance ==
    (alice :> (erth :> 0 @@ anml :> 0)) @@ (dex :> (erth :> 3 @@ anml :> 1))
\* Only the module may hold the shielded-only denom.
ValueRecipients == anml :> {dex}
=============================================================================

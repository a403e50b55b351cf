--------------------------- MODULE EagerSnapshots ---------------------------
(***************************************************************************)
(* What x/shieldedstaking's stake-vote snapshots promise, with no cost     *)
(* counted: a snapshot copies every validator's derth supply as it stood   *)
(* when its block began, and keeps those figures until it is forgotten,    *)
(* whatever happens to the supplies.                                       *)
(*                                                                         *)
(* One exception is the code's: when a book that holds no derth is removed *)
(* at the end of a block, a figure it still owed a snapshot may read zero  *)
(* from then on.                                                           *)
(***************************************************************************)
EXTENDS Naturals

CONSTANTS Validators, Proposals

VARIABLES
    supply,              \* each validator's derth
    start,               \* the same when this block began
    figures              \* the open snapshots, each a supply per validator

vars == <<supply, start, figures>>

Init ==
    /\ supply \in [Validators -> Nat]
    /\ start = supply
    /\ figures = [p \in {} |-> 0]

\* A supply changes within a block.
Change(v) ==
    /\ supply'[v] \in Nat
    /\ supply' = [supply EXCEPT ![v] = supply'[v]]
    /\ UNCHANGED <<start, figures>>

\* A proposal enters voting.
Take(p) ==
    /\ p \notin DOMAIN figures
    /\ figures' = [q \in DOMAIN figures \cup {p} |->
                      IF q = p THEN start ELSE figures[q]]
    /\ UNCHANGED <<supply, start>>

\* A figure after a block's end: kept, or lost with a book that holds nothing.
Carried(p, v) ==
    \/ figures'[p][v] = figures[p][v]
    \/ supply'[v] = 0 /\ figures'[p][v] = 0

\* A block ends: supplies may change, ended snapshots are forgotten.
EndBlock ==
    /\ supply' \in [Validators -> Nat]
    /\ start' = supply'
    /\ DOMAIN figures' \subseteq DOMAIN figures
    /\ figures' \in [DOMAIN figures' -> [Validators -> Nat]]
    /\ \A p \in DOMAIN figures', v \in Validators : Carried(p, v)

Next ==
    \/ \E v \in Validators : Change(v)
    \/ \E p \in Proposals : Take(p)
    \/ EndBlock

Spec == Init /\ [][Next]_vars
=============================================================================

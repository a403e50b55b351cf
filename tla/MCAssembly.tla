----------------------------- MODULE MCAssembly -----------------------------
(* A small chamber: three people, two of them under one country's signers. *)
EXTENDS Assembly, TLC

OwnSigner  == [p \in Passports |-> {p}]
Countries  == [d \in Dscs |-> IF d < 3 THEN 1 ELSE 2]
Wide       == [network |-> 9, dsc |-> 9, country |-> 9]
Shares     == [network |-> 1, dsc |-> 1, country |-> 1]
Terms      == {[lease |-> 1, handle |-> 1, window |-> 1]}

Dsc(d)     == [dsc |-> d, country |-> Countries[d], placed |-> TRUE]
Doubtful   == [dsc |-> 2, country |-> 0, placed |-> TRUE]
Unplaced   == [dsc |-> 4, country |-> 0, placed |-> FALSE]
Csca       == [dsc |-> 0, country |-> 1, placed |-> TRUE]
Of(revs, other) == [revs |-> revs, other |-> other, wrapped |-> FALSE]
Plain      == Of({}, TRUE)
AllContents ==
    {Plain, Of({Dsc(1)}, FALSE), Of({Dsc(1)}, TRUE), Of({Dsc(1), Dsc(2)}, FALSE),
     Of({Csca}, FALSE), Of({Dsc(1), Doubtful}, FALSE), Of({Dsc(2), Dsc(3)}, FALSE),
     Of({Dsc(1), Unplaced}, FALSE), [Plain EXCEPT !.wrapped = TRUE]}

\* One person or another may switch identity; two proposals meet one voter.
Scenario(kinds) ==
    [kinds |-> kinds, passports |-> {1, 3}, idcs |-> Idcs, validity |-> 9, skew |-> 2,
     floors |-> Wide, params |-> Terms, end |-> 12, faults |-> 1,
     proposals |-> {1}, voters |-> Passports]
MCScenarios ==
    {Scenario(kinds) : kinds \in
         {{"submit", "vote", "register"}, {"submit", "vote", "cancel", "restart"},
          {"submit", "vote", "revocation"}, {"removal", "register"}, {"removal", "restart"}}}
    \cup {[Scenario({"submit", "vote", "cancel"}) EXCEPT !.proposals = {1, 2}, !.voters = {1}]}
=============================================================================

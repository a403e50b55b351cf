---------------------------- MODULE MCPersonhood ----------------------------
(* Small instances of Personhood. *)
EXTENDS Personhood, TLC

SomeSigners == [p \in Passports |-> {d \in Dscs : d <= p}]
OneCountry == [d \in Dscs |-> 0]
Shares == [network |-> 2, dsc |-> 1, country |-> 1]
Wide   == [network |-> 9, dsc |-> 9, country |-> 9]
Tight  == [network |-> 2, dsc |-> 1, country |-> 2]
Leases == {[lease |-> 1, handle |-> 2, window |-> 1], [lease |-> 3, handle |-> 1, window |-> 2]}
Narrow == {[lease |-> 1, handle |-> 1, window |-> 1]}
Widest == {[lease |-> 1, handle |-> 1, window |-> 2]}

\* One passport switches identity while governance changes the leases.
Right(kind, end) ==
    [kinds |-> {"register", kind, "params", "restart"}, passports |-> {1}, idcs |-> {1, 2},
     validity |-> 6, skew |-> 2, floors |-> Wide, params |-> Leases, end |-> end, faults |-> 0]
\* It switches twice.
Twice(kind, end) == [Right(kind, end) EXCEPT !.kinds = {"register", kind}, !.idcs = {1, 2, 3}]
\* Two passports, of two signers, register under tight caps, and a retirement
\* fails.
Registry(kinds, idcs, end) ==
    [kinds |-> kinds, passports |-> {1, 2}, idcs |-> idcs,
     validity |-> 3, skew |-> 1, floors |-> Tight, params |-> Narrow, end |-> end, faults |-> 1]
MCScenarios ==
    {Right("caretaker", 17), Right("handle", 16), Twice("caretaker", 16), Twice("handle", 16),
     Registry({"register", "claim", "restart"}, Idcs, 15),
     Registry({"register", "revoke"}, {1, 2}, 15), Registry({"register", "handle"}, Idcs, 14)}

\* The root window is a day.
Claims ==
    {[kinds |-> {"register", "claim"}, passports |-> {1}, idcs |-> {1, 2},
      validity |-> 6, skew |-> 2, floors |-> Wide, params |-> Widest, end |-> 15, faults |-> 0]}
=============================================================================

--------------------------- MODULE MCGroundworks ---------------------------
EXTENDS Groundworks, TLC
CONSTANTS a, b
Val(t) == [tokens |-> t, shares |-> t * ShareUnit, status |-> "bonded", h |-> 0, t |-> 0,
           jailed |-> FALSE, tombstoned |-> FALSE]
Note(v, n) == [val |-> v, amt |-> n, key |-> 0, t |-> 0, ex |-> 0]
Store(n, p, w, u, ut) ==
    [val |-> (a :> Val(280)) @@ (b :> Val(n + 40)), power |-> (a :> 280) @@ (b :> n + 40),
     mine |-> (a :> 240 * ShareUnit) @@ (b :> n * ShareUnit),
     ubd |-> (a :> <<>>) @@ (b :> u),
     red |-> Nothing, slots |-> {}, moves |-> Nothing, rows |-> Nothing,
     P |-> (a :> p) @@ (b :> w), W |-> [v \in Vals |-> 0], U |-> [v \in Vals |-> 0],
     S |-> (a :> 240) @@ (b :> n), debt |-> [v \in Vals |-> 0],
     notes |-> SelectSeq(<<Note(a, 240), Note(b, n)>>, LAMBDA x : x.amt > 0), next |-> 3,
     ut |-> ut, maxUnbonding |-> ut, maxClear |-> 0,
     watch |-> NoWatch, hits |-> {}, aside |-> Nothing, stray |-> 0]
\* The store after a move of 40 from a to b at time 1.
Moved(st) ==
    [st EXCEPT !.val[a].tokens = 240, !.val[a].shares = 240 * ShareUnit, !.mine[a] = 200 * ShareUnit,
               !.val[b].tokens = 80, !.val[b].shares = 80 * ShareUnit, !.mine[b] = 40 * ShareUnit,
               !.S = (a :> 200) @@ (b :> 40),
               !.red = <<a, b>> :> <<[h |-> 1, c |-> 1 + st.ut, bal |-> 40, sh |-> 40 * ShareUnit]>>,
               !.slots = {<<<<a, b>>, 1 + st.ut>>},
               !.moves = 1 :> [pair |-> <<a, b>>, t |-> 1, credited |-> 40, sh |-> 40 * ShareUnit, h |-> 1,
                               c |-> 1 + st.ut, due |-> 1 + st.ut, retained |-> 40],
               !.notes = <<Note(a, 200), [val |-> b, amt |-> 40, key |-> 1, t |-> 1, ex |-> 40]>>]
Left(r, c, u, s, p, w) ==
    [redelegate |-> r, restake |-> c, undelegate |-> u, slash |-> s, params |-> p, reward |-> w]
Half == (1 :> 1) @@ (2 :> 1)
MCScenarios ==
    {[store |-> Moved(Store(0, 0, 0, <<>>, 3)), left |-> Left(3, 1, 0, 1, 1, 0), uts |-> {3, 5}, end |-> 6,
      pairs |-> {<<a, b>>}, amounts |-> {40}, struck |-> {a}, splits |-> {}],
     [store |-> Moved(Store(0, 0, 0, <<>>, 3)), left |-> Left(2, 1, 0, 1, 0, 0), uts |-> {3}, end |-> 6,
      pairs |-> {<<a, b>>}, amounts |-> {40}, struck |-> {a}, splits |-> {Half}],
     [store |-> Store(80, 40, 80, <<[h |-> 1, c |-> 4, init |-> 40, bal |-> 40]>>, 4), uts |-> {4}, end |-> 5,
      left |-> Left(2, 0, 0, 2, 0, 1),
      pairs |-> {<<a, b>>, <<b, a>>}, amounts |-> {80}, struck |-> {a, b}, splits |-> {}],
     [store |-> Store(80, 0, 0, <<>>, 4), left |-> Left(1, 1, 0, 1, 1, 0), uts |-> {2, 4}, end |-> 6,
      pairs |-> {<<a, b>>}, amounts |-> {80}, struck |-> {a}, splits |-> {Half}],
     [store |-> Store(80, 80, 10, <<>>, 4), left |-> Left(1, 0, 1, 1, 0, 0), uts |-> {4}, end |-> 6,
      pairs |-> {<<a, b>>}, amounts |-> {20, 80}, struck |-> {a, b}, splits |-> {Half}]}
MCFractions == <<<<1, 2>>, <<1, 4>>>>
=============================================================================

--------------------------- MODULE MCHistoryKeys ---------------------------
EXTENDS HistoryKeys, TLC

CONSTANTS d1, d2, d3, a1, a2

MCOwnerOf == (d1 :> a1) @@ (d2 :> a2) @@ (d3 :> a1)
MCMinter  == (a1 :> d1) @@ (a2 :> None)
\* Two members and a new phone in a private topic; elsewhere one that is joined.
MCFounder  == [t \in Tier |-> IF t = "private" THEN {d1, d2} ELSE {d1}]
MCMaxEpoch == [t \in Tier |-> IF t = "private" THEN 2 ELSE 1]
\* What goes wrong, who asks and whose backup is looked at in a secret topic.
MCMaxFaults == [t \in Tier |-> IF t = "private" THEN 0 ELSE 1]
MCFaulty  == [t \in Tier |-> IF t = "secret" THEN Device ELSE {d1}]
MCAsker   == [t \in Tier |-> IF t = "secret" THEN {d3} ELSE {}]
MCWatched == [t \in Tier |-> IF t = "secret" THEN {a1} ELSE {}]
=============================================================================

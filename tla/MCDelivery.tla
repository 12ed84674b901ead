----------------------------- MODULE MCDelivery -----------------------------
(* Three products of one hazard for checking Delivery: a warning, an update *)
(* and a cancellation, and the NWWS copies of the first and the last.       *)
EXTENDS Delivery, TLC

CONSTANTS r1, r2, r3, n1, n3, i1, i2, i3, iv, d1, d2, north, south

Product(a) == CASE a \in {r1, n1} -> 1 [] a = r2 -> 2 [] OTHER -> 3

MCNth  == [a \in Alerts |-> Product(a)]
MCType == [a \in Alerts |-> CASE Product(a) = 1 -> "Alert"
                              [] Product(a) = 2 -> "Update"
                              [] OTHER          -> "Cancel"]
MCOwn  == [a \in Alerts |-> CASE a = r1 -> i1 [] a = r2 -> i2
                              [] a = r3 -> i3 [] OTHER  -> iv]
MCRefs == [a \in Alerts |-> CASE a = r2 -> {i1} [] a = r3 -> {i1, i2}
                              [] OTHER  -> {}]
\* Every feature has a text of its own, the two copies of a product too
\* (project_to_feature words its headline itself), and REST has the details.
MCText   == [a \in Alerts |-> a]
MCDetail == [a \in Alerts |-> IF a \in {r1, r2} THEN a ELSE None]
\* The update no longer reaches the southern county, where the last
\* destination is.
MCArea  == [a \in Alerts |-> IF a = r2 THEN {north} ELSE {north, south}]
MCRules == [d \in Dests |-> IF d = d2 THEN {south} ELSE {north, south}]
\* The operator takes the northern county from the rules of the destination
\* that covers both: it hears the warning for fewer counties, and the update
\* no more.
MCEditable == {<<d1, north>>}
=============================================================================

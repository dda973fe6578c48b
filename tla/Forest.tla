-------------------------------- MODULE Forest --------------------------------
(****************************************************************************)
(* What the object tree promises the story: each object has an ordered list *)
(* of children; removing takes an object out of the list it is in, and      *)
(* inserting puts it in front of the destination's children.  A list is a   *)
(* set with a total order: who comes before whom.                           *)
(****************************************************************************)
CONSTANT Objects

VARIABLES
    kids,     \* object -> the set of its children
    before    \* pairs: the first comes before the second among the children of one object

forestVars == <<kids, before>>

\* Lists that share nothing, each in one order.
IsForest(k, b) ==
    /\ k \in [Objects -> SUBSET Objects]
    /\ \A p, q \in Objects : p # q => k[p] \cap k[q] = {}
    /\ b \subseteq {e \in Objects \X Objects : \E p \in Objects : {e[1], e[2]} \subseteq k[p]}
    /\ \A p \in Objects : \A x, y \in k[p] : x = y \/ <<x, y>> \in b \/ <<y, x>> \in b
    /\ \A x, y \in Objects : ~(<<x, y>> \in b /\ <<y, x>> \in b)
    /\ \A x, y, z \in Objects : <<x, y>> \in b /\ <<y, z>> \in b => <<x, z>> \in b

Apart(o, b) == {e \in b : e[1] # o /\ e[2] # o}

RemoveObj(o) ==
    /\ kids' = [p \in Objects |-> kids[p] \ {o}]
    /\ before' = Apart(o, before)

InsertObj(o, d) ==
    /\ kids' = [p \in Objects |-> IF p = d THEN kids[p] \cup {o} ELSE kids[p] \ {o}]
    /\ before' = Apart(o, before) \cup ({o} \X (kids[d] \ {o}))

Init == IsForest(kids, before)

Next == \E o \in Objects : RemoveObj(o) \/ \E d \in Objects : InsertObj(o, d)

Spec == Init /\ [][Next]_forestVars
===============================================================================

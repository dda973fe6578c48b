----------------------------- MODULE ObjectForest -----------------------------
(****************************************************************************)
(* The linked table implements the forest of module Forest: the links spell *)
(* out the lists the story was promised, whatever it removes and inserts.   *)
(****************************************************************************)
EXTENDS ObjectTree

\* The lists the links spell out: an object's children are its first child and those
\* reached from it, in that order.
KidsOf(ch, sib) == [p \in Objs |-> {x \in Objs : ch[p] # 0 /\ Reaches(sib, ch[p], x)}]

BeforeOf(sib) == {e \in Objs \X Objs : e[1] # e[2] /\ Reaches(sib, e[1], e[2])}

\* An operation takes effect when it is done.
F == INSTANCE Forest WITH
        Objects <- Objs,
        kids <- KidsOf(done.child, done.sibling),
        before <- BeforeOf(done.sibling)

\* Every behaviour of the linked table is one of the ordered forest.
ImplementsForest == F!Spec

-----------------------------------------------------------------------------
(* The inductive invariant behind the refinement: what an operation that is *)
(* under way has done to the lists.                                         *)

ForestInv ==
    IF pc \in {"clear", "attach"}
    THEN /\ KidsOf(child, Without(sibling))
              = [p \in Objs |-> KidsOf(done.child, done.sibling)[p] \ {obj}]
         /\ BeforeOf(Without(sibling)) = F!Apart(obj, BeforeOf(done.sibling))
    ELSE done = [child |-> child, sibling |-> sibling]
===============================================================================

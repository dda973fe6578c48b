------------------------------ MODULE ObjectTree ------------------------------
(****************************************************************************)
(* The object tree of the story, as the object table stores it: a parent, a *)
(* sibling and a child number per object, 0 for none.  REMOVE_OBJ and       *)
(* INSERT_OBJ change it through copies of the entries (zobject.Object), so  *)
(* an operation works in steps: it reads the object, unlinks it from its    *)
(* parent's list of children, clears its links, and links it in front of    *)
(* its new parent's children.                                               *)
(* Destinations are not restricted: the code does not check that an object  *)
(* is not put inside itself.                                                *)
(****************************************************************************)
EXTENDS Integers

CONSTANT N      \* number of objects (at most 255 in V1-3, 65535 later)

ASSUME NAssumption == N \in Nat

Objs == 1..N
Refs == 0..N

VARIABLES
    parent, sibling, child,   \* the object table
    pc,                       \* where the operation is
    obj, dest,                \* its operands, dest = 0 to remove
    saved,                    \* the copy of obj's entry that RemoveObject works with
    curr,                     \* currObjId of the walk along the siblings
    done                      \* history: the lists as the last operation left them

table == <<parent, sibling, child>>
vars == <<table, pc, obj, dest, saved, curr, done>>

-----------------------------------------------------------------------------
(* A well-formed table: lists of children that share nothing.               *)

ChildrenKnowTheirParent(par, sib, ch) ==
    /\ \A p \in Objs : ch[p] # 0 => par[ch[p]] = p
    /\ \A x \in Objs : sib[x] # 0 => par[x] # 0 /\ par[sib[x]] = par[x]

EachChildIsListed(par, sib, ch) ==
    \A x \in Objs : par[x] # 0 => ch[par[x]] = x \/ \E y \in Objs : sib[y] = x

ListedOnce(par, sib, ch) ==
    /\ \A x, y \in Objs : sib[x] = sib[y] /\ sib[x] # 0 => x = y
    /\ \A x \in Objs : sib[x] # 0 => ch[par[x]] # sib[x]

\* In any set of objects one is nobody's next sibling: no chain is a circle.
NoCircle(sib) ==
    \A S \in SUBSET Objs : S # {} => \E x \in S : \A y \in S : sib[y] # x

ListsAreSound(par, sib, ch) ==
    /\ ChildrenKnowTheirParent(par, sib, ch)
    /\ EachChildIsListed(par, sib, ch)
    /\ ListedOnce(par, sib, ch)
    /\ NoCircle(sib)

-----------------------------------------------------------------------------
(* The operations.                                                          *)

NoEntry == [parent |-> 0, sibling |-> 0]

\* The operation's variables go out of scope.
Return ==
    /\ pc' = "idle"
    /\ obj' = 0 /\ dest' = 0 /\ curr' = 0
    /\ saved' = NoEntry
    /\ done' = [child |-> child', sibling |-> sibling']

Continue(step) == pc' = step /\ UNCHANGED <<obj, dest, saved, curr, done>>

\* REMOVE_OBJ o (d = 0) or INSERT_OBJ o d; object 0 is warned about and ignored.
Call(o, d) ==
    /\ pc = "idle"
    /\ obj' = o
    /\ dest' = d
    /\ saved' = [parent |-> parent[o], sibling |-> sibling[o]]
    /\ pc' = "unlink"
    /\ UNCHANGED <<table, curr, done>>

\* Faulty variant: the object is taken for the first child.
Unlink_AlwaysFirst ==
    /\ pc = "unlink"
    /\ child' = IF saved.parent = 0 THEN child
                ELSE [child EXCEPT ![saved.parent] = saved.sibling]
    /\ pc' = "clear"
    /\ UNCHANGED <<parent, sibling, curr, obj, dest, saved, done>>

\* The first child is unlinked from its parent, another needs the walk.
Unlink ==
    /\ pc = "unlink"
    /\ \/ /\ saved.parent = 0
          /\ pc' = "clear"
          /\ UNCHANGED <<child, curr>>
       \/ /\ saved.parent # 0
          /\ child[saved.parent] = obj
          /\ child' = [child EXCEPT ![saved.parent] = saved.sibling]
          /\ pc' = "clear"
          /\ UNCHANGED curr
       \/ /\ saved.parent # 0
          /\ child[saved.parent] # obj
          /\ curr' = child[saved.parent]
          /\ pc' = "walk"
          /\ UNCHANGED child
    /\ UNCHANGED <<parent, sibling, obj, dest, saved, done>>

\* Faulty variant: the loop looks at an object's sibling only after it moved on.
Walk_MovesOnFirst ==
    /\ pc = "walk"
    /\ LET next == IF curr = 0 THEN 0 ELSE sibling[curr] IN
       IF next # 0 /\ sibling[next] = obj
       THEN /\ sibling' = [sibling EXCEPT ![next] = saved.sibling]
            /\ pc' = "clear" /\ UNCHANGED curr
       ELSE /\ curr' = next
            /\ pc' = IF curr = 0 THEN "clear" ELSE "walk"
            /\ UNCHANGED sibling
    /\ UNCHANGED <<parent, child, obj, dest, saved, done>>

\* Faulty variant: the loop looks at the same object again.
Walk_DoesNotAdvance ==
    /\ pc = "walk"
    /\ IF curr # 0 /\ sibling[curr] # obj
       THEN UNCHANGED <<curr, sibling, pc>>
       ELSE /\ sibling' = IF curr = 0 THEN sibling
                          ELSE [sibling EXCEPT ![curr] = saved.sibling]
            /\ pc' = "clear"
            /\ UNCHANGED curr
    /\ UNCHANGED <<parent, child, obj, dest, saved, done>>

\* The loop ends behind the object or, were it not listed, after the last one.
Walk ==
    /\ pc = "walk"
    /\ IF curr # 0 /\ sibling[curr] # obj
       THEN curr' = sibling[curr] /\ UNCHANGED <<sibling, pc>>
       ELSE /\ sibling' = IF curr = 0 THEN sibling
                          ELSE [sibling EXCEPT ![curr] = saved.sibling]
            /\ pc' = "clear"
            /\ UNCHANGED curr
    /\ UNCHANGED <<parent, child, obj, dest, saved, done>>

\* Faulty variant: a removed object keeps its sibling.
Clear_KeepsSibling ==
    /\ pc = "clear"
    /\ parent' = [parent EXCEPT ![obj] = 0]
    /\ UNCHANGED <<sibling, child>>
    /\ IF dest = 0 THEN Return ELSE Continue("attach")

\* Faulty variant: a removal goes on to the insertion.
Clear_AlwaysAttaches ==
    /\ pc = "clear"
    /\ parent' = [parent EXCEPT ![obj] = 0]
    /\ sibling' = [sibling EXCEPT ![obj] = 0]
    /\ UNCHANGED child
    /\ Continue("attach")

Clear ==
    /\ pc = "clear"
    /\ parent' = [parent EXCEPT ![obj] = 0]
    /\ sibling' = [sibling EXCEPT ![obj] = 0]
    /\ UNCHANGED child
    /\ IF dest = 0 THEN Return ELSE Continue("attach")

Attach ==
    /\ pc = "attach"
    /\ sibling' = [sibling EXCEPT ![obj] = child[dest]]
    /\ parent' = [parent EXCEPT ![obj] = dest]
    /\ child' = [child EXCEPT ![dest] = obj]
    /\ Return

\* Any sound table the story file may hold; siblings are narrowed down first
\* only to spare TLC the tables that cannot be sound.
Init ==
    /\ parent \in [Objs -> Refs]
    /\ sibling \in {f \in [Objs -> Refs] :
                       \A x \in Objs : f[x] # 0 => parent[x] # 0 /\ parent[f[x]] = parent[x]}
    /\ child \in {f \in [Objs -> Refs] : ListsAreSound(parent, sibling, f)}
    /\ pc = "idle"
    /\ obj = 0 /\ dest = 0 /\ curr = 0
    /\ saved = NoEntry
    /\ done = [child |-> child, sibling |-> sibling]

Next ==
    \/ \E o \in Objs, d \in Refs : Call(o, d)
    \/ Unlink \/ Walk \/ Clear \/ Attach

Spec == Init /\ [][Next]_vars

\* An operation that has begun is carried to its end.
FairSpec == Spec /\ WF_vars(Unlink \/ Walk \/ Clear \/ Attach)

-----------------------------------------------------------------------------
(* Properties.                                                              *)

\* Every variable keeps its type.
TypeOK ==
    /\ parent \in [Objs -> Refs]
    /\ sibling \in [Objs -> Refs]
    /\ child \in [Objs -> Refs]
    /\ pc \in {"idle", "unlink", "walk", "clear", "attach"}
    /\ obj \in Refs /\ dest \in Refs /\ curr \in Refs
    /\ pc # "idle" => obj # 0
    /\ pc = "attach" => dest # 0
    /\ saved \in [parent : Refs, sibling : Refs]
    /\ done \in [child : [Objs -> Refs], sibling : [Objs -> Refs]]

\* Between operations each object is in the list of children of its parent,
\* once, and in no other, and following siblings ends: whatever the story
\* inserts where (the tests look for circular sibling chains).
TableIsSound == pc = "idle" => ListsAreSound(parent, sibling, child)

\* The walk finds the object: it never runs off the end of the list.
WalkFindsTheObject == pc = "walk" => curr # 0

\* Every operation ends.
OperationEnds == pc # "idle" ~> pc = "idle"

-----------------------------------------------------------------------------
(* The inductive invariant.  While obj is unlinked but not yet cleared, the *)
(* table is sound without its own two links.                                *)

Without(f) == IF pc = "clear" THEN [f EXCEPT ![obj] = 0] ELSE f

\* Every set that contains x and the siblings of its members contains y.
Reaches(sib, x, y) ==
    \A S \in SUBSET Objs :
        x \in S /\ (\A z \in S : sib[z] # 0 => sib[z] \in S) => y \in S

Inv ==
    /\ ListsAreSound(Without(parent), Without(sibling), child)
    /\ pc \in {"unlink", "walk"} =>
         saved = [parent |-> parent[obj], sibling |-> sibling[obj]]
    /\ pc = "walk" =>
         /\ parent[obj] # 0
         /\ curr # 0 /\ curr # obj
         /\ child[parent[obj]] # obj
         /\ Reaches(sibling, curr, obj)
    /\ pc = "attach" => parent[obj] = 0
===============================================================================

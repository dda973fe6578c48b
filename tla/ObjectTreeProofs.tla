--------------------------- MODULE ObjectTreeProofs ---------------------------
(****************************************************************************)
(* Proofs about ObjectTree, for any number of objects and any sound table   *)
(* to begin with.  TypeOK is inductive by itself; the soundness of the      *)
(* table between operations needs Inv, which says what the half-done table  *)
(* looks like and that the walk is on the way to the object.                *)
(****************************************************************************)
EXTENDS ObjectForest, TLAPS

-----------------------------------------------------------------------------
(* Types.                                                                   *)

LEMMA Numbers ==
    /\ 0 \in Refs /\ 0 \notin Objs
    /\ \A x : x \in Refs <=> x = 0 \/ x \in Objs
BY NAssumption DEF Objs, Refs

LEMMA TypeInductive == TypeOK /\ [Next]_vars => TypeOK'
<1> SUFFICES ASSUME TypeOK, [Next]_vars PROVE TypeOK'
    OBVIOUS
<1> USE Numbers DEF TypeOK, NoEntry
<1>1. ASSUME NEW o \in Objs, NEW d \in Refs, Call(o, d) PROVE TypeOK'
    BY <1>1 DEF Call, table
<1>2. CASE Unlink
    BY <1>2 DEF Unlink
<1>3. CASE Walk
    BY <1>3 DEF Walk
<1>4. CASE Clear
  <2>1. parent' \in [Objs -> Refs] /\ sibling' \in [Objs -> Refs] /\ child' = child
      BY <1>4 DEF Clear
  <2>2. CASE Return
      BY <2>1, <2>2 DEF Return
  <2>3. CASE dest # 0 /\ Continue("attach")
      BY <2>1, <2>3, <1>4 DEF Continue, Clear
  <2> QED
      BY <2>2, <2>3, <1>4 DEF Clear
<1>5. CASE Attach
  <2>1. parent' \in [Objs -> Refs] /\ sibling' \in [Objs -> Refs] /\ child' \in [Objs -> Refs]
      BY <1>5 DEF Attach
  <2> QED
      BY <2>1, <1>5 DEF Attach, Return
<1>6. CASE UNCHANGED vars
    BY <1>6 DEF vars, table
<1> QED
    BY <1>1, <1>2, <1>3, <1>4, <1>5, <1>6 DEF Next

\* Every variable keeps its type, whatever is inserted where.
THEOREM TypeCorrect == Spec => []TypeOK
<1>1. Init => TypeOK
    BY Numbers DEF Init, TypeOK, NoEntry
<1> QED
    BY <1>1, TypeInductive, PTL DEF Spec

-----------------------------------------------------------------------------
(* Sound tables, as data.                                                   *)

\* Taking out the first child of a list leaves a sound table.
LEMMA RemoveFirst ==
    ASSUME NEW par \in [Objs -> Refs], NEW sib \in [Objs -> Refs], NEW ch \in [Objs -> Refs],
           NEW o \in Objs, ListsAreSound(par, sib, ch),
           par[o] # 0, ch[par[o]] = o
    PROVE  ListsAreSound([par EXCEPT ![o] = 0], [sib EXCEPT ![o] = 0],
                         [ch EXCEPT ![par[o]] = sib[o]])
<1> DEFINE par1 == [par EXCEPT ![o] = 0]
           sib1 == [sib EXCEPT ![o] = 0]
           ch1 == [ch EXCEPT ![par[o]] = sib[o]]
<1> USE Numbers
<1>1. \A x \in Objs : sib[x] # o
    BY DEF ListsAreSound, ChildrenKnowTheirParent, ListedOnce
<1>2. ChildrenKnowTheirParent(par1, sib1, ch1)
    BY <1>1 DEF ListsAreSound, ChildrenKnowTheirParent, ListedOnce
<1>3. EachChildIsListed(par1, sib1, ch1)
    BY DEF ListsAreSound, ChildrenKnowTheirParent, EachChildIsListed
<1>4. ListedOnce(par1, sib1, ch1)
    BY DEF ListsAreSound, ChildrenKnowTheirParent, ListedOnce
<1>5. NoCircle(sib1)
    BY DEF ListsAreSound, NoCircle
<1> QED
    BY <1>2, <1>3, <1>4, <1>5 DEF ListsAreSound

\* So does taking out a later child, through the one in front of it.
LEMMA RemoveLater ==
    ASSUME NEW par \in [Objs -> Refs], NEW sib \in [Objs -> Refs], NEW ch \in [Objs -> Refs],
           NEW o \in Objs, NEW c \in Objs, ListsAreSound(par, sib, ch),
           c # o, sib[c] = o
    PROVE  ListsAreSound([par EXCEPT ![o] = 0],
                         [[sib EXCEPT ![c] = sib[o]] EXCEPT ![o] = 0], ch)
<1> DEFINE par1 == [par EXCEPT ![o] = 0]
           sib1 == [[sib EXCEPT ![c] = sib[o]] EXCEPT ![o] = 0]
<1> USE Numbers
<1>1. \A p \in Objs : ch[p] # o
    BY DEF ListsAreSound, ChildrenKnowTheirParent, ListedOnce
<1>2. sib[o] # o
    BY DEF ListsAreSound, ListedOnce
<1>3. \A x \in Objs : sib1[x] = IF x = o THEN 0 ELSE IF x = c THEN sib[o] ELSE sib[x]
    OBVIOUS
<1>4. ChildrenKnowTheirParent(par1, sib1, ch)
    BY <1>1, <1>2, <1>3 DEF ListsAreSound, ChildrenKnowTheirParent, ListedOnce
<1>5. EachChildIsListed(par1, sib1, ch)
  <2> SUFFICES ASSUME NEW x \in Objs, x # o, par[x] # 0, ch[par[x]] # x
               PROVE  \E y \in Objs : sib1[y] = x
      BY DEF EachChildIsListed
  <2>1. PICK y \in Objs : sib[y] = x
      BY DEF ListsAreSound, EachChildIsListed
  <2>2. CASE y = o
      BY <1>3, <2>1, <2>2
  <2>3. CASE y # o
      BY <1>3, <2>1, <2>3
  <2> QED
      BY <2>2, <2>3
<1>6. ListedOnce(par1, sib1, ch)
    BY <1>1, <1>2, <1>3 DEF ListsAreSound, ChildrenKnowTheirParent, ListedOnce
<1>7. NoCircle(sib1)
  <2> SUFFICES ASSUME NEW S \in SUBSET Objs, S # {}
               PROVE  \E x \in S : \A y \in S : sib1[y] # x
      BY DEF NoCircle
  <2>1. PICK x \in S \union {o} : \A y \in S \union {o} : sib[y] # x
      BY S \union {o} \in SUBSET Objs, S \union {o} # {} DEF ListsAreSound, NoCircle
  <2>2. CASE x \in S
      BY <1>3, <2>1, <2>2
  <2>3. CASE x = o /\ o \notin S
      \* c is not in S, so the members of S keep their siblings
    <3>1. \A y \in S : sib1[y] = sib[y]
        BY <1>3, <2>1, <2>3
    <3> QED
        BY <3>1 DEF ListsAreSound, NoCircle
  <2> QED
      BY <2>2, <2>3
<1> QED
    BY <1>4, <1>5, <1>6, <1>7 DEF ListsAreSound

\* Putting an object without parent in front of a list leaves a sound table.
LEMMA AddFirst ==
    ASSUME NEW par \in [Objs -> Refs], NEW sib \in [Objs -> Refs], NEW ch \in [Objs -> Refs],
           NEW o \in Objs, NEW d \in Objs, ListsAreSound(par, sib, ch), par[o] = 0
    PROVE  ListsAreSound([par EXCEPT ![o] = d], [sib EXCEPT ![o] = ch[d]],
                         [ch EXCEPT ![d] = o])
<1> DEFINE par1 == [par EXCEPT ![o] = d]
           sib1 == [sib EXCEPT ![o] = ch[d]]
           ch1 == [ch EXCEPT ![d] = o]
<1> USE Numbers
<1>1. (\A x \in Objs : sib[x] # o) /\ sib[o] = 0
    BY DEF ListsAreSound, ChildrenKnowTheirParent
<1>2. \A p \in Objs : ch[p] # o
    BY DEF ListsAreSound, ChildrenKnowTheirParent
<1>3. ChildrenKnowTheirParent(par1, sib1, ch1)
    BY <1>1, <1>2 DEF ListsAreSound, ChildrenKnowTheirParent
<1>4. EachChildIsListed(par1, sib1, ch1)
    BY <1>1, <1>2 DEF ListsAreSound, EachChildIsListed
<1>5. ListedOnce(par1, sib1, ch1)
    BY <1>1, <1>2 DEF ListsAreSound, ChildrenKnowTheirParent, ListedOnce
<1>6. NoCircle(sib1)
  <2> SUFFICES ASSUME NEW S \in SUBSET Objs, S # {}
               PROVE  \E x \in S : \A y \in S : sib1[y] # x
      BY DEF NoCircle
  <2>1. CASE o \in S
      BY <1>1, <1>2, <2>1
  <2>2. CASE o \notin S
      BY <2>2 DEF ListsAreSound, NoCircle
  <2> QED
      BY <2>1, <2>2
<1> QED
    BY <1>3, <1>4, <1>5, <1>6 DEF ListsAreSound

\* A child of p is reached from the first child of p by following siblings.
LEMMA WalkStart ==
    ASSUME NEW par \in [Objs -> Refs], NEW sib \in [Objs -> Refs], NEW ch \in [Objs -> Refs],
           NEW o \in Objs, ListsAreSound(par, sib, ch), par[o] # 0
    PROVE  ch[par[o]] # 0 /\ Reaches(sib, ch[par[o]], o)
<1> USE Numbers
<1>1. ASSUME NEW S \in SUBSET Objs,
             \A z \in S : sib[z] # 0 => sib[z] \in S,
             ch[par[o]] # 0 => ch[par[o]] \in S,
             o \notin S
      PROVE  FALSE
  <2> DEFINE T == {x \in Objs : par[x] = par[o] /\ x \notin S}
  <2>1. PICK x \in T : \A y \in T : sib[y] # x
      BY <1>1 DEF ListsAreSound, NoCircle
  <2>2. ch[par[x]] # x
      BY <1>1
  <2>3. PICK y \in Objs : sib[y] = x
      BY <2>2 DEF ListsAreSound, EachChildIsListed
  <2>4. par[y] = par[o] /\ y \notin S
      BY <1>1, <2>3 DEF ListsAreSound, ChildrenKnowTheirParent
  <2> QED
      BY <2>1, <2>3, <2>4
<1>2. ch[par[o]] # 0
    BY <1>1, {} \in SUBSET Objs
<1>3. Reaches(sib, ch[par[o]], o)
    BY <1>1 DEF Reaches
<1> QED
    BY <1>2, <1>3

\* A walk that has not arrived goes on, and is still on the way.
LEMMA WalkStep ==
    ASSUME NEW sib \in [Objs -> Refs], NEW c \in Objs, NEW o \in Objs,
           Reaches(sib, c, o), c # o
    PROVE  sib[c] # 0 /\ Reaches(sib, sib[c], o)
<1> USE Numbers
<1>1. sib[c] # 0
  <2> SUFFICES ASSUME sib[c] = 0 PROVE FALSE
      OBVIOUS
  <2> QED
      BY {c} \in SUBSET Objs DEF Reaches
<1>2. ASSUME NEW S \in SUBSET Objs, sib[c] \in S,
             \A z \in S : sib[z] # 0 => sib[z] \in S
      PROVE  o \in S
  <2>1. S \union {c} \in SUBSET Objs
      OBVIOUS
  <2>2. \A z \in S \union {c} : sib[z] # 0 => sib[z] \in S \union {c}
      BY <1>2
  <2>3. o \in S \union {c}
      BY <2>1, <2>2 DEF Reaches
  <2> QED
      BY <2>3
<1> QED
    BY <1>1, <1>2 DEF Reaches

-----------------------------------------------------------------------------
(* The invariant.                                                           *)

LEMMA Begins == Init => TypeOK /\ Inv
BY Numbers DEF Init, TypeOK, NoEntry, Inv, Without

LEMMA InvInductive == TypeOK /\ Inv /\ [Next]_vars => Inv'
<1> SUFFICES ASSUME TypeOK, Inv, [Next]_vars PROVE Inv'
    OBVIOUS
<1> USE Numbers
<1>1. ASSUME NEW o \in Objs, NEW d \in Refs, Call(o, d) PROVE Inv'
    BY <1>1 DEF Call, table, Inv, Without
<1>2. CASE Unlink
  <2>1. obj \in Objs /\ saved = [parent |-> parent[obj], sibling |-> sibling[obj]]
        /\ ListsAreSound(parent, sibling, child)
      BY <1>2 DEF Unlink, TypeOK, Inv, Without
  <2>2. CASE saved.parent = 0
    <3>1. sibling[obj] = 0 /\ parent[obj] = 0
        BY <2>1, <2>2 DEF TypeOK, ListsAreSound, ChildrenKnowTheirParent
    <3>2. [parent EXCEPT ![obj] = 0] = parent /\ [sibling EXCEPT ![obj] = 0] = sibling
        BY <2>1, <3>1 DEF TypeOK
    <3>3. pc' = "clear" /\ UNCHANGED <<parent, sibling, child, obj>>
        BY <1>2, <2>2 DEF Unlink
    <3> QED
        BY <2>1, <3>2, <3>3 DEF Inv, Without
  <2>3. CASE saved.parent # 0 /\ child[saved.parent] = obj
    <3>1. ListsAreSound([parent EXCEPT ![obj] = 0], [sibling EXCEPT ![obj] = 0],
                        [child EXCEPT ![parent[obj]] = sibling[obj]])
        BY <2>1, <2>3, RemoveFirst DEF TypeOK
    <3> QED
        BY <1>2, <2>1, <2>3, <3>1 DEF Unlink, Inv, Without
  <2>4. CASE saved.parent # 0 /\ child[saved.parent] # obj
    <3>1. child[parent[obj]] # 0 /\ Reaches(sibling, child[parent[obj]], obj)
        BY <2>1, <2>4, WalkStart DEF TypeOK
    <3> QED
        BY <1>2, <2>1, <2>4, <3>1 DEF Unlink, Inv, Without
  <2> QED
      BY <2>2, <2>3, <2>4
<1>3. CASE Walk
  <2>1. obj \in Objs /\ curr \in Objs /\ curr # obj
      BY <1>3 DEF Walk, TypeOK, Inv
  <2>2. CASE sibling[curr] # obj
    <3>1. sibling[curr] # 0 /\ Reaches(sibling, sibling[curr], obj)
        BY <1>3, <2>1, WalkStep DEF Walk, TypeOK, Inv
    <3> QED
        BY <1>3, <2>1, <2>2, <3>1 DEF Walk, Inv, Without
  <2>3. CASE sibling[curr] = obj
    <3>1. ListsAreSound([parent EXCEPT ![obj] = 0],
                        [[sibling EXCEPT ![curr] = sibling[obj]] EXCEPT ![obj] = 0], child)
        BY <1>3, <2>1, <2>3, RemoveLater DEF Walk, TypeOK, Inv, Without
    <3>2. saved.sibling = sibling[obj]
        BY <1>3 DEF Walk, Inv
    <3>3. /\ pc' = "clear" /\ UNCHANGED <<parent, child, obj>>
          /\ sibling' = [sibling EXCEPT ![curr] = sibling[obj]]
        BY <1>3, <2>1, <2>3, <3>2 DEF Walk
    <3> QED
        BY <3>1, <3>3 DEF Inv, Without
  <2> QED
      BY <2>2, <2>3
<1>4. CASE Clear
  <2>1. ListsAreSound(parent', sibling', child')
      BY <1>4 DEF Clear, Inv, Without
  <2>2. pc' \in {"idle", "attach"} /\ (pc' = "attach" => parent'[obj'] = 0)
      BY <1>4 DEF Clear, Return, Continue, TypeOK
  <2> QED
      BY <2>1, <2>2 DEF Inv, Without
<1>5. CASE Attach
  <2>1. obj \in Objs /\ dest \in Objs /\ parent[obj] = 0
        /\ ListsAreSound(parent, sibling, child)
      BY <1>5 DEF Attach, TypeOK, Inv, Without
  <2>2. ListsAreSound(parent', sibling', child')
      BY <1>5, <2>1, AddFirst DEF Attach, TypeOK
  <2> QED
      BY <1>5, <2>2 DEF Attach, Return, Inv, Without
<1>6. CASE UNCHANGED vars
    BY <1>6 DEF vars, table, Inv, Without
<1> QED
    BY <1>1, <1>2, <1>3, <1>4, <1>5, <1>6 DEF Next

LEMMA Invariant == Spec => [](TypeOK /\ Inv)
BY Begins, TypeInductive, InvInductive, PTL DEF Spec

\* Whatever is removed and inserted where, between operations every object is
\* in exactly the list of its parent and no chain of siblings is a circle.
THEOREM TableStaysSound == Spec => []TableIsSound
<1>1. Inv => TableIsSound
    BY DEF Inv, TableIsSound, Without
<1> QED
    BY <1>1, Invariant, PTL

\* The walk along the siblings never runs off the end of the list.
THEOREM WalkAlwaysFinds == Spec => []WalkFindsTheObject
<1>1. Inv => WalkFindsTheObject
    BY DEF Inv, WalkFindsTheObject
<1> QED
    BY <1>1, Invariant, PTL

-----------------------------------------------------------------------------
(* The lists the links spell out.                                           *)

LEMMA ReachesTransitive ==
    ASSUME NEW sib \in [Objs -> Refs], NEW x \in Objs, NEW y \in Objs, NEW z \in Objs,
           Reaches(sib, x, y), Reaches(sib, y, z)
    PROVE  Reaches(sib, x, z)
BY DEF Reaches

LEMMA ReachesItself == \A sib, x : Reaches(sib, x, x)
BY DEF Reaches

LEMMA ReachesNext ==
    ASSUME NEW sib \in [Objs -> Refs], NEW x \in Objs, sib[x] # 0
    PROVE  sib[x] \in Objs /\ Reaches(sib, x, sib[x])
BY Numbers DEF Reaches

\* What is reached from x is x or comes after something that is reached.
LEMMA ReachedThrough ==
    ASSUME NEW sib \in [Objs -> Refs], NEW x \in Objs, NEW z \in Objs, Reaches(sib, x, z), x # z
    PROVE  \E w \in Objs : Reaches(sib, x, w) /\ sib[w] = z
<1> DEFINE S == {w \in Objs : Reaches(sib, x, w)} \ {z}
<1> SUFFICES ASSUME \A w \in Objs : Reaches(sib, x, w) => sib[w] # z PROVE FALSE
    OBVIOUS
<1>1. x \in S
    BY ReachesItself
<1>2. ASSUME NEW w \in S, sib[w] # 0 PROVE sib[w] \in S
  <2>1. sib[w] \in Objs /\ Reaches(sib, w, sib[w])
      BY <1>2, ReachesNext
  <2>2. Reaches(sib, x, sib[w])
      BY <2>1, ReachesTransitive
  <2> QED
      BY <2>1, <2>2
<1>3. z \in S
    BY <1>1, <1>2, S \in SUBSET Objs DEF Reaches
<1> QED
    BY <1>3

\* Of two objects reached from a third, one is reached from the other.
LEMMA ReachedInOrder ==
    ASSUME NEW sib \in [Objs -> Refs], NEW a \in Objs, NEW x \in Objs, NEW y \in Objs,
           Reaches(sib, a, x), Reaches(sib, a, y)
    PROVE  Reaches(sib, x, y) \/ Reaches(sib, y, x)
<1> SUFFICES ASSUME ~Reaches(sib, x, y), ~Reaches(sib, y, x) PROVE FALSE
    OBVIOUS
<1> DEFINE S == {z \in Objs : Reaches(sib, z, x) /\ Reaches(sib, z, y)}
<1>1. a \in S
    OBVIOUS
<1>2. ASSUME NEW z \in S, sib[z] # 0 PROVE sib[z] \in S
  <2>1. z # x /\ z # y
      BY <1>2
  <2>2. sib[z] \in Objs
      BY <1>2, ReachesNext
  <2>3. Reaches(sib, sib[z], x) /\ Reaches(sib, sib[z], y)
      BY <2>1, WalkStep
  <2> QED
      BY <2>2, <2>3
<1>3. x \in S
    BY <1>1, <1>2, S \in SUBSET Objs DEF Reaches
<1> QED
    BY <1>3

\* No two objects are reached from each other.
LEMMA ReachedOneWay ==
    ASSUME NEW sib \in [Objs -> Refs], NoCircle(sib), NEW x \in Objs, NEW y \in Objs, x # y,
           Reaches(sib, x, y), Reaches(sib, y, x)
    PROVE  FALSE
<1> DEFINE S == {z \in Objs : Reaches(sib, x, z) /\ Reaches(sib, z, x)}
<1>1. x \in S /\ y \in S
    BY ReachesItself
<1>2. PICK z \in S : \A w \in S : sib[w] # z
    BY <1>1, S \in SUBSET Objs DEF NoCircle
<1>3. \E s \in S : s # z /\ Reaches(sib, s, z)
  <2>1. CASE z = x
      BY <1>1, <2>1
  <2>2. CASE z # x
      BY <1>1, <2>2
  <2> QED
      BY <2>1, <2>2
<1>4. PICK s \in S : s # z /\ Reaches(sib, s, z)
    BY <1>3
<1>5. PICK w \in Objs : Reaches(sib, s, w) /\ sib[w] = z
    BY <1>4, ReachedThrough
<1>6. Reaches(sib, x, w)
    BY <1>5, ReachesTransitive
<1>7. Reaches(sib, w, x)
  <2>1. sib[w] # 0
      BY <1>5, Numbers
  <2>2. Reaches(sib, w, z)
      BY <1>5, <2>1, ReachesNext
  <2> QED
      BY <2>2, ReachesTransitive
<1> QED
    BY <1>2, <1>5, <1>6, <1>7

\* The members of the lists, and who comes before whom.
LEMMA KidsMembers ==
    ASSUME NEW ch \in [Objs -> Refs], NEW sib \in [Objs -> Refs]
    PROVE  /\ KidsOf(ch, sib) \in [Objs -> SUBSET Objs]
           /\ \A p, x \in Objs : x \in KidsOf(ch, sib)[p] <=> ch[p] # 0 /\ Reaches(sib, ch[p], x)
BY DEF KidsOf

LEMMA BeforePairs ==
    ASSUME NEW sib \in [Objs -> Refs]
    PROVE  /\ BeforeOf(sib) \subseteq Objs \X Objs
           /\ \A x, y \in Objs : <<x, y>> \in BeforeOf(sib) <=> x # y /\ Reaches(sib, x, y)
BY DEF BeforeOf

LEMMA ApartPairs ==
    ASSUME NEW b \in SUBSET (Objs \X Objs), NEW o \in Objs
    PROVE  /\ F!Apart(o, b) \subseteq Objs \X Objs
           /\ \A x, y \in Objs : <<x, y>> \in F!Apart(o, b) <=> <<x, y>> \in b /\ x # o /\ y # o
BY DEF F!Apart

LEMMA SamePairs ==
    ASSUME NEW b \in SUBSET (Objs \X Objs), NEW c \in SUBSET (Objs \X Objs),
           \A x, y \in Objs : <<x, y>> \in b <=> <<x, y>> \in c
    PROVE  b = c
<1>1. \A e \in Objs \X Objs : e \in b <=> e \in c
    OBVIOUS
<1> QED
    BY <1>1

\* The links of sib with o taken out of its list.
TakenOut(sib, o) ==
    [x \in Objs |-> IF x = o THEN 0 ELSE IF sib[x] = o THEN sib[o] ELSE sib[x]]

LEMMA TakenOutReaches ==
    ASSUME NEW sib \in [Objs -> Refs], NEW o \in Objs, sib[o] # o, NEW x \in Objs, x # o,
           NEW y \in Objs
    PROVE  Reaches(TakenOut(sib, o), x, y) <=> y # o /\ Reaches(sib, x, y)
<1> DEFINE new == TakenOut(sib, o)
<1> USE Numbers
<1>n. \A z \in Objs : new[z] = IF z = o THEN 0 ELSE IF sib[z] = o THEN sib[o] ELSE sib[z]
    BY DEF TakenOut
<1> HIDE DEF new
<1>1. ASSUME Reaches(new, x, y) PROVE y # o
  <2> DEFINE S == Objs \ {o}
  <2>1. S \in SUBSET Objs /\ x \in S /\ \A z \in S : new[z] # 0 => new[z] \in S
      BY <1>n
  <2> QED
      BY <1>1, <2>1 DEF Reaches
<1>2. ASSUME Reaches(new, x, y), NEW S \in SUBSET Objs, x \in S,
             \A z \in S : sib[z] # 0 => sib[z] \in S
      PROVE  y \in S
  <2>1. \A z \in S : new[z] # 0 => new[z] \in S
      BY <1>2, <1>n
  <2> QED
      BY <1>2, <2>1 DEF Reaches
<1>3. ASSUME y # o, Reaches(sib, x, y), NEW S \in SUBSET Objs, x \in S,
             \A z \in S : new[z] # 0 => new[z] \in S
      PROVE  y \in S
  <2>1. CASE \E c \in S \ {o} : sib[c] = o
    <3>1. PICK c \in S \ {o} : sib[c] = o
        BY <2>1
    <3>2. new[c] = sib[o]
        BY <1>n, <3>1
    <3>3. \A z \in S \cup {o} : sib[z] # 0 => sib[z] \in S \cup {o}
        BY <1>3, <1>n, <3>1, <3>2
    <3>4. S \cup {o} \in SUBSET Objs /\ x \in S \cup {o}
        BY <1>3
    <3>5. y \in S \cup {o}
        BY <1>3, <3>3, <3>4 DEF Reaches
    <3> QED
        BY <1>3, <3>5
  <2>2. CASE \A c \in S \ {o} : sib[c] # o
    <3>1. \A z \in S \ {o} : sib[z] # 0 => sib[z] \in S \ {o}
        BY <1>3, <1>n, <2>2
    <3>2. S \ {o} \in SUBSET Objs /\ x \in S \ {o}
        BY <1>3
    <3>3. y \in S \ {o}
        BY <1>3, <3>1, <3>2 DEF Reaches
    <3> QED
        BY <3>3
  <2> QED
      BY <2>1, <2>2
<1>4. Reaches(new, x, y) => Reaches(sib, x, y)
    BY <1>2 DEF Reaches
<1>5. y # o /\ Reaches(sib, x, y) => Reaches(new, x, y)
    BY <1>3 DEF Reaches
<1> QED
    BY <1>1, <1>4, <1>5 DEF new

\* Taking o out of the links takes it out of the lists and leaves them in order.
LEMMA ListsWithout ==
    ASSUME NEW ch \in [Objs -> Refs], NEW sib \in [Objs -> Refs], NEW o \in Objs, sib[o] # o
    PROVE  /\ KidsOf([p \in Objs |-> IF ch[p] = o THEN sib[o] ELSE ch[p]], TakenOut(sib, o))
                = [p \in Objs |-> KidsOf(ch, sib)[p] \ {o}]
           /\ BeforeOf(TakenOut(sib, o)) = F!Apart(o, BeforeOf(sib))
<1> DEFINE new == TakenOut(sib, o)
           first == [p \in Objs |-> IF ch[p] = o THEN sib[o] ELSE ch[p]]
<1> USE Numbers
<1>1. /\ new \in [Objs -> Refs] /\ first \in [Objs -> Refs]
      /\ \A p \in Objs : first[p] = IF ch[p] = o THEN sib[o] ELSE ch[p]
      /\ new[o] = 0
    BY DEF TakenOut
<1>2. \A x, y \in Objs : x # o => (Reaches(new, x, y) <=> y # o /\ Reaches(sib, x, y))
    BY TakenOutReaches
<1> HIDE DEF new, first
<1>3. ASSUME NEW p \in Objs, NEW x \in Objs
      PROVE  first[p] # 0 /\ Reaches(new, first[p], x)
                <=> x # o /\ ch[p] # 0 /\ Reaches(sib, ch[p], x)
  <2>1. CASE ch[p] # o
    <3>1. first[p] = ch[p]
        BY <1>1, <2>1
    <3>2. CASE ch[p] = 0
        BY <3>1, <3>2
    <3>3. CASE ch[p] # 0
        BY <1>2, <2>1, <3>1, <3>3
    <3> QED
        BY <3>2, <3>3
  <2>2. CASE ch[p] = o
    <3>1. first[p] = sib[o]
        BY <1>1, <2>2
    <3>2. ASSUME first[p] # 0, Reaches(new, first[p], x)
          PROVE  x # o /\ Reaches(sib, o, x)
      <4>1. sib[o] \in Objs /\ Reaches(sib, o, sib[o])
          BY <3>1, <3>2, ReachesNext
      <4>2. x # o /\ Reaches(sib, sib[o], x)
          BY <1>2, <3>1, <3>2, <4>1
      <4> QED
          BY <4>1, <4>2, ReachesTransitive
    <3>3. ASSUME x # o, Reaches(sib, o, x)
          PROVE  first[p] # 0 /\ Reaches(new, first[p], x)
      <4>1. sib[o] # 0 /\ Reaches(sib, sib[o], x)
          BY <3>3, WalkStep
      <4>2. sib[o] \in Objs
          BY <4>1
      <4> QED
          BY <1>2, <3>1, <3>3, <4>1, <4>2
    <3> QED
        BY <2>2, <3>2, <3>3
  <2> QED
      BY <2>1, <2>2
<1>4. KidsOf(first, new) = [p \in Objs |-> KidsOf(ch, sib)[p] \ {o}]
  <2>1. KidsOf(first, new) \in [Objs -> SUBSET Objs] /\ KidsOf(ch, sib) \in [Objs -> SUBSET Objs]
      BY <1>1, KidsMembers
  <2>2. ASSUME NEW p \in Objs PROVE KidsOf(first, new)[p] = KidsOf(ch, sib)[p] \ {o}
    <3>1. \A x \in Objs : x \in KidsOf(first, new)[p] <=> x \in KidsOf(ch, sib)[p] /\ x # o
        BY <1>1, <1>3, KidsMembers
    <3> QED
        BY <2>1, <3>1
  <2> QED
      BY <2>1, <2>2
<1>5. BeforeOf(new) = F!Apart(o, BeforeOf(sib))
  <2>1. BeforeOf(new) \in SUBSET (Objs \X Objs) /\ BeforeOf(sib) \in SUBSET (Objs \X Objs)
      BY <1>1, BeforePairs
  <2>2. F!Apart(o, BeforeOf(sib)) \in SUBSET (Objs \X Objs)
      BY <2>1, ApartPairs
  <2>3. ASSUME NEW x \in Objs, NEW y \in Objs
        PROVE  <<x, y>> \in BeforeOf(new) <=> <<x, y>> \in F!Apart(o, BeforeOf(sib))
    <3>1. <<x, y>> \in BeforeOf(new) <=> x # y /\ Reaches(new, x, y)
        BY <1>1, BeforePairs
    <3>2. <<x, y>> \in BeforeOf(sib) <=> x # y /\ Reaches(sib, x, y)
        BY BeforePairs
    <3>3. <<x, y>> \in F!Apart(o, BeforeOf(sib))
             <=> <<x, y>> \in BeforeOf(sib) /\ x # o /\ y # o
        BY <2>1, ApartPairs
    <3>4. CASE x = o
      <4>1. x # y => ~Reaches(new, x, y)
          BY <1>1, <3>4, WalkStep
      <4> QED
          BY <3>1, <3>3, <3>4, <4>1
    <3>5. CASE x # o
        BY <1>2, <3>1, <3>2, <3>3, <3>5
    <3> QED
        BY <3>4, <3>5
  <2> QED
      BY <2>1, <2>2, <2>3, SamePairs
<1> QED
    BY <1>4, <1>5 DEF new, first

\* An object nobody points to, put in front of what h begins, is followed by just that.
LEMMA PutInReaches ==
    ASSUME NEW sib \in [Objs -> Refs], NEW o \in Objs, NEW h \in Refs, h # o,
           sib[o] = 0, \A x \in Objs : sib[x] # o, NEW y \in Objs
    PROVE  /\ \A x \in Objs : x # o =>
                (Reaches([sib EXCEPT ![o] = h], x, y) <=> Reaches(sib, x, y))
           /\ Reaches([sib EXCEPT ![o] = h], o, y) <=> y = o \/ (h # 0 /\ Reaches(sib, h, y))
<1> DEFINE new == [sib EXCEPT ![o] = h]
<1> USE Numbers
<1>n. new \in [Objs -> Refs] /\ new[o] = h /\ \A z \in Objs : z # o => new[z] = sib[z]
    OBVIOUS
<1> HIDE DEF new
<1>1. ASSUME NEW x \in Objs, x # o PROVE Reaches(new, x, y) <=> Reaches(sib, x, y)
  <2>1. ASSUME Reaches(new, x, y), NEW S \in SUBSET Objs, x \in S,
               \A z \in S : sib[z] # 0 => sib[z] \in S
        PROVE  y \in S
    <3>1. S \ {o} \in SUBSET Objs /\ x \in S \ {o}
        BY <1>1, <2>1
    <3>2. \A z \in S \ {o} : new[z] # 0 => new[z] \in S \ {o}
        BY <1>n, <2>1
    <3>3. y \in S \ {o}
        BY <2>1, <3>1, <3>2 DEF Reaches
    <3> QED
        BY <3>3
  <2>2. ASSUME Reaches(sib, x, y), NEW S \in SUBSET Objs, x \in S,
               \A z \in S : new[z] # 0 => new[z] \in S
        PROVE  y \in S
    <3>1. S \ {o} \in SUBSET Objs /\ x \in S \ {o}
        BY <1>1, <2>2
    <3>2. \A z \in S \ {o} : sib[z] # 0 => sib[z] \in S \ {o}
        BY <1>n, <2>2
    <3>3. y \in S \ {o}
        BY <2>2, <3>1, <3>2 DEF Reaches
    <3> QED
        BY <3>3
  <2> QED
      BY <2>1, <2>2 DEF Reaches
<1>2. ASSUME Reaches(new, o, y), y # o PROVE h # 0 /\ Reaches(sib, h, y)
  <2>1. h # 0 /\ Reaches(new, h, y)
      BY <1>2, <1>n, WalkStep
  <2> QED
      BY <1>1, <2>1
<1>3. ASSUME h # 0, Reaches(sib, h, y) PROVE Reaches(new, o, y)
  <2>1. Reaches(new, h, y) /\ h \in Objs
      BY <1>1, <1>3
  <2>2. Reaches(new, o, h)
      BY <1>3, <1>n, ReachesNext
  <2> QED
      BY <1>n, <2>1, <2>2, ReachesTransitive
<1>4. Reaches(new, o, o)
    BY ReachesItself
<1> QED
    BY <1>1, <1>2, <1>3, <1>4 DEF new

\* The children with o among those of d, and in front of the members of k.
Joined(kids, o, d) == [p \in Objs |-> IF p = d THEN kids[p] \cup {o} ELSE kids[p]]

InFront(before, o, k) == before \cup ({o} \X (k \ {o}))

LEMMA ListsWith ==
    ASSUME NEW ch \in [Objs -> Refs], NEW sib \in [Objs -> Refs], NEW o \in Objs, NEW d \in Objs,
           sib[o] = 0, \A x \in Objs : sib[x] # o, \A p \in Objs : ch[p] # o
    PROVE  /\ KidsOf([ch EXCEPT ![d] = o], [sib EXCEPT ![o] = ch[d]])
                = Joined(KidsOf(ch, sib), o, d)
           /\ BeforeOf([sib EXCEPT ![o] = ch[d]])
                = InFront(BeforeOf(sib), o, KidsOf(ch, sib)[d])
<1> DEFINE new == [sib EXCEPT ![o] = ch[d]]
           first == [ch EXCEPT ![d] = o]
<1> USE Numbers
<1>1. /\ new \in [Objs -> Refs] /\ first \in [Objs -> Refs]
      /\ first[d] = o /\ \A p \in Objs : p # d => first[p] = ch[p]
    OBVIOUS
<1>2. \A x, y \in Objs : x # o => (Reaches(new, x, y) <=> Reaches(sib, x, y))
    BY PutInReaches
<1>3. \A y \in Objs : Reaches(new, o, y) <=> y = o \/ (ch[d] # 0 /\ Reaches(sib, ch[d], y))
    BY PutInReaches
<1> HIDE DEF new, first
<1>k. KidsOf(ch, sib) \in [Objs -> SUBSET Objs]
    BY KidsMembers
<1>4. KidsOf(first, new)
        = [p \in Objs |-> IF p = d THEN KidsOf(ch, sib)[p] \cup {o} ELSE KidsOf(ch, sib)[p]]
  <2>1. KidsOf(first, new) \in [Objs -> SUBSET Objs]
      BY <1>1, KidsMembers
  <2>2. ASSUME NEW p \in Objs, p # d PROVE KidsOf(first, new)[p] = KidsOf(ch, sib)[p]
    <3>1. ASSUME NEW x \in Objs
          PROVE  first[p] # 0 /\ Reaches(new, first[p], x) <=> ch[p] # 0 /\ Reaches(sib, ch[p], x)
        BY <1>1, <1>2, <2>2
    <3>2. \A x \in Objs : x \in KidsOf(first, new)[p] <=> x \in KidsOf(ch, sib)[p]
        BY <1>1, <3>1, KidsMembers
    <3> QED
        BY <1>k, <2>1, <3>2
  <2>3. KidsOf(first, new)[d] = KidsOf(ch, sib)[d] \cup {o}
    <3>1. \A x \in Objs : x \in KidsOf(first, new)[d] <=> first[d] # 0 /\ Reaches(new, first[d], x)
        BY <1>1, KidsMembers
    <3>2. \A x \in Objs : x \in KidsOf(ch, sib)[d] <=> ch[d] # 0 /\ Reaches(sib, ch[d], x)
        BY KidsMembers
    <3>3. \A x \in Objs : x \in KidsOf(first, new)[d] <=> x \in KidsOf(ch, sib)[d] \/ x = o
        BY <1>1, <1>3, <3>1, <3>2
    <3> QED
        BY <1>k, <2>1, <3>3
  <2> QED
      BY <2>1, <2>2, <2>3
<1>5. BeforeOf(new) = BeforeOf(sib) \cup ({o} \X (KidsOf(ch, sib)[d] \ {o}))
  <2> DEFINE more == {o} \X (KidsOf(ch, sib)[d] \ {o})
  <2>1. BeforeOf(new) \in SUBSET (Objs \X Objs) /\ BeforeOf(sib) \in SUBSET (Objs \X Objs)
      BY <1>1, BeforePairs
  <2>2. BeforeOf(sib) \cup more \in SUBSET (Objs \X Objs)
      BY <1>k, <2>1
  <2>3. ASSUME NEW x \in Objs, NEW y \in Objs
        PROVE  <<x, y>> \in BeforeOf(new) <=> <<x, y>> \in BeforeOf(sib) \cup more
    <3>1. <<x, y>> \in BeforeOf(new) <=> x # y /\ Reaches(new, x, y)
        BY <1>1, BeforePairs
    <3>2. <<x, y>> \in BeforeOf(sib) <=> x # y /\ Reaches(sib, x, y)
        BY BeforePairs
    <3>3. y \in KidsOf(ch, sib)[d] <=> ch[d] # 0 /\ Reaches(sib, ch[d], y)
        BY KidsMembers
    <3>4. <<x, y>> \in more <=> x = o /\ y # o /\ y \in KidsOf(ch, sib)[d]
        OBVIOUS
    <3>5. CASE x = o
      <4>1. x # y => ~Reaches(sib, x, y)
          BY <3>5, WalkStep
      <4> QED
          BY <1>3, <3>1, <3>2, <3>3, <3>4, <3>5, <4>1
    <3>6. CASE x # o
        BY <1>2, <3>1, <3>2, <3>4, <3>6
    <3> QED
        BY <3>5, <3>6
  <2> HIDE DEF more
  <2>4. BeforeOf(new) = BeforeOf(sib) \cup more
      BY <2>1, <2>2, <2>3, SamePairs
  <2> QED
      BY <2>4 DEF more
<1> QED
    BY <1>4, <1>5 DEF new, first, Joined, InFront

-----------------------------------------------------------------------------
(* The refinement.                                                          *)

\* The members of a list all have its owner as their parent.
LEMMA KidsHaveTheirParent ==
    ASSUME NEW par \in [Objs -> Refs], NEW sib \in [Objs -> Refs], NEW ch \in [Objs -> Refs],
           ChildrenKnowTheirParent(par, sib, ch), NEW p \in Objs, NEW x \in Objs,
           x \in KidsOf(ch, sib)[p]
    PROVE  par[x] = p
<1> DEFINE S == {z \in Objs : par[z] = p}
<1> USE Numbers
<1>1. ch[p] # 0 /\ Reaches(sib, ch[p], x)
    BY KidsMembers
<1>2. ch[p] \in S
    BY <1>1 DEF ChildrenKnowTheirParent
<1>3. \A z \in S : sib[z] # 0 => sib[z] \in S
    BY DEF ChildrenKnowTheirParent
<1>4. x \in S
    BY <1>1, <1>2, <1>3, S \in SUBSET Objs DEF Reaches
<1> QED
    BY <1>4

\* The links of a sound table spell out a forest.
LEMMA SoundTableIsForest ==
    ASSUME NEW par \in [Objs -> Refs], NEW sib \in [Objs -> Refs], NEW ch \in [Objs -> Refs],
           ListsAreSound(par, sib, ch)
    PROVE  F!IsForest(KidsOf(ch, sib), BeforeOf(sib))
<1> DEFINE k == KidsOf(ch, sib)
           b == BeforeOf(sib)
<1> USE Numbers
<1>1. /\ k \in [Objs -> SUBSET Objs]
      /\ \A p, x \in Objs : x \in k[p] <=> ch[p] # 0 /\ Reaches(sib, ch[p], x)
    BY KidsMembers
<1>2. /\ b \in SUBSET (Objs \X Objs)
      /\ \A x, y \in Objs : <<x, y>> \in b <=> x # y /\ Reaches(sib, x, y)
    BY BeforePairs
<1>3. \A p, x \in Objs : x \in k[p] => par[x] = p
    BY KidsHaveTheirParent DEF ListsAreSound
<1> HIDE DEF k, b
<1>4. \A p, q \in Objs : p # q => k[p] \cap k[q] = {}
    BY <1>1, <1>3
<1>5. \A x, y \in Objs : <<x, y>> \in b => \E p \in Objs : x \in k[p] /\ y \in k[p]
  <2> SUFFICES ASSUME NEW x \in Objs, NEW y \in Objs, <<x, y>> \in b
               PROVE  \E p \in Objs : x \in k[p] /\ y \in k[p]
      OBVIOUS
  <2>1. x # y /\ Reaches(sib, x, y)
      BY <1>2
  <2>2. sib[x] # 0
      BY <2>1, WalkStep
  <2>3. par[x] \in Objs
      BY <2>2 DEF ListsAreSound, ChildrenKnowTheirParent
  <2>4. ch[par[x]] \in Objs /\ Reaches(sib, ch[par[x]], x)
      BY <2>3, WalkStart
  <2>5. Reaches(sib, ch[par[x]], y)
      BY <2>1, <2>4, ReachesTransitive
  <2> QED
      BY <1>1, <2>3, <2>4, <2>5
<1>6. b \subseteq {e \in Objs \X Objs : \E p \in Objs : {e[1], e[2]} \subseteq k[p]}
  <2> SUFFICES ASSUME NEW e \in b
               PROVE  e \in Objs \X Objs /\ \E p \in Objs : {e[1], e[2]} \subseteq k[p]
      OBVIOUS
  <2>1. e \in Objs \X Objs /\ e = <<e[1], e[2]>> /\ e[1] \in Objs /\ e[2] \in Objs
      BY <1>2
  <2>2. PICK p \in Objs : e[1] \in k[p] /\ e[2] \in k[p]
      BY <1>5, <2>1
  <2> QED
      BY <2>1, <2>2
<1>7. \A p \in Objs : \A x, y \in k[p] : x = y \/ <<x, y>> \in b \/ <<y, x>> \in b
  <2> SUFFICES ASSUME NEW p \in Objs, NEW x \in k[p], NEW y \in k[p], x # y
               PROVE  <<x, y>> \in b \/ <<y, x>> \in b
      OBVIOUS
  <2>1. x \in Objs /\ y \in Objs /\ ch[p] \in Objs
      BY <1>1
  <2>2. Reaches(sib, ch[p], x) /\ Reaches(sib, ch[p], y)
      BY <1>1, <2>1
  <2>3. Reaches(sib, x, y) \/ Reaches(sib, y, x)
      BY <2>1, <2>2, ReachedInOrder
  <2> QED
      BY <1>2, <2>1, <2>3
<1>8. \A x, y \in Objs : ~(<<x, y>> \in b /\ <<y, x>> \in b)
    BY <1>2, ReachedOneWay DEF ListsAreSound
<1>9. \A x, y, z \in Objs : <<x, y>> \in b /\ <<y, z>> \in b => <<x, z>> \in b
  <2> SUFFICES ASSUME NEW x \in Objs, NEW y \in Objs, NEW z \in Objs,
                      <<x, y>> \in b, <<y, z>> \in b
               PROVE  <<x, z>> \in b
      OBVIOUS
  <2>1. Reaches(sib, x, z)
      BY <1>2, ReachesTransitive
  <2>2. x # z
      BY <1>8
  <2> QED
      BY <1>2, <2>1, <2>2
<1>10. F!IsForest(k, b)
    BY <1>1, <1>4, <1>6, <1>7, <1>8, <1>9 DEF F!IsForest
<1> QED
    BY <1>10 DEF k, b

LEMMA ForestBegins == Init => F!Init /\ ForestInv
<1> SUFFICES ASSUME Init PROVE F!Init /\ ForestInv
    OBVIOUS
<1>1. TypeOK /\ ListsAreSound(parent, sibling, child)
    BY Begins DEF Init
<1>2. done.child = child /\ done.sibling = sibling /\ pc = "idle"
    BY DEF Init
<1>3. F!IsForest(KidsOf(child, sibling), BeforeOf(sibling))
    BY <1>1, SoundTableIsForest DEF TypeOK
<1> QED
    BY <1>2, <1>3 DEF F!Init, ForestInv, Init

\* An object without parent, or not yet linked in, is pointed to by nobody.
LEMMA NobodyPoints ==
    ASSUME NEW par \in [Objs -> Refs], NEW sib \in [Objs -> Refs], NEW ch \in [Objs -> Refs],
           NEW o \in Objs, ChildrenKnowTheirParent(par, sib, ch), par[o] = 0
    PROVE  /\ sib[o] = 0
           /\ \A x \in Objs : sib[x] # o
           /\ \A p \in Objs : ch[p] # o
BY Numbers DEF ChildrenKnowTheirParent

\* When obj has been unlinked, the lists are those of before without it.
LEMMA Unlinked ==
    ASSUME TypeOK, pc \in {"unlink", "walk"}, ForestInv, NoCircle(sibling),
           pc' = "clear", UNCHANGED <<obj, done>>,
           sibling' \in [Objs -> Refs], child' \in [Objs -> Refs],
           [sibling' EXCEPT ![obj] = 0] = TakenOut(sibling, obj),
           child' = [p \in Objs |-> IF child[p] = obj THEN sibling[obj] ELSE child[p]]
    PROVE  ForestInv'
<1> USE Numbers
<1>1. obj \in Objs /\ sibling \in [Objs -> Refs] /\ child \in [Objs -> Refs]
    BY DEF TypeOK
<1>2. sibling[obj] # obj
  <2>1. {obj} \in SUBSET Objs /\ {obj} # {}
      BY <1>1
  <2>2. \E x \in {obj} : \A y \in {obj} : sibling[y] # x
      BY <2>1 DEF NoCircle
  <2> QED
      BY <2>2
<1>3. done.child = child /\ done.sibling = sibling
    BY DEF ForestInv
<1>4. Without(sibling)' = TakenOut(sibling, obj)
    BY DEF Without
<1>5. /\ KidsOf(child', TakenOut(sibling, obj))
           = [p \in Objs |-> KidsOf(child, sibling)[p] \ {obj}]
      /\ BeforeOf(TakenOut(sibling, obj)) = F!Apart(obj, BeforeOf(sibling))
  <2>1. /\ KidsOf([p \in Objs |-> IF child[p] = obj THEN sibling[obj] ELSE child[p]],
                  TakenOut(sibling, obj))
             = [p \in Objs |-> KidsOf(child, sibling)[p] \ {obj}]
        /\ BeforeOf(TakenOut(sibling, obj)) = F!Apart(obj, BeforeOf(sibling))
      BY <1>1, <1>2, ListsWithout, Zenon
  <2> QED
      BY <2>1
<1>6. KidsOf(child', Without(sibling)')
           = [p \in Objs |-> KidsOf(done'.child, done'.sibling)[p] \ {obj'}]
    BY <1>3, <1>4, <1>5
<1>7. BeforeOf(Without(sibling)') = F!Apart(obj', BeforeOf(done'.sibling))
    BY <1>3, <1>4, <1>5
<1> QED
    BY <1>6, <1>7 DEF ForestInv

LEMMA ForestUnlink ==
    ASSUME TypeOK, Inv, ForestInv, Unlink
    PROVE  ForestInv' /\ UNCHANGED F!forestVars
<1> USE Numbers
<1>1. /\ obj \in Objs /\ pc = "unlink" /\ UNCHANGED <<parent, sibling, obj, done>>
      /\ saved.parent = parent[obj] /\ saved.sibling = sibling[obj]
      /\ ListsAreSound(parent, sibling, child) /\ NoCircle(sibling)
      /\ parent \in [Objs -> Refs] /\ sibling \in [Objs -> Refs] /\ child \in [Objs -> Refs]
    BY DEF Unlink, TypeOK, Inv, Without, ListsAreSound
<1>2. UNCHANGED F!forestVars
    BY <1>1 DEF F!forestVars
<1>3. CASE parent[obj] = 0
  <2>1. pc' = "clear" /\ child' = child
      BY <1>1, <1>3 DEF Unlink
  <2>2. /\ sibling[obj] = 0
        /\ \A x \in Objs : sibling[x] # obj
        /\ \A p \in Objs : child[p] # obj
      BY <1>1, <1>3, NobodyPoints DEF ListsAreSound
  <2>3. [sibling EXCEPT ![obj] = 0] = TakenOut(sibling, obj)
      BY <1>1, <2>2 DEF TakenOut
  <2>4. child = [p \in Objs |-> IF child[p] = obj THEN sibling[obj] ELSE child[p]]
      BY <1>1, <2>2
  <2> QED
      BY <1>1, <1>2, <2>1, <2>3, <2>4, Unlinked
<1>4. CASE parent[obj] # 0 /\ child[parent[obj]] = obj
  <2>1. pc' = "clear" /\ child' = [child EXCEPT ![parent[obj]] = sibling[obj]]
      BY <1>1, <1>4 DEF Unlink
  <2>2. \A x \in Objs : sibling[x] # obj
      BY <1>1, <1>4 DEF ListsAreSound, ChildrenKnowTheirParent, ListedOnce
  <2>3. \A p \in Objs : child[p] = obj => p = parent[obj]
      BY <1>1 DEF ListsAreSound, ChildrenKnowTheirParent
  <2>4. [sibling EXCEPT ![obj] = 0] = TakenOut(sibling, obj)
      BY <1>1, <2>2 DEF TakenOut
  <2>5. child' = [p \in Objs |-> IF child[p] = obj THEN sibling[obj] ELSE child[p]]
      BY <1>1, <1>4, <2>1, <2>3
  <2>6. child' \in [Objs -> Refs]
      BY <1>1, <2>1
  <2> QED
      BY <1>1, <1>2, <2>1, <2>4, <2>5, <2>6, Unlinked
<1>5. CASE parent[obj] # 0 /\ child[parent[obj]] # obj
  <2>1. pc' = "walk" /\ child' = child
      BY <1>1, <1>5 DEF Unlink
  <2> QED
      BY <1>1, <1>2, <2>1 DEF ForestInv
<1> QED
    BY <1>2, <1>3, <1>4, <1>5

LEMMA ForestWalk ==
    ASSUME TypeOK, Inv, ForestInv, Walk
    PROVE  ForestInv' /\ UNCHANGED F!forestVars
<1> USE Numbers
<1>1. /\ obj \in Objs /\ curr \in Objs /\ curr # obj /\ pc = "walk"
      /\ UNCHANGED <<parent, child, obj, done>>
      /\ saved.sibling = sibling[obj]
      /\ ListsAreSound(parent, sibling, child) /\ NoCircle(sibling)
      /\ parent \in [Objs -> Refs] /\ sibling \in [Objs -> Refs] /\ child \in [Objs -> Refs]
    BY DEF Walk, TypeOK, Inv, Without, ListsAreSound
<1>2. UNCHANGED F!forestVars
    BY <1>1 DEF F!forestVars
<1>3. CASE sibling[curr] # obj
  <2>1. pc' = "walk" /\ sibling' = sibling
      BY <1>1, <1>3 DEF Walk
  <2> QED
      BY <1>1, <1>2, <2>1 DEF ForestInv
<1>4. CASE sibling[curr] = obj
  <2>1. pc' = "clear" /\ sibling' = [sibling EXCEPT ![curr] = sibling[obj]]
      BY <1>1, <1>4 DEF Walk
  <2>2. \A x \in Objs : sibling[x] = obj => x = curr
      BY <1>1, <1>4 DEF ListsAreSound, ListedOnce
  <2>3. \A p \in Objs : child[p] # obj
      BY <1>1, <1>4 DEF ListsAreSound, ChildrenKnowTheirParent, ListedOnce
  <2>4. sibling' \in [Objs -> Refs]
      BY <1>1, <2>1
  <2>5. [sibling' EXCEPT ![obj] = 0] = TakenOut(sibling, obj)
      BY <1>1, <1>4, <2>1, <2>2 DEF TakenOut
  <2>6. child = [p \in Objs |-> IF child[p] = obj THEN sibling[obj] ELSE child[p]]
      BY <1>1, <2>3
  <2> QED
      BY <1>1, <1>2, <2>1, <2>4, <2>5, <2>6, Unlinked
<1> QED
    BY <1>3, <1>4

\* A removal is over, or the object is about to be put elsewhere.
LEMMA ForestClear ==
    ASSUME TypeOK, Inv, ForestInv, Clear
    PROVE  ForestInv' /\ [F!Next]_F!forestVars
<1> USE Numbers
<1>1. /\ obj \in Objs /\ pc = "clear" /\ child' = child
      /\ sibling' = Without(sibling)
    BY DEF Clear, TypeOK, Without
<1>2. /\ KidsOf(child', sibling') = [p \in Objs |-> KidsOf(done.child, done.sibling)[p] \ {obj}]
      /\ BeforeOf(sibling') = F!Apart(obj, BeforeOf(done.sibling))
    BY <1>1 DEF ForestInv
<1>3. CASE dest = 0
  <2>1. pc' = "idle" /\ done' = [child |-> child', sibling |-> sibling']
      BY <1>3 DEF Clear, Return
  <2>2. done'.child = child' /\ done'.sibling = sibling'
      BY <2>1
  <2>3. F!RemoveObj(obj)
      BY <1>2, <2>2 DEF F!RemoveObj
  <2> QED
      BY <1>1, <2>1, <2>3 DEF ForestInv, F!Next
<1>4. CASE dest # 0
  <2>1. pc' = "attach" /\ UNCHANGED <<obj, done>>
      BY <1>4 DEF Clear, Continue
  <2>2. Without(sibling)' = sibling'
      BY <2>1 DEF Without
  <2> QED
      BY <1>2, <2>1, <2>2 DEF ForestInv, F!forestVars
<1> QED
    BY <1>3, <1>4

LEMMA ForestAttach ==
    ASSUME TypeOK, Inv, ForestInv, Attach
    PROVE  ForestInv' /\ F!Next
<1>1. /\ obj \in Objs /\ dest \in Objs /\ pc = "attach" /\ parent[obj] = 0
      /\ ListsAreSound(parent, sibling, child)
      /\ parent \in [Objs -> Refs] /\ sibling \in [Objs -> Refs] /\ child \in [Objs -> Refs]
    BY Numbers DEF Attach, TypeOK, Inv, Without
<1>2. /\ KidsOf(child, sibling) = [p \in Objs |-> KidsOf(done.child, done.sibling)[p] \ {obj}]
      /\ BeforeOf(sibling) = F!Apart(obj, BeforeOf(done.sibling))
    BY <1>1 DEF ForestInv, Without
<1>3. /\ sibling' = [sibling EXCEPT ![obj] = child[dest]]
      /\ child' = [child EXCEPT ![dest] = obj]
      /\ pc' = "idle"
      /\ done' = [child |-> child', sibling |-> sibling']
    BY DEF Attach, Return
<1>4. /\ sibling[obj] = 0
      /\ \A x \in Objs : sibling[x] # obj
      /\ \A p \in Objs : child[p] # obj
    BY <1>1, NobodyPoints DEF ListsAreSound
<1> DEFINE k == KidsOf(done.child, done.sibling)
           b == BeforeOf(done.sibling)
<1>5. /\ KidsOf(child', sibling') = Joined(KidsOf(child, sibling), obj, dest)
      /\ BeforeOf(sibling') = InFront(BeforeOf(sibling), obj, KidsOf(child, sibling)[dest])
  <2>1. /\ KidsOf([child EXCEPT ![dest] = obj], [sibling EXCEPT ![obj] = child[dest]])
             = Joined(KidsOf(child, sibling), obj, dest)
        /\ BeforeOf([sibling EXCEPT ![obj] = child[dest]])
             = InFront(BeforeOf(sibling), obj, KidsOf(child, sibling)[dest])
      BY <1>1, <1>4, ListsWith
  <2> QED
      BY <1>3, <2>1
<1>6. k \in [Objs -> SUBSET Objs]
    BY KidsMembers DEF TypeOK
<1>7. done'.child = child' /\ done'.sibling = sibling'
    BY <1>3
<1>8. /\ KidsOf(done'.child, done'.sibling) = Joined(KidsOf(child, sibling), obj, dest)
      /\ BeforeOf(done'.sibling) = InFront(BeforeOf(sibling), obj, KidsOf(child, sibling)[dest])
    BY <1>5, <1>7
<1> HIDE DEF k, b
<1>9. KidsOf(child, sibling) = [p \in Objs |-> k[p] \ {obj}] /\ BeforeOf(sibling) = F!Apart(obj, b)
    BY <1>2 DEF k, b
<1>10. KidsOf(done'.child, done'.sibling)
         = [p \in Objs |-> IF p = dest THEN k[p] \cup {obj} ELSE k[p] \ {obj}]
    BY <1>6, <1>8, <1>9 DEF Joined
<1>11. BeforeOf(done'.sibling) = F!Apart(obj, b) \cup ({obj} \X (k[dest] \ {obj}))
  <2>1. KidsOf(child, sibling)[dest] \ {obj} = k[dest] \ {obj}
      BY <1>1, <1>9
  <2> QED
      BY <1>8, <1>9, <2>1 DEF InFront
<1>12. F!InsertObj(obj, dest)
    BY <1>10, <1>11 DEF F!InsertObj, k, b
<1>13. ForestInv'
    BY <1>3 DEF ForestInv
<1> QED
    BY <1>1, <1>12, <1>13 DEF F!Next

LEMMA ForestStep == TypeOK /\ Inv /\ ForestInv /\ [Next]_vars => ForestInv' /\ [F!Next]_F!forestVars
<1> SUFFICES ASSUME TypeOK, Inv, ForestInv, [Next]_vars PROVE ForestInv' /\ [F!Next]_F!forestVars
    OBVIOUS
<1>1. ASSUME NEW o \in Objs, NEW d \in Refs, Call(o, d)
      PROVE  ForestInv' /\ UNCHANGED F!forestVars
    BY <1>1 DEF Call, table, ForestInv, F!forestVars
<1>2. CASE Unlink
    BY <1>2, ForestUnlink
<1>3. CASE Walk
    BY <1>3, ForestWalk
<1>4. CASE Clear
    BY <1>4, ForestClear
<1>5. CASE Attach
    BY <1>5, ForestAttach
<1>6. CASE UNCHANGED vars
  <2>1. UNCHANGED <<pc, obj, child, sibling, done>>
      BY <1>6 DEF vars, table
  <2>2. Without(sibling)' = Without(sibling)
      BY <2>1 DEF Without
  <2> QED
      BY <2>1, <2>2 DEF ForestInv, F!forestVars
<1> QED
    BY <1>1, <1>2, <1>3, <1>4, <1>5, <1>6 DEF Next

\* Whatever the story removes and inserts, the links of the object table spell out the
\* ordered lists of children it was promised: each operation of RemoveObject and of
\* INSERT_OBJ is one step of the forest, however many entries it writes on the way.
THEOREM TableImplementsForest == Spec => ImplementsForest
<1>1. Init => F!Init /\ ForestInv
    BY ForestBegins
<1>2. TypeOK /\ Inv /\ ForestInv /\ [Next]_vars => ForestInv' /\ [F!Next]_F!forestVars
    BY ForestStep
<1> QED
    BY <1>1, <1>2, Invariant, PTL DEF Spec, ImplementsForest, F!Spec
===============================================================================

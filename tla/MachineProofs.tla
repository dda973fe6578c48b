---------------------------- MODULE MachineProofs -----------------------------
(****************************************************************************)
(* Proofs about Machine, for every version, width of the tag counter and    *)
(* bound.  The lemmas say what the operations on stacks of frames do to the *)
(* three things the invariant speaks of: that callers wait, where the last  *)
(* frame reads, and which tags there are.                                   *)
(****************************************************************************)
EXTENDS Machine, TLAPS

Stacks == Seq(Frames)

\* No depth of gs has another tag than in fs.
TagsFrom(gs, fs) ==
    /\ Len(gs) <= Len(fs)
    /\ \A i \in 1..Len(gs) : gs[i].framePointer = fs[i].framePointer

-----------------------------------------------------------------------------
(* Sequences.                                                               *)

LEMMA Replaced ==
    ASSUME NEW S, NEW s \in Seq(S), NEW n \in 1..Len(s), NEW e \in S
    PROVE  LET t == [s EXCEPT ![n] = e] IN
           /\ t \in Seq(S) /\ Len(t) = Len(s)
           /\ t[n] = e /\ \A i \in 1..Len(s) : i # n => t[i] = s[i]
OBVIOUS

LEMMA ButLast ==
    ASSUME NEW S, NEW s \in Seq(S), s # <<>>
    PROVE  LET t == SubSeq(s, 1, Len(s) - 1) IN
           /\ t \in Seq(S) /\ Len(t) = Len(s) - 1
           /\ \A i \in 1..(Len(s) - 1) : t[i] = s[i]
<1>1. Len(s) \in Nat /\ Len(s) # 0
    OBVIOUS
<1> DEFINE n == Len(s) - 1
           t == SubSeq(s, 1, n)
<1>2. n \in Nat /\ n <= Len(s)
    BY <1>1
<1> HIDE DEF n
<1>3. t \in Seq(S) /\ Len(t) = n
    BY <1>1, <1>2
<1>4. \A i \in 1..n : t[i] = s[i]
    BY <1>1, <1>2
<1> QED
    BY <1>3, <1>4 DEF n

-----------------------------------------------------------------------------
(* Stacks of frames.                                                        *)

LEMMA Lengths == ASSUME NEW fs \in Stacks PROVE Len(fs) \in Nat /\ (fs # <<>> <=> Len(fs) >= 1)
BY DEF Stacks

LEMMA AtFacts ==
    ASSUME NEW fs \in Stacks, fs # <<>>, CallersWait(fs),
           NEW place \in {"instruction", "result"}
    PROVE  /\ At(fs, place) \in Stacks /\ At(fs, place) # <<>>
           /\ Len(At(fs, place)) = Len(fs)
           /\ CallersWait(At(fs, place))
           /\ At(fs, place)[Len(fs)].at = place
           /\ TagsFrom(At(fs, place), fs)
<1> DEFINE n == Len(fs)
           gs == At(fs, place)
<1>1. n \in Nat /\ n >= 1
    BY Lengths
<1>2. fs[n] \in Frames /\ [fs[n] EXCEPT !.at = place] \in Frames
  <2>1. fs[n] \in Frames
      BY <1>1 DEF Stacks
  <2> QED
      BY <2>1 DEF Frames
<1>3. gs = [fs EXCEPT ![n] = [fs[n] EXCEPT !.at = place]]
    BY DEF At
<1>4. gs \in Stacks /\ Len(gs) = n
    BY <1>1, <1>2, <1>3 DEF Stacks
<1>5. /\ \A i \in 1..n : i # n => gs[i] = fs[i]
      /\ gs[n] = [fs[n] EXCEPT !.at = place]
    BY <1>1, <1>3 DEF Stacks
<1>6. \A i \in 1..n : gs[i].routineType = fs[i].routineType
                    /\ gs[i].framePointer = fs[i].framePointer
    BY <1>2, <1>5 DEF Frames
<1>7. gs[n].at = place
    BY <1>2, <1>5 DEF Frames
<1>8. CallersWait(gs)
    BY <1>1, <1>4, <1>5, <1>6 DEF CallersWait
<1> QED
    BY <1>1, <1>4, <1>6, <1>7, <1>8, Lengths DEF TagsFrom

LEMMA PrefixFacts ==
    ASSUME NEW fs \in Stacks, CallersWait(fs), NEW n \in 1..Len(fs)
    PROVE  /\ SubSeq(fs, 1, n) \in Stacks /\ SubSeq(fs, 1, n) # <<>>
           /\ Len(SubSeq(fs, 1, n)) = n
           /\ \A i \in 1..n : SubSeq(fs, 1, n)[i] = fs[i]
           /\ CallersWait(SubSeq(fs, 1, n))
           /\ TagsFrom(SubSeq(fs, 1, n), fs)
<1> DEFINE gs == SubSeq(fs, 1, n)
<1>1. Len(fs) \in Nat /\ n \in Nat /\ n >= 1 /\ n <= Len(fs)
    BY Lengths
<1>2. gs \in Stacks /\ Len(gs) = n /\ \A i \in 1..n : gs[i] = fs[i]
    BY <1>1 DEF Stacks
<1>3. CallersWait(gs)
    BY <1>1, <1>2 DEF CallersWait
<1> QED
    BY <1>1, <1>2, <1>3, Lengths DEF TagsFrom

LEMMA ReturnedFacts ==
    ASSUME NEW fs \in Stacks, fs # <<>>, CallersWait(fs)
    PROVE  /\ Returned(fs) \in Stacks
           /\ Len(Returned(fs)) = Len(fs) - 1
           /\ CallersWait(Returned(fs))
           /\ Returned(fs) # <<>> => Returned(fs)[Len(Returned(fs))].at = "instruction"
           /\ TagsFrom(Returned(fs), fs)
<1> DEFINE n == Len(fs) - 1
           gs == SubSeq(fs, 1, n)
<1>1. CASE n = 0
    BY <1>1 DEF Returned, Stacks, CallersWait, TagsFrom
<1>2. CASE n # 0
  <2>1. n \in 1..Len(fs)
    <3>1. Len(fs) \in Nat /\ Len(fs) >= 1
        BY Lengths
    <3>2. \A k \in Nat : k >= 1 /\ k - 1 # 0 => k - 1 \in 1..k
        OBVIOUS
    <3> QED
        BY <1>2, <3>1, <3>2
  <2>2. gs \in Stacks /\ Len(gs) = n /\ CallersWait(gs) /\ TagsFrom(gs, fs)
      BY <2>1, PrefixFacts
  <2>3. gs[n] = fs[n] /\ gs[n].at \in {"instruction", "result"}
      BY <2>1, <2>2 DEF Stacks, Frames
  <2>4. fs[n].at = IF fs[n + 1].routineType = "function" THEN "result" ELSE "instruction"
      BY <2>1 DEF CallersWait, Stacks
  <2>5. Returned(fs) = At(gs, "instruction")
    <3>1. CASE fs[n + 1].routineType = "function"
        BY <1>2, <2>2, <3>1 DEF Returned, At
    <3>2. CASE fs[n + 1].routineType # "function"
        BY <1>2, <2>2, <2>3, <2>4, <3>2 DEF Returned, At
    <3> QED
        BY <3>1, <3>2
  <2>6. gs # <<>>
      BY <2>1, PrefixFacts
  <2>7. /\ At(gs, "instruction") \in Stacks /\ Len(At(gs, "instruction")) = n
        /\ CallersWait(At(gs, "instruction"))
        /\ At(gs, "instruction")[n].at = "instruction"
        /\ TagsFrom(At(gs, "instruction"), gs)
    <3> HIDE DEF gs
    <3> QED
        BY <2>2, <2>6, AtFacts
  <2>8. TagsFrom(At(gs, "instruction"), fs)
      BY <2>1, <2>2, <2>7 DEF TagsFrom
  <2> QED
      BY <2>5, <2>7, <2>8
<1> QED
    BY <1>1, <1>2

LEMMA CalledFacts ==
    ASSUME NEW fs \in Stacks, fs # <<>>, CallersWait(fs), NEW type \in RoutineTypes
    PROVE  LET gs == Append(At(fs, IF type = "function" THEN "result" ELSE "instruction"),
                            NewFrame(type))
           IN  /\ gs \in Stacks /\ Len(gs) = Len(fs) + 1
               /\ CallersWait(gs)
               /\ gs[Len(gs)].at = "instruction"
               /\ gs[Len(gs)].framePointer = 0
               /\ \A i \in 1..Len(fs) : gs[i].framePointer = fs[i].framePointer
<1> DEFINE place == IF type = "function" THEN "result" ELSE "instruction"
           hs == At(fs, place)
<1>1. /\ hs \in Stacks /\ Len(hs) = Len(fs) /\ CallersWait(hs)
      /\ hs[Len(fs)].at = place /\ TagsFrom(hs, fs)
    BY AtFacts
<1>2. NewFrame(type) \in Frames /\ NewFrame(type).routineType = type
      /\ NewFrame(type).at = "instruction" /\ NewFrame(type).framePointer = 0
    BY MachineAssumption DEF NewFrame, Frames, RoutineTypes, Tags
<1> HIDE DEF hs
<1> QED
    BY <1>1, <1>2 DEF Stacks, CallersWait, TagsFrom, RoutineTypes, hs

LEMMA AnsweredFacts ==
    ASSUME NEW fs \in Stacks, fs # <<>>, CallersWait(fs), NEW gs \in Answered(fs)
    PROVE  /\ gs \in Stacks
           /\ CallersWait(gs)
           /\ gs # <<>> => gs[Len(gs)].at = "instruction"
           /\ TagsFrom(gs, fs)
<1>1. CASE gs = At(fs, "instruction")
  <2> DEFINE hs == At(fs, "instruction")
  <2>1. /\ hs \in Stacks /\ Len(hs) = Len(fs) /\ CallersWait(hs)
        /\ hs[Len(fs)].at = "instruction" /\ TagsFrom(hs, fs)
      BY AtFacts
  <2> HIDE DEF hs
  <2> QED
      BY <1>1, <2>1 DEF hs
<1>2. CASE gs = Returned(fs)
    BY <1>2, ReturnedFacts
<1> QED
    BY <1>1, <1>2 DEF Answered, Branched

LEMMA CapturedFacts ==
    ASSUME NEW fs \in Stacks, fs # <<>>, CallersWait(fs)
    PROVE  /\ Captured(fs) \in Stacks
           /\ IsSavedState(Captured(fs))
           /\ TagsFrom(Captured(fs), fs)
<1> DEFINE gs == At(fs, "result")
<1>1. /\ gs \in Stacks /\ gs # <<>> /\ Len(gs) = Len(fs) /\ CallersWait(gs)
      /\ gs[Len(fs)].at = "result" /\ TagsFrom(gs, fs)
    BY AtFacts
<1> HIDE DEF gs
<1>2. Captured(fs) = gs
    BY DEF Captured, gs
<1> QED
    BY <1>1, <1>2 DEF IsSavedState

LEMMA SameTags ==
    ASSUME NEW fs \in Stacks, NEW gs \in Stacks, NEW k, TagsFrom(gs, fs), TagsUpTo(fs, k)
    PROVE  TagsUpTo(gs, k)
BY Lengths DEF TagsFrom, TagsAreUniqueIn, TagsUpTo

LEMMA MoreTags ==
    ASSUME NEW fs \in Stacks, NEW k \in Nat, TagsUpTo(fs, k)
    PROVE  TagsUpTo(fs, k + 1)
<1>1. \A i \in 1..Len(fs) : fs[i] \in Frames
    BY DEF Stacks
<1>2. \A i \in 1..Len(fs) : fs[i].framePointer \in Nat
    BY <1>1, MachineAssumption DEF Frames, Tags
<1> QED
    BY <1>2 DEF TagsUpTo

-----------------------------------------------------------------------------
(* The invariant.                                                           *)

\* What a change of frames has to keep: it reads at an instruction, and its
\* tags are those of a stack that was there.
Continues(gs) ==
    /\ gs \in Stacks
    /\ CallersWait(gs)
    /\ gs # <<>> => gs[Len(gs)].at = "instruction"
    /\ \/ TagsFrom(gs, frames)
       \/ TagsFrom(gs, file)
       \/ \E i \in 1..Len(undo) : TagsFrom(gs, undo[i])

\* The file is kept, lost, or holds the state of a save made now.
FileIsGood ==
    /\ file' \in Stacks
    /\ \/ file' \in {file, NoState}
       \/ IsSavedState(file') /\ TagsFrom(file', frames)

\* So are the undo states.
UndoIsGood ==
    /\ undo' \in Seq(Stacks)
    /\ \A i \in 1..Len(undo') :
          \/ i \in 1..Len(undo) /\ undo'[i] = undo[i]
          \/ IsSavedState(undo'[i]) /\ TagsFrom(undo'[i], frames)

SameTagsGiven == UNCHANGED <<version, nextFramePointer, catches, restarts>>

\* Steps that neither tag a frame nor begin a new machine.
LEMMA StepWithoutCatch ==
    ASSUME TypeOK, Inv, Continues(frames'), running' \in BOOLEAN,
           SameTagsGiven, FileIsGood, UndoIsGood
    PROVE  TypeOK' /\ Inv'
<1> USE DEF SameTagsGiven, FileIsGood, UndoIsGood
<1>0. /\ frames \in Stacks /\ file \in Stacks /\ undo \in Seq(Stacks)
      /\ frames' \in Stacks
      /\ \A i \in 1..Len(undo) : undo[i] \in Stacks
      /\ \A i \in 1..Len(undo') : undo'[i] \in Stacks
    BY DEF TypeOK, Stacks, Continues
<1>1. TypeOK'
    BY <1>0 DEF TypeOK, Stacks
<1>2. ExecutesInstructions'
    BY DEF Continues, ExecutesInstructions, Executing
<1>3. SavedStatesAwaitTheirResult'
    BY DEF Inv, SavedStatesAwaitTheirResult
<1>4. TagsCountCatches'
  <2> SUFFICES ASSUME restarts = 0, catches < TagModulus
               PROVE  /\ nextFramePointer = catches
                      /\ TagsUpTo(frames', catches)
                      /\ \A i \in 1..Len(undo') : TagsUpTo(undo'[i], catches)
                      /\ TagsUpTo(file', catches)
      BY DEF TagsCountCatches, TagsUpTo
  <2>1. /\ nextFramePointer = catches
        /\ TagsUpTo(frames, catches)
        /\ \A i \in 1..Len(undo) : TagsUpTo(undo[i], catches)
        /\ TagsUpTo(file, catches)
      BY DEF Inv, TagsCountCatches
  <2>2. TagsUpTo(frames', catches)
      BY <1>0, <2>1, SameTags DEF Continues
  <2>3. ASSUME NEW i \in 1..Len(undo') PROVE TagsUpTo(undo'[i], catches)
      BY <1>0, <2>1, <2>3, SameTags
  <2>4. TagsUpTo(NoState, catches)
      BY DEF TagsUpTo, TagsAreUniqueIn, NoState
  <2>5. TagsUpTo(file', catches)
      BY <1>0, <2>1, <2>4, SameTags
  <2> QED
      BY <2>1, <2>2, <2>3, <2>5
<1> QED
    BY <1>1, <1>2, <1>3, <1>4 DEF Inv

LEMMA Begins == Init => TypeOK /\ Inv
<1> SUFFICES ASSUME Init PROVE TypeOK /\ Inv
    OBVIOUS
<1>1. NewFrame("function") \in Frames /\ NewFrame("function").at = "instruction"
      /\ NewFrame("function").framePointer = 0
    BY MachineAssumption DEF NewFrame, Frames, RoutineTypes, Tags
<1>2. Boot \in Stacks /\ Len(Boot) = 1 /\ Boot[1] = NewFrame("function") /\ <<>> \in Stacks
    BY <1>1 DEF Boot, Stacks
<1>3. TypeOK
    BY <1>2, MachineAssumption DEF Init, TypeOK, Stacks, NoState, Tags
<1>4. ExecutesInstructions
    BY <1>1, <1>2 DEF Init, ExecutesInstructions, CallersWait, Executing
<1>5. SavedStatesAwaitTheirResult
    BY DEF Init, SavedStatesAwaitTheirResult
<1>6. TagsCountCatches
    BY <1>1, <1>2 DEF Init, TagsCountCatches, TagsUpTo, TagsAreUniqueIn, NoState
<1> QED
    BY <1>3, <1>4, <1>5, <1>6 DEF Inv

LEMMA Inductive == TypeOK /\ Inv /\ [Next]_vars => TypeOK' /\ Inv'
<1> SUFFICES ASSUME TypeOK, Inv, [Next]_vars PROVE TypeOK' /\ Inv'
    OBVIOUS
<1>0. /\ frames \in Stacks /\ file \in Stacks /\ undo \in Seq(Stacks)
      /\ Len(undo) \in Nat
      /\ \A i \in 1..Len(undo) : undo[i] \in Stacks
      /\ NoState \in Stacks
      /\ running \in BOOLEAN
    BY DEF TypeOK, Stacks, NoState
<1>a. CallersWait(frames) /\ (Executing => frames # <<>>)
    BY DEF Inv, ExecutesInstructions, Executing
<1>b. /\ \A i \in 1..Len(undo) : IsSavedState(undo[i])
      /\ file # NoState => IsSavedState(file)
    BY DEF Inv, SavedStatesAwaitTheirResult
<1>c. /\ UNCHANGED file => FileIsGood
      /\ UNCHANGED undo => UndoIsGood
  <2>1. UNCHANGED file => FileIsGood
      BY <1>0 DEF FileIsGood
  <2>2. UNCHANGED undo => UndoIsGood
      BY <1>0 DEF UndoIsGood
  <2> QED
      BY <2>1, <2>2
<1>1. ASSUME NEW type \in RoutineTypes, Call(type) PROVE TypeOK' /\ Inv'
  <2>1. /\ frames' \in Stacks /\ Len(frames') = Len(frames) + 1
        /\ CallersWait(frames') /\ frames'[Len(frames')].at = "instruction"
        /\ frames'[Len(frames')].framePointer = 0
        /\ \A i \in 1..Len(frames) : frames'[i].framePointer = frames[i].framePointer
      BY <1>0, <1>a, <1>1, CalledFacts DEF Call
  <2>2. UNCHANGED <<version, running, nextFramePointer, undo, file, catches, restarts>>
      BY <1>1 DEF Call
  <2>3. TypeOK'
      BY <2>1, <2>2 DEF TypeOK, Stacks
  <2>4. ExecutesInstructions' /\ SavedStatesAwaitTheirResult'
      BY <2>1, <2>2 DEF Inv, ExecutesInstructions, SavedStatesAwaitTheirResult
  <2>5. TagsCountCatches'
    <3> SUFFICES ASSUME TagsUpTo(frames, catches) PROVE TagsUpTo(frames', catches)
        BY <2>2 DEF Inv, TagsCountCatches, TagsUpTo
    <3>1. catches \in Nat /\ Len(frames) \in Nat
        BY <1>0, Lengths DEF TypeOK
    <3> QED
        BY <2>1, <3>1 DEF TagsUpTo, TagsAreUniqueIn
  <2> QED
      BY <2>3, <2>4, <2>5 DEF Inv
<1>2. CASE Return
  <2>1. Continues(frames')
      BY <1>0, <1>2, <1>a, ReturnedFacts DEF Return, Continues
  <2>2. SameTagsGiven /\ FileIsGood /\ UndoIsGood /\ running' \in BOOLEAN
      BY <1>2, <1>c DEF Return, SameTagsGiven
  <2> QED
      BY <2>1, <2>2, StepWithoutCatch
<1>3. CASE Catch
  <2> DEFINE n == Len(frames)
  <2>1. n \in Nat /\ n >= 1 /\ frames[n] \in Frames
      BY <1>0, <1>3, Lengths DEF Catch, Executing, Stacks
  <2>2. nextFramePointer' \in Tags
      BY <1>3, MachineAssumption DEF Catch, TypeOK, Tags
  <2>3. [frames[n] EXCEPT !.framePointer = nextFramePointer'] \in Frames
      BY <2>1, <2>2 DEF Frames
  <2>4. frames' = [frames EXCEPT ![n] = [frames[n] EXCEPT !.framePointer = nextFramePointer']]
      BY <1>3 DEF Catch
  <2>5. /\ frames' \in Stacks /\ Len(frames') = n
        /\ \A i \in 1..n : i # n => frames'[i] = frames[i]
        /\ frames'[n] = [frames[n] EXCEPT !.framePointer = nextFramePointer']
    <3>1. n \in 1..Len(frames) /\ frames \in Seq(Frames)
        BY <1>0, <2>1 DEF Stacks
    <3> QED
        BY <2>3, <2>4, <3>1, Replaced DEF Stacks
  <2>6. /\ \A i \in 1..n : frames'[i].at = frames[i].at
                         /\ frames'[i].routineType = frames[i].routineType
        /\ frames'[n].framePointer = nextFramePointer'
      BY <2>1, <2>5 DEF Frames
  <2>7. UNCHANGED <<version, running, undo, file, restarts>> /\ catches' = catches + 1
      BY <1>3 DEF Catch
  <2>8. TypeOK'
      BY <2>2, <2>5, <2>7 DEF TypeOK, Stacks
  <2>9. ExecutesInstructions'
    <3>1. CallersWait(frames')
        BY <1>a, <2>1, <2>5, <2>6 DEF CallersWait
    <3>2. frames'[n].at = "instruction"
        BY <1>3, <2>1, <2>6 DEF Inv, ExecutesInstructions, Catch
    <3> QED
        BY <2>5, <3>1, <3>2 DEF ExecutesInstructions
  <2>10. SavedStatesAwaitTheirResult'
      BY <2>7 DEF Inv, SavedStatesAwaitTheirResult
  <2>11. TagsCountCatches'
    <3> SUFFICES ASSUME restarts = 0, catches + 1 < TagModulus
                 PROVE  TagsCountCatches'
        BY <2>7 DEF TagsCountCatches
    <3>0. catches \in Nat /\ TagModulus \in Nat
        BY MachineAssumption DEF TypeOK
    <3>1. /\ nextFramePointer = catches
          /\ TagsUpTo(frames, catches)
          /\ \A i \in 1..Len(undo) : TagsUpTo(undo[i], catches)
          /\ TagsUpTo(file, catches)
        BY <3>0 DEF Inv, TagsCountCatches
    <3>2. nextFramePointer' = catches + 1
        BY <1>3, <3>0, <3>1 DEF Catch
    <3>3. TagsUpTo(frames', catches + 1)
      <4>1. \A i \in 1..n : i # n => frames'[i].framePointer <= catches
          BY <2>5, <3>1 DEF TagsUpTo
      <4>2. \A i, j \in 1..n : i # n /\ j # n /\ frames'[i].framePointer # 0
                             /\ frames'[i].framePointer = frames'[j].framePointer
                             => i = j
          BY <2>5, <3>1 DEF TagsUpTo, TagsAreUniqueIn
      <4>3. \A i \in 1..n : frames'[i] \in Frames
          BY <2>5 DEF Stacks
      <4>4. \A i \in 1..n : frames'[i].framePointer \in Nat
          BY <4>3, MachineAssumption DEF Frames, Tags
      <4>5. QED
        <5>1. \A i \in 1..n : frames'[i].framePointer <= catches + 1
            BY <2>1, <2>6, <3>0, <3>2, <4>1, <4>4
        <5>2. \A i, j \in 1..n : frames'[i].framePointer # 0
                               /\ frames'[i].framePointer = frames'[j].framePointer => i = j
            BY <2>1, <2>6, <3>0, <3>2, <4>1, <4>2, <4>4
        <5> QED
            BY <2>5, <5>1, <5>2 DEF TagsUpTo, TagsAreUniqueIn
    <3>4. TagsUpTo(file, catches + 1)
        BY <1>0, <3>0, <3>1, MoreTags
    <3>5. \A i \in 1..Len(undo) : TagsUpTo(undo[i], catches + 1)
        BY <1>0, <3>0, <3>1, MoreTags
    <3> QED
        BY <2>7, <3>2, <3>3, <3>4, <3>5 DEF TagsCountCatches
  <2> QED
      BY <2>8, <2>9, <2>10, <2>11 DEF Inv
<1>4. ASSUME NEW tag \in Tags, Throw(tag) PROVE TypeOK' /\ Inv'
  <2>1. CASE Tagged(frames, tag) = {}
    <3>1. Continues(<<>>)
        BY <1>0, <1>a DEF Continues, CallersWait, TagsFrom, Stacks
    <3>2. frames' = <<>> /\ running' = FALSE
        BY <1>4, <2>1 DEF Throw
    <3>3. UNCHANGED <<version, nextFramePointer, undo, file, catches, restarts>>
        BY <1>4 DEF Throw
    <3>4. Continues(frames')
        BY <3>1, <3>2
    <3>5. SameTagsGiven /\ FileIsGood /\ UndoIsGood /\ running' \in BOOLEAN
        BY <1>c, <3>2, <3>3 DEF SameTagsGiven
    <3> QED
        BY <3>4, <3>5, StepWithoutCatch
  <2>2. CASE Tagged(frames, tag) # {}
    <3>1. PICK i \in Tagged(frames, tag) :
              frames' = Returned(SubSeq(frames, 1, i)) /\ running' = (i > 1)
        BY <1>4, <2>2 DEF Throw
    <3>2. i \in 1..Len(frames)
        BY DEF Tagged
    <3> DEFINE gs == SubSeq(frames, 1, i)
    <3>3. gs \in Stacks /\ gs # <<>> /\ CallersWait(gs) /\ TagsFrom(gs, frames) /\ Len(gs) = i
        BY <1>0, <1>a, <3>2, PrefixFacts
    <3> HIDE DEF gs
    <3>4. /\ Returned(gs) \in Stacks /\ CallersWait(Returned(gs))
          /\ Len(Returned(gs)) = Len(gs) - 1
          /\ Returned(gs) # <<>> => Returned(gs)[Len(Returned(gs))].at = "instruction"
          /\ TagsFrom(Returned(gs), gs)
        BY <3>3, ReturnedFacts
    <3>5. TagsFrom(Returned(gs), frames)
        BY <3>2, <3>3, <3>4 DEF TagsFrom
    <3>6. Continues(frames')
        BY <3>1, <3>4, <3>5 DEF Continues, gs
    <3>7. SameTagsGiven /\ FileIsGood /\ UndoIsGood /\ running' \in BOOLEAN
        BY <1>4, <1>c, <3>1 DEF Throw, SameTagsGiven
    <3> QED
        BY <3>6, <3>7, StepWithoutCatch
  <2> QED
      BY <2>1, <2>2
<1>5. CASE SaveUndo
  <2>1. /\ Captured(frames) \in Stacks /\ IsSavedState(Captured(frames))
        /\ TagsFrom(Captured(frames), frames)
      BY <1>0, <1>5, <1>a, CapturedFacts DEF SaveUndo
  <2>2. Continues(frames')
    <3> DEFINE hs == At(frames, "instruction")
    <3>1. /\ hs \in Stacks /\ Len(hs) = Len(frames) /\ CallersWait(hs)
          /\ hs[Len(frames)].at = "instruction" /\ TagsFrom(hs, frames)
        BY <1>0, <1>5, <1>a, AtFacts DEF SaveUndo
    <3> HIDE DEF hs
    <3>2. frames' = hs
        BY <1>5 DEF SaveUndo, hs
    <3> QED
        BY <3>1, <3>2 DEF Continues
  <2>3. /\ undo' \in Seq(Stacks) /\ Len(undo') = Len(undo) + 1
        /\ \A i \in 1..Len(undo) : undo'[i] = undo[i]
        /\ undo'[Len(undo) + 1] = Captured(frames)
      BY <1>0, <1>5, <2>1 DEF SaveUndo
  <2>4. UndoIsGood
      BY <1>0, <2>1, <2>3 DEF UndoIsGood
  <2>5. SameTagsGiven /\ FileIsGood /\ running' \in BOOLEAN
      BY <1>0, <1>5, <1>c DEF SaveUndo, SameTagsGiven
  <2> QED
      BY <2>2, <2>4, <2>5, StepWithoutCatch
<1>6. CASE RestoreUndo
  <2> DEFINE n == Len(undo)
             hs == At(undo[n], "instruction")
  <2>1. n \in 1..Len(undo)
      BY <1>0, <1>6 DEF RestoreUndo
  <2>2. undo[n] \in Stacks /\ undo[n] # <<>> /\ CallersWait(undo[n])
      BY <1>0, <1>b, <2>1 DEF IsSavedState
  <2>3. /\ hs \in Stacks /\ Len(hs) = Len(undo[n]) /\ CallersWait(hs)
        /\ hs[Len(undo[n])].at = "instruction" /\ TagsFrom(hs, undo[n])
      BY <2>2, AtFacts
  <2>4. frames' = hs
      BY <1>6 DEF RestoreUndo
  <2>5. Continues(frames')
    <3> HIDE DEF hs
    <3> QED
        BY <2>1, <2>3, <2>4 DEF Continues
  <2>6. /\ undo' \in Seq(Stacks) /\ Len(undo') = n - 1
        /\ \A i \in 1..(n - 1) : undo'[i] = undo[i]
      BY <1>0, <1>6, ButLast DEF RestoreUndo
  <2>7. UndoIsGood
      BY <1>0, <2>1, <2>6 DEF UndoIsGood
  <2>8. SameTagsGiven /\ FileIsGood /\ running' \in BOOLEAN
      BY <1>0, <1>6, <1>c DEF RestoreUndo, SameTagsGiven
  <2> QED
      BY <2>5, <2>7, <2>8, StepWithoutCatch
<1>7. CASE Save
  <2>1. /\ Captured(frames) \in Stacks /\ IsSavedState(Captured(frames))
        /\ TagsFrom(Captured(frames), frames)
      BY <1>0, <1>7, <1>a, CapturedFacts DEF Save
  <2>2. Continues(frames')
      BY <1>0, <1>7, <1>a, AnsweredFacts DEF Save, Continues
  <2>3. FileIsGood
      BY <1>0, <1>7, <2>1 DEF Save, FileIsGood
  <2>4. SameTagsGiven /\ UndoIsGood /\ running' \in BOOLEAN
      BY <1>0, <1>7, <1>c DEF Save, SameTagsGiven
  <2> QED
      BY <2>2, <2>3, <2>4, StepWithoutCatch
<1>8. CASE Restore
  <2>1. Continues(frames')
    <3>1. CASE file # NoState /\ frames' \in Answered(file)
        BY <1>0, <1>b, <3>1, AnsweredFacts DEF Continues, IsSavedState, NoState
    <3>2. CASE frames' \in Answered(frames)
        BY <1>0, <1>8, <1>a, <3>2, AnsweredFacts DEF Restore, Continues
    <3> QED
        BY <1>8, <3>1, <3>2 DEF Restore
  <2>2. SameTagsGiven /\ FileIsGood /\ UndoIsGood /\ running' \in BOOLEAN
      BY <1>0, <1>8, <1>c DEF Restore, SameTagsGiven
  <2> QED
      BY <2>1, <2>2, StepWithoutCatch
<1>9. CASE Quit
    BY <1>9 DEF Quit, TypeOK, Inv, ExecutesInstructions, Executing,
                SavedStatesAwaitTheirResult, TagsCountCatches, TagsUpTo
<1>10. CASE FetchFails
    BY <1>10 DEF FetchFails, TypeOK, Inv, ExecutesInstructions, Executing,
                 SavedStatesAwaitTheirResult, TagsCountCatches, TagsUpTo
<1>11. CASE LoadRom
  <2>1. NewFrame("function") \in Frames /\ NewFrame("function").at = "instruction"
      BY MachineAssumption DEF NewFrame, Frames, RoutineTypes, Tags
  <2>2. Boot \in Stacks /\ Len(Boot) = 1 /\ Boot[1] = NewFrame("function")
      BY <2>1 DEF Boot, Stacks
  <2>3. TypeOK'
      BY <1>11, <2>2, MachineAssumption DEF LoadRom, TypeOK, Stacks, Tags
  <2>4. ExecutesInstructions'
      BY <1>11, <2>1, <2>2 DEF LoadRom, ExecutesInstructions, CallersWait, Executing
  <2>5. SavedStatesAwaitTheirResult'
      BY <1>11, <1>b DEF LoadRom, SavedStatesAwaitTheirResult
  <2>6. restarts' # 0
      BY <1>11 DEF LoadRom, TypeOK
  <2> QED
      BY <2>3, <2>4, <2>5, <2>6 DEF Inv, TagsCountCatches
<1>12. CASE UNCHANGED vars
    BY <1>12 DEF vars, TypeOK, Inv, ExecutesInstructions, Executing,
                 SavedStatesAwaitTheirResult, TagsCountCatches, TagsUpTo
<1> QED
    BY <1>1, <1>2, <1>3, <1>4, <1>5, <1>6, <1>7, <1>8, <1>9, <1>10, <1>11, <1>12 DEF Next

LEMMA Invariant == Spec => [](TypeOK /\ Inv)
BY Begins, Inductive, PTL DEF Spec

\* Every variable keeps its type.
THEOREM MachineTypeCorrect == Spec => []TypeOK
BY Invariant, PTL

\* However calls, throws, saves and restores are mixed, the program counter is
\* at an instruction whenever one is fetched, and at a store byte in every
\* frame that waits for a function's value.
THEOREM AlwaysExecutesInstructions == Spec => []ExecutesInstructions
<1>1. Inv => ExecutesInstructions
    BY DEF Inv
<1> QED
    BY <1>1, Invariant, PTL

\* Every undo state and every save file is at the result byte of its save.
THEOREM SavedStatesAlwaysAwait == Spec => []SavedStatesAwaitTheirResult
<1>1. Inv => SavedStatesAwaitTheirResult
    BY DEF Inv
<1> QED
    BY <1>1, Invariant, PTL

\* In a first run no two frames share a tag before the counter wraps.
THEOREM FirstRunTagsAreUnique == Spec => []TagsAreUniqueAtFirst
<1>1. Inv => TagsAreUniqueAtFirst
    BY DEF Inv, TagsCountCatches, TagsUpTo, TagsAreUniqueAtFirst, TagsAreUnique
<1> QED
    BY <1>1, Invariant, PTL
===============================================================================

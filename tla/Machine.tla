------------------------------- MODULE Machine --------------------------------
(****************************************************************************)
(* The control side of the Z-machine: the call stack, CATCH and THROW, and  *)
(* the states that SAVE_UNDO, SAVE and their restores put aside and bring   *)
(* back.  A program counter is abstracted to what its frame will read there *)
(* next: an instruction, or the byte that says where the result of the      *)
(* instruction under way goes (a variable number or, before version 5, the  *)
(* branch of SAVE and RESTORE).  Memory and locals are left out: copy()     *)
(* copies them by value and no property here looks at them.                 *)
(*                                                                          *)
(* SAVE and RESTORE are one step each: the interpreter is blocked while the *)
(* user interface works on the file (module Session).                       *)
(****************************************************************************)
EXTENDS Integers, Sequences

CONSTANTS
    Versions,       \* versions of the story
    TagModulus,     \* nextFramePointer counts modulo this, 2^16 in the code
    MaxFrames,      \* bound on the depth of calls
    MaxUndo,        \* bound on the undo states; the code has none
    MaxCatches,     \* bound on the CATCHes of one run of the machine
    MaxRestarts     \* bound on restarts of the machine

ASSUME MachineAssumption ==
    /\ Versions \subseteq 1..8
    /\ TagModulus \in Nat \ {0, 1}
    /\ MaxFrames \in Nat \ {0}
    /\ MaxUndo \in Nat /\ MaxCatches \in Nat /\ MaxRestarts \in Nat

VARIABLES
    version,            \* of the story being played
    running,            \* StepMachine has not returned false
    frames,             \* callStack.frames, the current routine last
    nextFramePointer,   \* tag of the latest CATCH
    undo,               \* UndoStates.saveStates, the latest last
    file,               \* the call stack in the save file; NoState: none, or not readable
    catches,            \* history: CATCHes since the machine was created
    restarts            \* history: machines created after the first

vars == <<version, running, frames, nextFramePointer, undo, file, catches, restarts>>

RoutineTypes == {"function", "procedure"}
Tags == 0..(TagModulus - 1)
Frames == [routineType : RoutineTypes, framePointer : Tags, at : {"instruction", "result"}]

NoState == <<>>

-----------------------------------------------------------------------------
(* Operations on stacks of frames.                                          *)

\* The current frame reads next at place.
At(fs, place) == [fs EXCEPT ![Len(fs)].at = place]

\* retValue: a function's caller reads where to store the value, a procedure's
\* does not.  Returning from the last frame leaves an empty stack and an error.
Returned(fs) ==
    LET n == Len(fs) - 1 IN
    IF n = 0 THEN <<>>
    ELSE [SubSeq(fs, 1, n) EXCEPT ![n].at =
             IF fs[n + 1].routineType = "function" THEN "instruction" ELSE @]

\* handleBranch: falls through or jumps, or the branch returns from the routine.
Branched(fs) == {At(fs, "instruction"), Returned(fs)}

\* captureState, while the instruction that saves is under way.
Captured(fs) == At(fs, "result")

\* Depths at which a frame carries the tag.
Tagged(fs, tag) == {i \in 1..Len(fs) : fs[i].framePointer = tag}

NewFrame(type) == [routineType |-> type, framePointer |-> 0, at |-> "instruction"]

\* LoadRom's call stack; the first frame's routineType is the zero value.
Boot == <<NewFrame("function")>>

-----------------------------------------------------------------------------
(* Instructions.                                                            *)

Executing == running /\ frames # <<>>

\* Faulty variant: the new frame starts as a copy of its caller's, tag included.
Call_CopiesTag(type) ==
    /\ Executing
    /\ type = "procedure" => version >= 5
    /\ Len(frames) < MaxFrames
    /\ frames' = Append(At(frames, IF type = "function" THEN "result" ELSE "instruction"),
                        [frames[Len(frames)] EXCEPT !.routineType = type])
    /\ UNCHANGED <<version, running, nextFramePointer, undo, file, catches, restarts>>

\* A CALL; the store byte of a function call is read when it returns.
Call(type) ==
    /\ Executing
    /\ type = "procedure" => version >= 5
    /\ Len(frames) < MaxFrames
    /\ frames' = Append(At(frames, IF type = "function" THEN "result" ELSE "instruction"),
                        NewFrame(type))
    /\ UNCHANGED <<version, running, nextFramePointer, undo, file, catches, restarts>>

Return ==
    /\ Executing
    /\ frames' = Returned(frames)
    /\ running' = (Len(frames) > 1)
    /\ UNCHANGED <<version, nextFramePointer, undo, file, catches, restarts>>

\* Faulty variant: the counter is not kept to its width.
Catch_NoWrap ==
    /\ Executing /\ version >= 5
    /\ catches < MaxCatches
    /\ nextFramePointer' = nextFramePointer + 1
    /\ frames' = [frames EXCEPT ![Len(frames)].framePointer = nextFramePointer']
    /\ catches' = catches + 1
    /\ UNCHANGED <<version, running, undo, file, restarts>>

Catch ==
    /\ Executing /\ version >= 5
    /\ catches < MaxCatches
    /\ nextFramePointer' = (nextFramePointer + 1) % TagModulus
    /\ frames' = [frames EXCEPT ![Len(frames)].framePointer = nextFramePointer']
    /\ catches' = catches + 1
    /\ UNCHANGED <<version, running, undo, file, restarts>>

\* Frames are popped up to the innermost with the tag, which returns; a tag
\* nobody has pops them all and is an error.
Throw(tag) ==
    /\ Executing /\ version >= 5
    /\ \/ \E i \in Tagged(frames, tag) :
             /\ \A j \in Tagged(frames, tag) : j <= i
             /\ frames' = Returned(SubSeq(frames, 1, i))
             /\ running' = (i > 1)
       \/ /\ Tagged(frames, tag) = {}
          /\ frames' = <<>>
          /\ running' = FALSE
    /\ UNCHANGED <<version, nextFramePointer, undo, file, catches, restarts>>

\* Faulty variant: the state is captured after the result is stored.
SaveUndo_StoresFirst ==
    /\ Executing /\ version >= 5
    /\ Len(undo) < MaxUndo
    /\ undo' = Append(undo, At(frames, "instruction"))
    /\ frames' = At(frames, "instruction")
    /\ UNCHANGED <<version, running, nextFramePointer, file, catches, restarts>>

SaveUndo ==
    /\ Executing /\ version >= 5
    /\ Len(undo) < MaxUndo
    /\ undo' = Append(undo, Captured(frames))
    /\ frames' = At(frames, "instruction")
    /\ UNCHANGED <<version, running, nextFramePointer, file, catches, restarts>>

\* Faulty variant: the result goes to the frame held since before the restore.
RestoreUndo_StaleFrame ==
    /\ Executing /\ version >= 5
    /\ undo # <<>>
    /\ frames' = undo[Len(undo)]
    /\ undo' = SubSeq(undo, 1, Len(undo) - 1)
    /\ UNCHANGED <<version, running, nextFramePointer, file, catches, restarts>>

\* The current frame is looked up again before the result 2 is stored.  With no
\* state to restore 0 is stored and nothing changes.
RestoreUndo ==
    /\ Executing /\ version >= 5
    /\ undo # <<>>
    /\ frames' = At(undo[Len(undo)], "instruction")
    /\ undo' = SubSeq(undo, 1, Len(undo) - 1)
    /\ UNCHANGED <<version, running, nextFramePointer, file, catches, restarts>>

\* What SAVE, RESTORE do with their result: a branch, whose error nobody looks
\* at, before version 5, a store from then on.
Answered(fs) == IF version < 5 THEN Branched(fs) ELSE {At(fs, "instruction")}

\* Faulty variant: the state is exported after the result is taken.
Save_AnswersFirst ==
    /\ Executing
    /\ frames' \in Answered(frames)
    /\ file' \in {At(frames, "instruction"), file, NoState}
    /\ UNCHANGED <<version, running, nextFramePointer, undo, catches, restarts>>

\* A save that fails may have damaged the file.
Save ==
    /\ Executing
    /\ file' \in {Captured(frames), file, NoState}
    /\ frames' \in Answered(frames)
    /\ UNCHANGED <<version, running, nextFramePointer, undo, catches, restarts>>

\* Faulty variant: the result goes to the frame held since before the restore.
Restore_StaleFrame ==
    /\ Executing
    /\ \/ file # NoState /\ frames' = file
       \/ frames' \in Answered(frames)
    /\ UNCHANGED <<version, running, nextFramePointer, undo, catches, restarts, file>>

\* A restore that fails leaves the state alone.
Restore ==
    /\ Executing
    /\ \/ file # NoState /\ frames' \in Answered(file)
       \/ frames' \in Answered(frames)
    /\ UNCHANGED <<version, running, nextFramePointer, undo, file, catches, restarts>>

Quit ==
    /\ Executing
    /\ running' = FALSE
    /\ UNCHANGED <<version, frames, nextFramePointer, undo, file, catches, restarts>>

\* The next instruction cannot be fetched without a frame.
FetchFails ==
    /\ running /\ frames = <<>>
    /\ running' = FALSE
    /\ UNCHANGED <<version, frames, nextFramePointer, undo, file, catches, restarts>>

\* The RESTART instruction, or the story opened another time: LoadRom makes a
\* new machine.  The save file stays.
LoadRom ==
    /\ restarts < MaxRestarts
    /\ restarts' = restarts + 1
    /\ running' = TRUE
    /\ frames' = Boot
    /\ nextFramePointer' = 0
    /\ undo' = <<>>
    /\ catches' = 0
    /\ UNCHANGED <<version, file>>

Init ==
    /\ version \in Versions
    /\ running = TRUE
    /\ frames = Boot
    /\ nextFramePointer = 0
    /\ undo = <<>>
    /\ file = NoState
    /\ catches = 0
    /\ restarts = 0

Next ==
    \/ \E type \in RoutineTypes : Call(type)
    \/ Return
    \/ Catch
    \/ \E tag \in Tags : Throw(tag)
    \/ SaveUndo \/ RestoreUndo
    \/ Save \/ Restore
    \/ Quit \/ FetchFails \/ LoadRom

Spec == Init /\ [][Next]_vars

-----------------------------------------------------------------------------
(* Properties.                                                              *)

\* Every variable keeps its type.
TypeOK ==
    /\ version \in Versions
    /\ running \in BOOLEAN
    /\ frames \in Seq(Frames)
    /\ nextFramePointer \in Tags
    /\ undo \in Seq(Seq(Frames))
    /\ file \in Seq(Frames)
    /\ catches \in Nat /\ restarts \in Nat

\* Below a function waits a frame at its store byte, below a procedure one at
\* its next instruction.
CallersWait(fs) ==
    \A i \in 1..(Len(fs) - 1) :
        fs[i].at = IF fs[i + 1].routineType = "function" THEN "result" ELSE "instruction"

IsSavedState(fs) == fs # <<>> /\ CallersWait(fs) /\ fs[Len(fs)].at = "result"

\* The machine never takes a store or branch byte for an instruction nor the
\* other way round, over calls, throws, saves and restores in any order.
ExecutesInstructions ==
    /\ CallersWait(frames)
    /\ Executing => frames[Len(frames)].at = "instruction"

\* A saved state is at the result byte of the instruction that saved it, so
\* whoever restores it can tell the story so.
SavedStatesAwaitTheirResult ==
    /\ \A i \in 1..Len(undo) : IsSavedState(undo[i])
    /\ file # NoState => IsSavedState(file)

TagsAreUniqueIn(fs) ==
    \A i, j \in 1..Len(fs) :
        fs[i].framePointer = fs[j].framePointer /\ fs[i].framePointer # 0 => i = j

\* "Tag the current frame with a unique frame pointer" (zmachine.go:770): THROW
\* can tell the frames that did a CATCH apart.
TagsAreUnique == TagsAreUniqueIn(frames)

\* In the first run of the story they are unique, undo and restores included,
\* until the 16-bit counter wraps.
TagsAreUniqueAtFirst == restarts = 0 /\ catches < TagModulus => TagsAreUnique

-----------------------------------------------------------------------------
(* The inductive invariant: the tags of a first run, on the stack and in    *)
(* every saved state, are numbers of CATCHes done.                          *)

TagsUpTo(fs, n) ==
    /\ TagsAreUniqueIn(fs)
    /\ \A i \in 1..Len(fs) : fs[i].framePointer <= n

TagsCountCatches ==
    restarts = 0 /\ catches < TagModulus =>
        /\ nextFramePointer = catches
        /\ TagsUpTo(frames, catches)
        /\ \A i \in 1..Len(undo) : TagsUpTo(undo[i], catches)
        /\ TagsUpTo(file, catches)

Inv ==
    /\ ExecutesInstructions
    /\ SavedStatesAwaitTheirResult
    /\ TagsCountCatches
===============================================================================

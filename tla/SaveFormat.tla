------------------------------ MODULE SaveFormat ------------------------------
(****************************************************************************)
(* The save format "GOZM": serialize and deserializeSaveState.  A state is  *)
(* a record of staticMemoryBase, dynamicMemory and frames; a file is a      *)
(* sequence of bytes, with "GOZM" as one of them.  Numbers are written in   *)
(* a fixed count of digits to the base Base, and lose what does not fit.    *)
(****************************************************************************)
EXTENDS Integers, SequencesExt

CONSTANT Base       \* values of a byte, 256 in the code

ASSUME BaseAssumption == Base \in Nat \ {0, 1}

Magic == "GOZM"

\* The values of a byte, of a uint16 and of a uint32.
Square == Base * Base
UInt8 == 0..(Base - 1)
UInt16 == 0..(Square - 1)
UInt32 == 0..(Square * Square - 1)

\* The call stack frames and the states there are.
SavedFrames == [pc : UInt32, framePointer : UInt32, routineType : UInt8, numValuesPassed : UInt16,
                locals : Seq(UInt16), routineStack : Seq(UInt16)]
SavedStates ==
    {s \in [staticMemoryBase : UInt16, dynamicMemory : Seq(UInt8), frames : Seq(SavedFrames)] :
       Len(s.dynamicMemory) = s.staticMemoryBase}

\* Numbers as two or four bytes, and what the bytes from place i on stand for.
TwoBytes(x) == <<(x \div Base) % Base, x % Base>>
FourBytes(x) == TwoBytes(x \div Square) \o TwoBytes(x)
TwoByteNumber(data, i) == Base * data[i] + data[i + 1]
FourByteNumber(data, i) == Square * TwoByteNumber(data, i) + TwoByteNumber(data, i + 2)

BytePairs(values) ==
    [k \in 1..(2 * Len(values)) |-> TwoBytes(values[(k + 1) \div 2])[2 - (k % 2)]]
Numbers(data, i, count) == [k \in 1..count |-> TwoByteNumber(data, i + 2 * (k - 1))]

\* CallStackFrame.serialize.
FrameHead(f) ==
    FourBytes(f.pc) \o FourBytes(f.framePointer) \o <<f.routineType % Base>>
    \o TwoBytes(f.numValuesPassed) \o TwoBytes(Len(f.locals))
FrameBytes(f) ==
    FrameHead(f) \o BytePairs(f.locals)
    \o TwoBytes(Len(f.routineStack)) \o BytePairs(f.routineStack)

\* CallStack.serialize.
FramesBytes(frames) ==
    LET bytes[k \in 0..Len(frames)] ==
            IF k = 0 THEN <<>> ELSE bytes[k - 1] \o FrameBytes(frames[k])
    IN bytes[Len(frames)]

\* SaveState.serialize.
Serialize(state) ==
    <<Magic>> \o TwoBytes(state.staticMemoryBase) \o state.dynamicMemory
    \o TwoBytes(Len(state.frames)) \o FramesBytes(state.frames)

-----------------------------------------------------------------------------
(* deserializeSaveState.                                                    *)

Unreadable == [ok |-> FALSE]

\* deserializeCallStack, for the frame at place i.
ReadFrame(data, i) ==
    LET count == TwoByteNumber(data, i + 11)
        j == i + 13 + 2 * count
        size == TwoByteNumber(data, j)
    IN IF i + 12 > Len(data) \/ j - 1 > Len(data) \/ j + 1 > Len(data)
          \/ j + 1 + 2 * size > Len(data)
       THEN Unreadable
       ELSE [ok |-> TRUE,
             frame |-> [pc |-> FourByteNumber(data, i),
                        framePointer |-> FourByteNumber(data, i + 4),
                        routineType |-> data[i + 8],
                        numValuesPassed |-> TwoByteNumber(data, i + 9),
                        locals |-> Numbers(data, i + 13, count),
                        routineStack |-> Numbers(data, j + 2, size)],
             next |-> j + 2 + 2 * size]

\* deserializeCallStack: what follows the last frame is not looked at.
ReadFrames(data, first, count) ==
    LET read[k \in 0..count] ==
            IF k = 0 THEN [ok |-> TRUE, frames |-> <<>>, next |-> first]
            ELSE IF ~read[k - 1].ok THEN Unreadable
            ELSE LET r == ReadFrame(data, read[k - 1].next)
                 IN IF ~r.ok THEN Unreadable
                    ELSE [ok |-> TRUE, frames |-> Append(read[k - 1].frames, r.frame),
                          next |-> r.next]
    IN read[count]

\* Faulty variant: the frames that can be read are taken.
Deserialize_Lenient(data) ==
    LET base == TwoByteNumber(data, 2)
        count == TwoByteNumber(data, 4 + base)
        lasts == {k \in 0..count : ReadFrames(data, 6 + base, k).ok}
    IN IF Len(data) < 5 \/ data[1] # Magic \/ Len(data) < 5 + base THEN Unreadable
       ELSE [ok |-> TRUE,
             state |-> [staticMemoryBase |-> base, dynamicMemory |-> SubSeq(data, 4, 3 + base),
                        frames |-> ReadFrames(data, 6 + base, Max(lasts)).frames]]

\* A state, or nothing when the file is not one or ends too early.
Deserialize(data) ==
    LET base == TwoByteNumber(data, 2)
        count == TwoByteNumber(data, 4 + base)
        read == ReadFrames(data, 6 + base, count)
    IN IF Len(data) < 5 \/ data[1] # Magic \/ Len(data) < 5 + base THEN Unreadable
       ELSE IF ~read.ok THEN Unreadable
       ELSE [ok |-> TRUE,
             state |-> [staticMemoryBase |-> base, dynamicMemory |-> SubSeq(data, 4, 3 + base),
                        frames |-> read.frames]]
===============================================================================

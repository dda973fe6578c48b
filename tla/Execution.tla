------------------------------ MODULE Execution -------------------------------
(****************************************************************************)
(* What an instruction does to a machine (StepMachine), for those that      *)
(* compute, branch, and use variables, memory and the routine stack.  A     *)
(* machine s is as in module Opcode, op the instruction ParseOpcode found;  *)
(* the operators give the machine after it.                                 *)
(****************************************************************************)
EXTENDS Opcode

Is(op, count, numbers) == op.count = count /\ op.number \in numbers

\* The operands are evaluated once, from the left, before anything else happens.
After(s, op) == Evaluated([s EXCEPT !.pc = op.next], op.operands).s
Arguments(s, op) == Evaluated(s, op.operands).values

\* The result goes to the variable named by the next byte.
Store(s, value) == WriteVariable([s EXCEPT !.pc = @ + 1], s.memory[s.pc], value, FALSE)

-----------------------------------------------------------------------------
(* Arithmetic on words.                                                     *)

Magnitude(n) == IF n < 0 THEN -n ELSE n

BitAnd(a, b) ==
    LET Bit(k) == 2^k * ((a \div 2^k) % 2) * ((b \div 2^k) % 2)
        Four(k) == Bit(k) + Bit(k + 1) + Bit(k + 2) + Bit(k + 3)
    IN Four(0) + Four(4) + Four(8) + Four(12)

\* Faulty variant: division rounds down.
Quotient_RoundsDown(n, d) == IF d < 0 THEN (-n) \div (-d) ELSE n \div d

\* Division truncates toward zero, as Go's does.
Quotient(n, d) ==
    LET q == Magnitude(n) \div Magnitude(d) IN IF (n < 0) = (d < 0) THEN q ELSE -q

LogShift(n, places) == IF places >= 0 THEN n * 2^places ELSE n \div 2^(-places)
ArtShift(n, places) ==
    IF places >= 0 THEN Signed(n) * 2^places ELSE Signed(n) \div 2^(-places)

\* ADD, SUB, MUL, DIV, MOD, OR, AND, LOG_SHIFT and ART_SHIFT.
IsBinary(op) == Is(op, "OP2", {8, 9} \cup (20..24)) \/ Is(op, "EXT", {2, 3})

BinaryResult(op, a, b) ==
    LET n == Signed(a)
        d == Signed(b)
    IN CASE Is(op, "OP2", {8}) -> a + b - BitAnd(a, b)
         [] Is(op, "OP2", {9}) -> BitAnd(a, b)
         [] Is(op, "OP2", {20}) -> a + b
         [] Is(op, "OP2", {21}) -> a - b
         [] Is(op, "OP2", {22}) -> n * d
         [] Is(op, "OP2", {23}) -> Quotient(n, d)
         [] Is(op, "OP2", {24}) -> n - d * Quotient(n, d)
         [] Is(op, "EXT", {2}) -> LogShift(a, d)
         [] Is(op, "EXT", {3}) -> ArtShift(a, d)

\* What has no result: DIV and MOD by zero, which stop the machine with an error, and a
\* shift by -32768, which is its own negation in 16 bits, so that Go panics.
HasValue(op, b) ==
    (Is(op, "OP2", {23, 24}) => b # 0) /\ (Is(op, "EXT", {2, 3}) => b # 32768)

Compute(s, op) ==
    LET v == Arguments(s, op)
        t == After(s, op)
    IN IF HasValue(op, v[2]) THEN Store(t, BinaryResult(op, v[1], v[2]))
       ELSE [t EXCEPT !.halted = TRUE]

\* NOT: three numbers in three tables.
IsNot(s, op) == (Is(op, "OP1", {15}) /\ s.version < 5) \/ Is(op, "VAR", {24})
Complement(s, op) == Store(After(s, op), 65535 - Arguments(s, op)[1])

-----------------------------------------------------------------------------
(* Branches and jumps.                                                      *)

\* VERIFY, PIRACY, JZ, JE, JL, JG and TEST.
IsTest(op) == Is(op, "OP0", {13, 15}) \/ Is(op, "OP1", {0}) \/ Is(op, "OP2", {1, 2, 3, 7})

Passes(op, v) ==
    CASE Is(op, "OP0", {13, 15}) -> TRUE
      [] Is(op, "OP1", {0}) -> v[1] = 0
      [] Is(op, "OP2", {1}) -> \E i \in 2..Len(v) : v[i] = v[1]
      [] Is(op, "OP2", {2}) -> Signed(v[1]) < Signed(v[2])
      [] Is(op, "OP2", {3}) -> Signed(v[1]) > Signed(v[2])
      [] Is(op, "OP2", {7}) -> BitAnd(v[1], v[2]) = v[2]

Test(s, op) == HandleBranch(After(s, op), Passes(op, Arguments(s, op)))

Jump(s, op) ==
    LET t == After(s, op) IN [t EXCEPT !.pc = @ + Signed(Arguments(s, op)[1]) - 2]

-----------------------------------------------------------------------------
(* Instructions that refer to a variable indirectly.                        *)

\* INC_CHK and DEC_CHK evaluate their second operand when they have written.
IsStep(op) == Is(op, "OP1", {5, 6}) \/ Is(op, "OP2", {4, 5})

Step(s, op) ==
    LET by == IF Is(op, "OP1", {5}) \/ Is(op, "OP2", {5}) THEN 1 ELSE -1
        first == [op EXCEPT !.operands = <<Head(@)>>]
        v == Arguments(s, first)[1] % 256
        t == After(s, first)
        new == Word(ReadVariable(t, v) + by)
        written == WriteVariable(t, v, new, TRUE)
        limit == Signed(Value(written, op.operands[2]))
    IN IF op.count = "OP1" THEN written
       ELSE HandleBranch(AfterValue(written, op.operands[2]),
                         IF by = 1 THEN Signed(new) > limit ELSE Signed(new) < limit)

\* STORE.
Assign(s, op) ==
    LET v == Arguments(s, op) IN WriteVariable(After(s, op), v[1] % 256, v[2], TRUE)

\* LOAD.
Load(s, op) ==
    LET t == After(s, op) IN Store(t, ReadVariable(t, Arguments(s, op)[1] % 256))

\* PULL of a story that is not of version 6.
Pull(s, op) ==
    LET t == After(s, op)
    IN WriteVariable(Pop(t), Arguments(s, op)[1] % 256, Peek(t), TRUE)

-----------------------------------------------------------------------------
(* The stack, memory, and calls of no routine.                              *)

PushValue(s, op) == Push(After(s, op), Arguments(s, op)[1])

\* POP, up to version 4.
Discard(s, op) == Pop(After(s, op))

\* LOADW, LOADB, STOREW and STOREB; addresses have 16 bits.
IsAccess(op) == Is(op, "OP2", {15, 16}) \/ Is(op, "VAR", {1, 2})
OfWord(op) == Is(op, "OP2", {15}) \/ Is(op, "VAR", {1})
Address(op, v) == Word(v[1] + IF OfWord(op) THEN 2 * v[2] ELSE v[2])

\* An access to a byte the memory does not have panics.
Access(s, op) ==
    LET v == Arguments(s, op)
        t == After(s, op)
        a == Address(op, v)
    IN CASE a \notin DOMAIN s.memory -> [t EXCEPT !.halted = TRUE]
         [] a \in DOMAIN s.memory /\ Is(op, "OP2", {15}) -> Store(t, ReadHalfWord(s.memory, a))
         [] a \in DOMAIN s.memory /\ Is(op, "OP2", {16}) -> Store(t, s.memory[a])
         [] a \in DOMAIN s.memory /\ Is(op, "VAR", {1}) ->
              [t EXCEPT !.memory = WriteHalfWord(@, a, v[3])]
         [] a \in DOMAIN s.memory /\ Is(op, "VAR", {2}) ->
              [t EXCEPT !.memory = WriteZByte(@, a, v[3])]

\* A call of routine 0 gives 0 to a function's caller; the arguments are not
\* evaluated.  (Calls of routines are module Machine's.)
IsCall(s, op) ==
    \/ Is(op, "VAR", {0, 12, 25, 26}) \/ Is(op, "OP1", {8})
    \/ s.version >= 4 /\ Is(op, "OP2", {25})
    \/ s.version >= 5 /\ (Is(op, "OP2", {26}) \/ Is(op, "OP1", {15}))

CallNothing(s, op) ==
    LET first == [op EXCEPT !.operands = <<Head(@)>>]
        t == After(s, first)
        procedure == Is(op, "VAR", {25, 26}) \/ Is(op, "OP2", {26}) \/ Is(op, "OP1", {15})
    IN IF procedure THEN t ELSE Store(t, 0)

\* CHECK_UNICODE: everything can be printed; of character 0 nothing is said.
CheckUnicode(s, op) ==
    IF Arguments(s, op)[1] = 0 THEN After(s, op) ELSE Store(After(s, op), 3)
===============================================================================

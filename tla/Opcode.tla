-------------------------------- MODULE Opcode --------------------------------
(****************************************************************************)
(* The instruction format (ParseOpcode), operands and variables, and the    *)
(* branch that may follow an instruction.  A machine is a record of         *)
(* version, memory, globals (the address of the global variables), pc,      *)
(* locals, stack (the routine stack of the current frame, its top last) and *)
(* halted.                                                                  *)
(****************************************************************************)
EXTENDS Memory, SequencesExt

-----------------------------------------------------------------------------
(* Variables.                                                               *)

Peek(s) == IF s.stack = <<>> THEN 0 ELSE Last(s.stack)
Pop(s) == IF s.stack = <<>> THEN s ELSE [s EXCEPT !.stack = Front(@)]
Push(s, value) == [s EXCEPT !.stack = Append(@, value)]

\* The address of a global variable, which has 16 bits.
Global(s, v) == Word(s.globals + 2 * (v - 16))

ReadVariable(s, v) ==
    CASE v = 0 -> Peek(s)
      [] v \in 1..15 -> IF v <= Len(s.locals) THEN s.locals[v] ELSE 0
      [] OTHER -> ReadHalfWord(s.memory, Global(s, v))

AfterRead(s, v, indirect) == IF v = 0 /\ ~indirect THEN Pop(s) ELSE s

\* Faulty variant: an indirect reference to the stack pushes.
WriteVariable_AlwaysPushes(s, v, value, indirect) ==
    CASE v = 0 -> Push(s, Word(value))
      [] v \in 1..15 ->
           IF v <= Len(s.locals) THEN [s EXCEPT !.locals[v] = Word(value)] ELSE s
      [] OTHER -> [s EXCEPT !.memory = WriteHalfWord(@, Global(s, v), value)]

\* An indirect reference to the stack works on its top in place.
WriteVariable(s, v, value, indirect) ==
    CASE v = 0 -> Push(IF indirect THEN Pop(s) ELSE s, Word(value))
      [] v \in 1..15 ->
           IF v <= Len(s.locals) THEN [s EXCEPT !.locals[v] = Word(value)] ELSE s
      [] OTHER -> [s EXCEPT !.memory = WriteHalfWord(@, Global(s, v), value)]

-----------------------------------------------------------------------------
(* Operands.  Types: 0 large constant, 1 small constant, 2 variable.        *)

Value(s, operand) == IF operand.type = 2 THEN ReadVariable(s, operand.value) ELSE operand.value
AfterValue(s, operand) == IF operand.type = 2 THEN AfterRead(s, operand.value, FALSE) ELSE s

\* The values of operands evaluated from the left, and the machine afterwards.
Evaluated(s, operands) ==
    LET n == Len(operands)
        after[k \in 0..n] == IF k = 0 THEN s ELSE AfterValue(after[k - 1], operands[k])
    IN [values |-> [k \in 1..n |-> Value(after[k - 1], operands[k])], s |-> after[n]]

-----------------------------------------------------------------------------
(* ParseOpcode.                                                             *)

\* The operands of the given types that follow address a; large constants have two bytes.
Operands(m, a, types) ==
    LET n == Len(types)
        at(k) == a + (k - 1) + Cardinality({i \in 1..(k - 1) : types[i] = 0})
        Operand(k) == [type |-> types[k],
                       value |-> IF types[k] = 0 THEN ReadHalfWord(m, at(k)) ELSE m[at(k)]]
    IN [operands |-> [k \in 1..n |-> Operand(k)], next |-> at(n + 1)]

\* The four types of a type byte; in a list of them, all up to the first omitted.
Types(byte) == <<byte \div 64, (byte \div 16) % 4, (byte \div 4) % 4, byte % 4>>
Given(types) ==
    LET omitted == {i \in DOMAIN types : types[i] = 3}
    IN IF omitted = {} THEN types ELSE SubSeq(types, 1, Min(omitted) - 1)

\* Only these two have a second type byte.
HasEightOperands(count, number) == count = "VAR" /\ number \in {12, 26}

VariableOperands(m, a, count, number) ==
    IF HasEightOperands(count, number)
    THEN Operands(m, a + 2, Given(Types(m[a]) \o Types(m[a + 1])))
    ELSE Operands(m, a + 1, Given(Types(m[a])))

\* The count (the name of its table), number and operands of the instruction at pc,
\* and the address of what follows them.
ParseOpcode(version, m, pc) ==
    LET byte == m[pc]
        Opcode(count, number, parsed) ==
            [count |-> count, number |-> number, operands |-> parsed.operands, next |-> parsed.next]
        Long(bit) == IF (byte \div bit) % 2 = 1 THEN 2 ELSE 1
    IN CASE byte = 190 /\ version >= 5 ->
              Opcode("EXT", m[pc + 1], VariableOperands(m, pc + 2, "EXT", m[pc + 1]))
         [] byte >= 192 ->
              LET count == IF (byte \div 32) % 2 = 0 THEN "OP2" ELSE "VAR"
              IN Opcode(count, byte % 32, VariableOperands(m, pc + 1, count, byte % 32))
         [] byte \in 128..191 /\ ~(byte = 190 /\ version >= 5) ->
              LET type == (byte \div 16) % 4
              IN Opcode(IF type = 3 THEN "OP0" ELSE "OP1", byte % 16,
                        Operands(m, pc + 1, IF type = 3 THEN <<>> ELSE <<type>>))
         [] OTHER ->
              Opcode("OP2", byte % 32, Operands(m, pc + 1, <<Long(64), Long(32)>>))

\* How many operands the instruction may have.  One of variable form with fewer would
\* take zeros for the others, and one with more would ignore the rest.
Takes(op) ==
    CASE op.count = "OP0" -> {0}
      [] op.count = "OP2" -> IF op.number = 1 THEN 2..4 ELSE {2}
      [] op.count = "VAR" /\ op.number \in {0, 25} -> 1..4
      [] op.count = "VAR" /\ op.number \in {12, 26} -> 1..8
      [] op.count = "VAR" /\ op.number \in {1, 2} -> {3}
      [] op.count = "EXT" /\ op.number \in {2, 3} -> {2}
      [] OTHER -> {1}

-----------------------------------------------------------------------------
(* Branches.                                                                *)

\* Faulty variant: the offset of two bytes is not sign-extended.
BranchOffset_Unsigned(m, pc) ==
    IF (m[pc] \div 64) % 2 = 1 THEN m[pc] % 64 ELSE 256 * (m[pc] % 64) + m[pc + 1]

\* One byte of 6 bits, or two with 14 bits and a sign.
BranchOffset(m, pc) ==
    IF (m[pc] \div 64) % 2 = 1 THEN m[pc] % 64
    ELSE LET offset == 256 * (m[pc] % 64) + m[pc + 1]
         IN IF offset >= 8192 THEN offset - 16384 ELSE offset

AfterBranch(m, pc) == pc + IF (m[pc] \div 64) % 2 = 1 THEN 1 ELSE 2

\* handleBranch: the top bit is the outcome that branches; the offsets 0 and 1
\* return from the routine.
HandleBranch(s, result) ==
    LET m == s.memory
        after == AfterBranch(m, s.pc)
        offset == BranchOffset(m, s.pc)
    IN CASE result # (m[s.pc] >= 128) -> [s EXCEPT !.pc = after]
         [] result = (m[s.pc] >= 128) /\ offset \in {0, 1} -> [s EXCEPT !.halted = TRUE]
         [] OTHER -> [s EXCEPT !.pc = after + offset - 2]
===============================================================================

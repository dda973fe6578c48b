----------------------------- MODULE Instructions -----------------------------
(****************************************************************************)
(* The Z-machine at work on the memory of a story: the instructions that    *)
(* compute, read a line, use attributes and properties, tables, output      *)
(* streams and saved states.  A story is a record of its memory and what    *)
(* its program does with it: the kind of program, the header, and the       *)
(* operands its instructions have; what depends on the kind of the program  *)
(* is named with the actions that use it.                                   *)
(*                                                                          *)
(* Each action is one instruction, from its operands to its result.  Calls, *)
(* the screen and the object tree are in modules of their own.  Operands    *)
(* that are variables are evaluated in programs of kind "code"; elsewhere   *)
(* operands are constants.                                                  *)
(****************************************************************************)
EXTENDS TextBuffer, PropertyTable, Ztable, Execution, SaveFormat

CONSTANT Stories    \* the stories; bound is the number of instructions one executes

ASSUME InstructionsAssumption ==
    \A s \in Stories : /\ s.header.version \in 1..5 /\ s.bound \in Nat
                       /\ s.memory \in [DOMAIN s.memory -> Byte] /\ DOMAIN s.memory \subseteq Nat

\* The addresses that a story has and a word can name.
Addressable(s) == DOMAIN s.memory \cap Word16

\* The stacks and locals a program may begin with are of words.  It has its instructions,
\* the longest of which is of LongestInstruction bytes, and its globals in its memory.
LongestInstruction == 20
ASSUME CodeAssumption ==
    \A s \in Stories : s.program = "code" =>
        /\ \A words \in s.stacks \cup s.locals : words \in Seq(Word16)
        /\ s.size \in Nat /\ 0..(s.size + LongestInstruction) \subseteq DOMAIN s.memory
        /\ s.header.globals \in Nat
        /\ (s.header.globals)..(s.header.globals + 479) \subseteq Addressable(s)

\* A story that reads lines has text buffers, of a size and the characters of a line, and
\* parse buffers, of a number of words, that do not reach over the sizes of another or
\* of its dictionary.
TextBytes(s, t) ==
    LET size == s.memory[t]
    IN (t + 1)..(t + size + IF s.header.version >= 5 THEN size + 5 ELSE 2)

ParseBytes(s, p) == (p + 1)..(p + 1 + 4 * s.memory[p])

DictionarySizes(s) ==
    LET dictionary == s.header.dictionary
        n == s.memory[dictionary]
    IN {dictionary, dictionary + 1 + n, dictionary + 2 + n, dictionary + 3 + n}

ASSUME TextAssumption ==
    \A s \in Stories : s.program = "text" =>
        LET texts == {b[1] : b \in s.buffers}
            parses == {b[2] : b \in s.buffers} \ {0}
        IN /\ IsFiniteSet(DOMAIN s.memory)
           /\ DOMAIN s.memory = 0..(Cardinality(DOMAIN s.memory) - 1)
           /\ s.lines \subseteq Lines
           /\ \A t \in texts : {t, t + 1} \subseteq DOMAIN s.memory
           /\ parses \subseteq DOMAIN s.memory
           /\ \A t \in texts : s.header.version >= 5 => s.memory[t + 1] <= s.memory[t] + 2
           /\ \A t \in texts : TextBytes(s, t) \subseteq Addressable(s) \ DictionarySizes(s)
           /\ \A p \in parses : ParseBytes(s, p) \subseteq Addressable(s) \ DictionarySizes(s)
           /\ \A t \in texts : TextBytes(s, t)
                 \cap (texts \cup parses \cup {u + 1 : u \in texts \ {t}}) = {}
           /\ \A p \in parses : ParseBytes(s, p)
                 \cap (texts \cup parses \cup {u + 1 : u \in texts}) = {}

\* A story that opens memory streams gives each a table of its own in memory, with room
\* for the texts it prints, which are of characters of one byte.
Room(s) == s.bound * s.longest
ASSUME StreamsAssumption ==
    \A s \in Stories : s.program = "streams" =>
        /\ s.longest \in Nat /\ Room(s) < 65536
        /\ \A text \in s.texts : text \in Seq(Byte) /\ Len(text) <= s.longest
        /\ \A t \in s.tables : t \in Nat /\ t..(t + 1 + Room(s)) \subseteq DOMAIN s.memory
        /\ \A t, u \in s.tables : t < u => t + 1 + Room(s) < u

\* Each object of a story has an entry, which a word can name, and behind all entries a
\* table of its own in memory, with the properties of its layout one behind the other and
\* a zero at the end.  It begins without attributes.
EntryBytes(h) == IF h.version >= 4 THEN 14 ELSE 9
MaxProperty(h) == IF h.version >= 4 THEN 63 ELSE 31
Properties == [id : 1..63, data : Nat, length : Nat \ {0}, header : {1, 2}]

\* Where the i-th property begins, or the zero behind the last one.
Begins(m, h, o, properties, i) ==
    IF i = 1 THEN FirstProperty(m, h, o) ELSE properties[i - 1].data + properties[i - 1].length

Lists(m, h, o, properties) ==
    LET begins(i) == Begins(m, h, o, properties, i) IN
    /\ \A i \in DOMAIN properties :
         LET p == properties[i] IN
         /\ m[begins(i)] # 0
         /\ GetPropertyByAddress(m, h, begins(i))
              = [id |-> p.id, length |-> p.length, header |-> p.header, address |-> begins(i),
                 dataAddress |-> p.data]
         /\ p.header = 2 => m[p.data - 1] >= 128
         /\ \A j \in DOMAIN properties : properties[j].id = p.id => j = i
    /\ m[begins(Len(properties) + 1)] = 0

ASSUME ObjectsAssumption ==
    \A s \in Stories : s.program = "objects" =>
        LET h == s.header
            Table(o) == PropertyPointer(s.memory, h, o)
            End(o) == Begins(s.memory, h, o, s.layout[o], Len(s.layout[o]) + 1)
            AfterEntry(o) == ObjectBase(h, o) + EntryBytes(h)
        IN /\ h.objects \in Nat /\ DOMAIN s.layout \subseteq Nat \ {0}
           /\ s.values \subseteq Word16 /\ s.attributes \subseteq Nat
           /\ s.ids \subseteq 1..MaxProperty(h)
           /\ \A o \in DOMAIN s.layout :
                /\ s.layout[o] \in Seq(Properties)
                /\ \A a \in {AfterEntry(o), Table(o), End(o)} : 0..a \subseteq DOMAIN s.memory
                /\ AfterEntry(o) \in Word16
                /\ Lists(s.memory, h, o, s.layout[o])
                /\ \A k \in 0..(AttributeBytes(h) - 1) : s.memory[ObjectBase(h, o) + k] = 0
                /\ \A q \in DOMAIN s.layout : AfterEntry(q) <= Table(o)
                /\ \A q \in DOMAIN s.layout \ {o} : End(o) < Table(q) \/ End(q) < Table(o)

\* A story that copies tables, and scans and prints them, gives words as operands (of
\* which COPY_TABLE takes the last with its sign) and names tables that it has, below
\* the end of what a word can address; the fields of a table it scans are not empty,
\* nor is one it prints.
CopyOperands(s, first, second, size) ==
    /\ first \in Word16 /\ second \in Word16 /\ size \in Int /\ size = Signed(Word(size))
    /\ first..(first + Magnitude(size) - 1) \subseteq DOMAIN s.memory
    /\ second = 0 \/ second..(second + Magnitude(size) - 1) \subseteq DOMAIN s.memory
    /\ first + Magnitude(size) \in Word16 /\ second + Magnitude(size) \in Word16

ScanOperands(s, test, table, length, form) ==
    /\ {test, table, length, form} \subseteq Word16 /\ form % 128 # 0
    /\ table..(table + length * (form % 128)) \subseteq Addressable(s)

PrintOperands(s, table, width, height, skip) ==
    /\ {table, width, height, skip} \subseteq Word16 /\ width # 0 /\ height # 0
    /\ table..(table + (height - 1) * (width + skip) + width - 1) \subseteq Addressable(s)

ASSUME TablesAssumption ==
    \A s \in Stories : s.program = "tables" =>
        /\ \A c \in s.copies : CopyOperands(s, c[1], c[2], c[3])
        /\ \A c \in s.scans : ScanOperands(s, c[1], c[2], c[3], c[4])
        /\ \A c \in s.prints : PrintOperands(s, c[1], c[2], c[3], c[4])

\* A story that saves has numbers that fit the types of the code: bytes, uint16, uint32.
ASSUME SavesAssumption ==
    \A s \in Stories : s.program = "save" => \A g \in s.games : g \in SavedStates

VARIABLES
    story,          \* the story being played
    memory,         \* Core.bytes
    pc, stack, locals,  \* of the current frame
    halted,         \* the interpreter has stopped, by an error or a panic
    streams,        \* ZMachine.streams; Memory is set when MemoryStreamData is not empty
    shown,          \* the text sent to the screen
    undo,           \* memories of UndoStates, the latest last
    game, file,     \* a program that saves: its state, and the save file, if there is one
    last,           \* history: the latest instruction, with its operands and result
    promise,        \* history: what the story may rely on, by kind of program
    steps           \* history: number of instructions executed

machineVars == <<memory, pc, stack, locals, halted>>
streamVars == <<streams, shown, undo>>
saveVars == <<game, file>>
vars == <<story, machineVars, streamVars, saveVars, last, promise, steps>>

header == story.header
version == header.version

\* The machine as modules Opcode and Execution see it.
Now == [version |-> version, memory |-> memory, globals |-> header.globals, pc |-> pc,
        locals |-> locals, stack |-> stack, halted |-> halted]

\* The interpreter executes an instruction of a program of this kind.
Instruction(program, name, args, result) ==
    /\ story.program = program
    /\ ~halted
    /\ steps < story.bound
    /\ steps' = steps + 1
    /\ last' = [name |-> name, args |-> args, result |-> result]
    /\ UNCHANGED story

\* The instruction changes nothing but memory.
Writes(m) ==
    /\ memory' = m
    /\ UNCHANGED <<pc, stack, locals, halted, streamVars, saveVars>>

-----------------------------------------------------------------------------
(* Programs of kind "code": the story has its instructions from address 0   *)
(* on; size is the address after the last of them.                          *)

Fetched == ParseOpcode(version, memory, pc)

\* Every instruction of a program has the operands it takes.
Running ==
    /\ story.program = "code" /\ pc \in 0..(story.size - 1)
    /\ Len(Fetched.operands) \in Takes(Fetched)

Executes(s, result) ==
    /\ Instruction("code", Fetched.count, Fetched, result)
    /\ memory' = s.memory /\ pc' = s.pc /\ stack' = s.stack
    /\ locals' = s.locals /\ halted' = s.halted
    /\ UNCHANGED <<streamVars, saveVars, promise>>

NoResult == <<>>

ComputeOp ==
    /\ Running /\ IsBinary(Fetched)
    /\ LET v == Arguments(Now, Fetched)
           t == Compute(Now, Fetched)
       IN Executes(t, IF t.halted THEN v ELSE Append(v, Word(BinaryResult(Fetched, v[1], v[2]))))

NotOp == Running /\ IsNot(Now, Fetched) /\ Executes(Complement(Now, Fetched), NoResult)

\* VERIFY reads the file, as long as the header says it is, and panics if memory is not.
FileIsThere ==
    Is(Fetched, "OP0", {13}) => 64..(FileLength(header) - 1) \subseteq DOMAIN memory

TestOp ==
    /\ Running /\ IsTest(Fetched)
    /\ \/ FileIsThere /\ Executes(Test(Now, Fetched), NoResult)
       \/ ~FileIsThere /\ Executes([After(Now, Fetched) EXCEPT !.halted = TRUE], NoResult)

JumpOp == Running /\ Is(Fetched, "OP1", {12}) /\ Executes(Jump(Now, Fetched), NoResult)
StepOp == Running /\ IsStep(Fetched) /\ Executes(Step(Now, Fetched), NoResult)
StoreOp == Running /\ Is(Fetched, "OP2", {13}) /\ Executes(Assign(Now, Fetched), NoResult)
LoadOp == Running /\ Is(Fetched, "OP1", {14}) /\ Executes(Load(Now, Fetched), NoResult)
PullOp == Running /\ Is(Fetched, "VAR", {9}) /\ Executes(Pull(Now, Fetched), NoResult)
PushOp == Running /\ Is(Fetched, "VAR", {8}) /\ Executes(PushValue(Now, Fetched), NoResult)
NopOp == Running /\ Is(Fetched, "OP0", {4}) /\ Executes(After(Now, Fetched), NoResult)

PopOp ==
    /\ Running /\ Is(Fetched, "OP0", {9}) /\ version <= 4
    /\ Executes(Discard(Now, Fetched), NoResult)

\* A word that is not in memory as a whole is left out: its slice may reach beyond the end,
\* to bytes that Go keeps for the slice, and whether it does is not the program's to say.
AccessOp ==
    /\ Running /\ IsAccess(Fetched)
    /\ LET a == Address(Fetched, Arguments(Now, Fetched))
       IN OfWord(Fetched) => a \in DOMAIN memory /\ a + 1 \in DOMAIN memory
    /\ Executes(Access(Now, Fetched), NoResult)

\* The operand that names the routine is 0.
CallOp ==
    /\ Running /\ IsCall(Now, Fetched) /\ Arguments(Now, Fetched)[1] = 0
    /\ Executes(CallNothing(Now, Fetched), NoResult)

CheckUnicodeOp ==
    /\ Running /\ Is(Fetched, "EXT", {12})
    /\ Executes(CheckUnicode(Now, Fetched), Arguments(Now, Fetched))

-----------------------------------------------------------------------------
(* Programs of kind "text": buffers is a set of pairs of a text and a parse *)
(* buffer, lines what the player may type, dictionaries the addresses of    *)
(* dictionaries, strings the addresses of strings with their texts.         *)

Read(text, parse, line) ==
    LET stored == StoreLine(memory, version, text, line)
    IN /\ Instruction("text", "READ", <<text, parse, line>>,
                      IF version >= 5 THEN memory[text + 1] ELSE 0)
       /\ Writes(IF parse = 0 THEN stored
                 ELSE Tokenise(stored, version, text, parse, header.dictionary,
                               header.dictionary))
       /\ UNCHANGED promise

\* A dictionary with a negative count makes a slice of that length, and panics.
TokeniseOp(text, parse, dictionary) ==
    /\ Instruction("text", "TOKENISE", <<text, parse, dictionary>>, 0)
    /\ IF EntryCount(memory, dictionary) < 0
       THEN halted' = TRUE /\ UNCHANGED memory
       ELSE /\ memory' = Tokenise(memory, version, text, parse, header.dictionary, dictionary)
            /\ UNCHANGED halted
    /\ UNCHANGED <<pc, stack, locals, streamVars, saveVars, promise>>

\* STOREB: from version 5 on a story tells READ how much text the buffer has.
Preload(text, count) ==
    /\ version >= 5
    /\ Instruction("text", "STOREB", <<text, count>>, 0)
    /\ Writes(WriteZByte(memory, text + 1, count))
    /\ UNCHANGED promise

-----------------------------------------------------------------------------
(* appendText and OUTPUT_STREAM.                                            *)

\* The text goes to the open memory stream, or to the screen; the transcript and
\* the command script are not implemented, and panic.
Prints(text) ==
    LET data == streams.MemoryStreamData
        n == Len(data)
    IN IF n > 0
       THEN /\ memory' = WriteSlice(memory, data[n].ptr, [i \in DOMAIN text |-> text[i] % 256])
            /\ streams' = [streams EXCEPT !.MemoryStreamData[n].ptr = @ + Len(text)]
            /\ UNCHANGED <<shown, halted>>
       ELSE /\ shown' = IF streams.Screen THEN shown \o text ELSE shown
            /\ halted' = (streams.Transcript \/ streams.CommandScript)
            /\ UNCHANGED <<memory, streams>>

\* PRINT: the text follows the opcode, and the next instruction follows the text.
LiteralOp ==
    LET end == Cardinality(DOMAIN memory) IN
    /\ Running /\ Is(Fetched, "OP0", {2})
    /\ Instruction("code", Fetched.count, Fetched, NoResult)
    /\ pc' = Fetched.next + DecodedBytes(memory, Fetched.next, end)
    /\ Prints(Decode(memory, header, Fetched.next, end))
    /\ UNCHANGED <<stack, locals, undo, saveVars, promise>>

\* PRINT_ADDR; the other instructions that print a string find its address differently.
PrintAddress(address) ==
    LET text == Decode(memory, header, address, Cardinality(DOMAIN memory))
    IN /\ Instruction("text", "PRINT_ADDR", <<address>>, text)
       /\ Prints(text)
       /\ UNCHANGED <<pc, stack, locals, undo, saveVars, promise>>

\* Programs of kind "streams": texts to print, and the addresses of tables.  No
\* stream is opened to a table that is open already.
PrintText(text) ==
    LET n == Len(promise) IN
    /\ Instruction("streams", "PRINT", <<text>>, 0)
    /\ Prints(text)
    /\ promise' = IF n = 0 THEN promise ELSE [promise EXCEPT ![n].text = @ \o text]
    /\ UNCHANGED <<pc, stack, locals, undo, saveVars>>

\* Faulty variant: the text starts at the table's first word, where its size goes.
OpenMemoryStream_NoSizeWord(table) ==
    /\ Instruction("streams", "OPEN", <<table>>, 0)
    /\ streams' = [streams EXCEPT !.MemoryStreamData =
                       Append(@, [baseAddress |-> table, ptr |-> table])]
    /\ promise' = Append(promise, [table |-> table, text |-> <<>>, kept |-> TRUE])
    /\ UNCHANGED <<machineVars, shown, undo, saveVars>>

\* OUTPUT_STREAM 3.  promise has, for each open stream, the text printed to it.
OpenMemoryStream(table) ==
    /\ Instruction("streams", "OPEN", <<table>>, 0)
    /\ streams' = [streams EXCEPT !.MemoryStreamData =
                       Append(@, [baseAddress |-> table, ptr |-> table + 2])]
    /\ promise' = Append(promise, [table |-> table, text |-> <<>>, kept |-> TRUE])
    /\ UNCHANGED <<machineVars, shown, undo, saveVars>>

\* Faulty variant: the size counts its own word.
CloseMemoryStream_CountsSize ==
    LET data == streams.MemoryStreamData
        n == Len(data)
    IN /\ n > 0
       /\ Instruction("streams", "CLOSE", <<promise[n].table>>, promise[n])
       /\ memory' = WriteHalfWord(memory, data[n].baseAddress,
                                  Word(data[n].ptr - data[n].baseAddress))
       /\ streams' = [streams EXCEPT !.MemoryStreamData = Front(data)]
       /\ promise' = Front(promise)
       /\ UNCHANGED <<pc, stack, locals, halted, shown, undo, saveVars>>

\* OUTPUT_STREAM -3: the size goes to the table's first word.
CloseMemoryStream ==
    LET data == streams.MemoryStreamData
        n == Len(data)
    IN /\ n > 0
       /\ Instruction("streams", "CLOSE", <<promise[n].table>>, promise[n])
       /\ memory' = WriteHalfWord(memory, data[n].baseAddress,
                                  Word(data[n].ptr - data[n].baseAddress - 2))
       /\ streams' = [streams EXCEPT !.MemoryStreamData = Front(data)]
       /\ promise' = Front(promise)
       /\ UNCHANGED <<pc, stack, locals, halted, shown, undo, saveVars>>

\* The other streams; stream is its number, negative to deselect it.
SelectStream(stream) ==
    /\ Instruction("streams", "SELECT", <<stream>>, 0)
    /\ \/ stream \in {1, -1} /\ streams' = [streams EXCEPT !.Screen = stream > 0]
       \/ stream \in {2, -2} /\ streams' = [streams EXCEPT !.Transcript = stream > 0]
       \/ stream \in {4, -4} /\ streams' = [streams EXCEPT !.CommandScript = stream > 0]
    /\ UNCHANGED <<machineVars, shown, undo, saveVars, promise>>

\* SAVE_UNDO and RESTORE_UNDO: the streams are not part of a saved state.
SaveUndo ==
    /\ Instruction("streams", "SAVE_UNDO", <<>>, 1)
    /\ undo' = Append(undo, memory)
    /\ UNCHANGED <<machineVars, streams, shown, saveVars, promise>>

RestoreUndo ==
    /\ undo # <<>>
    /\ Instruction("streams", "RESTORE_UNDO", <<>>, 2)
    /\ memory' = Last(undo)
    /\ undo' = Front(undo)
    /\ promise' = [i \in DOMAIN promise |-> [promise[i] EXCEPT !.kept = FALSE]]
    /\ UNCHANGED <<pc, stack, locals, halted, streams, shown, saveVars>>

-----------------------------------------------------------------------------
(* Programs of kind "objects": objects and their properties, with the       *)
(* layout: for each object, the sequence of its properties, each with id,   *)
(* the address of its data, their length and that of the header before      *)
(* them.  promise has the attributes of each object and the data of each of *)
(* its properties; data nobody vouches for are <<>>.                        *)

Layout == story.layout

\* The data that a PUT_PROP of value promises.
PutData(old, value) ==
    CASE Len(old) = 1 -> <<value % 256>>
      [] Len(old) = 2 -> <<value \div 256, value % 256>>
      [] OTHER -> old

\* A short property with two size bytes is written over the second of them.
PutProp(object, id, value) ==
    LET places == {i \in DOMAIN Layout[object] : Layout[object][i].id = id}
        misplaced == \E i \in places : Layout[object][i].header = 2 /\ Layout[object][i].length <= 2
    IN /\ Instruction("objects", "PUT_PROP", <<object, id, value>>, 0)
       /\ Writes(SetProperty(memory, header, object, id, value))
       /\ promise' = [promise EXCEPT !.data[object] =
                         [i \in DOMAIN @ |-> IF misplaced THEN <<>>
                                             ELSE IF i \in places THEN PutData(@[i], value)
                                             ELSE @[i]]]

ChangeAttribute(object, n, on) ==
    /\ Instruction("objects", IF on THEN "SET_ATTR" ELSE "CLEAR_ATTR", <<object, n>>, 0)
    /\ Writes(SetAttribute(memory, header, object, n, on))
    /\ promise' = [promise EXCEPT !.attributes[object] = IF on THEN @ \cup {n} ELSE @ \ {n}]

-----------------------------------------------------------------------------
(* Programs of kind "tables": copies, scans and prints are the operands of  *)
(* COPY_TABLE, SCAN_TABLE and PRINT_TABLE.                                  *)

CopyOp(first, second, size) ==
    /\ Instruction("tables", "COPY_TABLE", <<first, second, size>>, 0)
    /\ Writes(CopyTable(memory, first, second, size))
    /\ UNCHANGED promise

ScanOp(test, table, length, form) ==
    /\ Instruction("tables", "SCAN_TABLE", <<test, table, length, form>>,
                   ScanTable(memory, test, table, length, form))
    /\ Writes(memory)
    /\ UNCHANGED promise

PrintOp(table, width, height, skip) ==
    LET text == PrintTable(memory, table, width, height, skip)
    IN /\ Instruction("tables", "PRINT_TABLE", <<table, width, height, skip>>, text)
       /\ Prints(text)
       /\ UNCHANGED <<pc, stack, locals, undo, saveVars, promise>>

-----------------------------------------------------------------------------
(* Programs of kind "save": games are the states the story may be in when   *)
(* it saves.  promise is the state that was written to the file.            *)

Play(state) ==
    /\ state # game
    /\ Instruction("save", "PLAY", <<>>, 0)
    /\ game' = state
    /\ UNCHANGED <<machineVars, streamVars, file, promise>>

Export ==
    /\ Instruction("save", "SAVE", <<>>, 1)
    /\ file' = [exists |-> TRUE, data |-> Serialize(game)]
    /\ promise' = game
    /\ UNCHANGED <<machineVars, streamVars, game>>

\* The end of the file is lost: the write stopped at some place after it was truncated.
LoseTail(n) ==
    /\ n < Len(file.data)
    /\ Instruction("save", "TEAR", <<>>, 0)
    /\ file' = [exists |-> TRUE, data |-> SubSeq(file.data, 1, n)]
    /\ UNCHANGED <<machineVars, streamVars, game, promise>>

\* ImportSaveState and applyState: only the size of dynamic memory is compared.
ImportSaveState(data, base) ==
    LET read == Deserialize(data)
    IN IF read.ok /\ read.state.staticMemoryBase = base THEN read ELSE Unreadable

\* RESTORE.  A file without bytes is not imported, but its result is that of success.
Import ==
    LET read == ImportSaveState(file.data, game.staticMemoryBase)
        empty == file.exists /\ file.data = <<>>
    IN /\ Instruction("save", "RESTORE", <<game>>, IF empty \/ read.ok THEN 2 ELSE 0)
       /\ game' = IF read.ok THEN read.state ELSE game
       /\ UNCHANGED <<machineVars, streamVars, file, promise>>

-----------------------------------------------------------------------------
\* A story begins at one of its entries, with one of its stacks and locals, if it has any.
Initially(field, default) == IF field \in DOMAIN story THEN story[field] ELSE {default}

NoGame == [staticMemoryBase |-> 0, dynamicMemory |-> <<>>, frames |-> <<>>]

InitialPromise ==
    CASE story.program = "objects" ->
           [attributes |-> [o \in DOMAIN Layout |-> {}],
            data |-> [o \in DOMAIN Layout |->
                       [i \in DOMAIN Layout[o] |->
                          LET p == Layout[o][i]
                          IN ReadSlice(story.memory, p.data, p.data + p.length)]]]
      [] story.program = "save" -> NoGame
      [] OTHER -> <<>>

Init ==
    /\ story \in Stories
    /\ memory = story.memory
    /\ pc \in Initially("entries", 0)
    /\ stack \in Initially("stacks", <<>>)
    /\ locals \in Initially("locals", <<>>)
    /\ halted = FALSE
    /\ streams = [Screen |-> TRUE, Transcript |-> FALSE, CommandScript |-> FALSE,
                  MemoryStreamData |-> <<>>]
    /\ shown = <<>>
    /\ undo = <<>>
    /\ game \in Initially("games", NoGame)
    /\ file = [exists |-> FALSE, data |-> <<>>]
    /\ last = [name |-> "NONE", args |-> <<>>, result |-> 0]
    /\ promise = InitialPromise
    /\ steps = 0

CodeNext ==
    \/ ComputeOp \/ NotOp \/ TestOp \/ JumpOp \/ StepOp \/ StoreOp \/ LoadOp \/ PullOp \/ PushOp
    \/ AccessOp \/ NopOp \/ PopOp \/ CallOp \/ CheckUnicodeOp \/ LiteralOp

TextNext ==
    /\ story.program = "text"
    /\ \/ \E b \in story.buffers, line \in story.lines : Read(b[1], b[2], line)
       \/ \E b \in story.buffers, d \in story.dictionaries :
            b[2] # 0 /\ TokeniseOp(b[1], b[2], d)
       \/ \E b \in story.buffers, n \in 0..2 : Preload(b[1], n)
       \/ \E a \in DOMAIN story.strings : PrintAddress(a)

StreamsNext ==
    /\ story.program = "streams"
    /\ \/ \E text \in story.texts : PrintText(text)
       \/ \E t \in story.tables \ {promise[i].table : i \in DOMAIN promise} : OpenMemoryStream(t)
       \/ CloseMemoryStream
       \/ \E n \in {1, -1, 2, 4, -4} : SelectStream(n)
       \/ SaveUndo
       \/ RestoreUndo

ObjectsNext ==
    /\ story.program = "objects"
    /\ \E o \in DOMAIN Layout :
         \/ \E id \in story.ids, value \in story.values : PutProp(o, id, value)
         \/ \E n \in story.attributes, on \in BOOLEAN : ChangeAttribute(o, n, on)

TablesNext ==
    /\ story.program = "tables"
    /\ \/ \E c \in story.copies : CopyOp(c[1], c[2], c[3])
       \/ \E c \in story.scans : ScanOp(c[1], c[2], c[3], c[4])
       \/ \E c \in story.prints : PrintOp(c[1], c[2], c[3], c[4])

SaveNext ==
    /\ story.program = "save"
    /\ \/ \E g \in story.games : Play(g)
       \/ Export
       \/ \E n \in 0..story.longest : LoseTail(n)
       \/ Import

Next == CodeNext \/ TextNext \/ StreamsNext \/ ObjectsNext \/ TablesNext \/ SaveNext

Spec == Init /\ [][Next]_vars
===============================================================================

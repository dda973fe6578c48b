------------------------------- MODULE Promises -------------------------------
(****************************************************************************)
(* What the instructions of module Instructions promise the story.  A       *)
(* promise is stated over what the player typed, what was put or printed    *)
(* before, and how the story was assembled, not over the code's own         *)
(* operators; where the code does not keep it for an operand, the comment   *)
(* names the case.                                                          *)
(****************************************************************************)
EXTENDS Instructions

\* The variables keep their types, whatever the instructions do to memory.
TypeOK ==
    /\ story \in Stories
    /\ memory \in [DOMAIN story.memory -> Byte]
    /\ pc \in Int
    /\ stack \in Seq(Word16) /\ locals \in Seq(Word16)
    /\ halted \in BOOLEAN
    /\ \A i \in DOMAIN streams.MemoryStreamData :
         streams.MemoryStreamData[i].ptr >= streams.MemoryStreamData[i].baseAddress + 2
    /\ steps \in 0..story.bound

\* The addresses an instruction may write to.  READ of a version 5 story goes beyond
\* its buffer: by one character, by the zero after it, and by what was there before.
ParseFootprint(parse) == IF parse = 0 THEN {} ELSE (parse + 1)..(parse + 1 + 4 * memory[parse])

TextFootprint(text) ==
    (text + 1)..(text + 2 + memory[text]
                   + IF version >= 5 THEN 1 + memory[text + 1] ELSE 0)

Footprint(name, args) ==
    CASE name = "READ" -> TextFootprint(args[1]) \cup ParseFootprint(args[2])
      [] name = "TOKENISE" -> ParseFootprint(args[2])
      [] name = "STOREB" -> {args[1] + 1}
      [] name = "PUT_PROP" ->
           UNION {LET p == Layout[args[1]][i]
                  IN IF p.header = 2 /\ p.length <= 2 THEN (p.data - 1)..p.data
                     ELSE p.data..(p.data + p.length - 1) :
                  i \in {j \in DOMAIN Layout[args[1]] : Layout[args[1]][j].id = args[2]}}
      [] name \in {"SET_ATTR", "CLEAR_ATTR"} ->
           {ObjectBase(header, args[1]) + k : k \in 0..(AttributeBytes(header) - 1)}
      [] name = "COPY_TABLE" ->
           LET to == IF args[2] = 0 THEN args[1] ELSE args[2]
           IN to..(to + Magnitude(args[3]) - 1)
      [] name = "PRINT" ->
           IF promise = <<>> THEN {}
           ELSE LET start == Last(promise).table + 2 + Len(Last(promise).text)
                IN start..(start + Len(args[1]) - 1)
      [] name = "CLOSE" -> args[1]..(args[1] + 1)
      [] name = "RESTORE_UNDO" -> DOMAIN memory
      [] OTHER -> {}

\* An instruction that fills a table, a buffer or a property writes nowhere else:
\* long lines, many words, long texts and missing properties included.
WritesStayInTheirTable ==
    [][story.program # "code" =>
         \A a \in DOMAIN memory :
            memory'[a] # memory[a] => a \in Footprint(last'.name, last'.args)]_vars

-----------------------------------------------------------------------------
(* Words.                                                                   *)

\* The text a parse buffer is about: the line as it was typed, which the story has in
\* small letters too, or the buffer's.
TypedText ==
    LET line == story.lower[last.args[3]]
    IN SubSeq(line, 1, Min({Len(line), memory[last.args[1]] + 1}))

BufferText ==
    LET text == last.args[1]
    IN IF version >= 5 THEN ReadSlice(memory, text + 2, text + 2 + memory[text + 1])
       ELSE ReadSlice(memory, text + 1, TextEnd(memory, version, text))

\* The words of a text, as first and last place: the separators, and the longest
\* stretches without a separator or space.
WordsOf(text) ==
    LET separators == Separators(memory, header.dictionary)
        Apart(i) == i \notin DOMAIN text \/ text[i] \in separators \cup {Space}
        Between(a, b) == Apart(a - 1) /\ Apart(b + 1) /\ \A i \in a..b : ~Apart(i)
    IN SetToSortSeq({w \in (DOMAIN text) \X (DOMAIN text) :
                       /\ w[1] <= w[2]
                       /\ \/ Between(w[1], w[2])
                          \/ w[1] = w[2] /\ text[w[1]] \in separators},
                    LAMBDA v, w : v[1] < w[1])

\* Long words, which are all letters here, are told apart by their beginnings.
Alike(v, w) ==
    LET n == EncodedLength(version)
    IN v = w \/ (Len(v) >= n /\ Len(w) >= n /\ SubSeq(v, 1, n) = SubSeq(w, 1, n))

Meaning(dictionary, word) ==
    LET known == story.words[dictionary]
        alike == {i \in DOMAIN known : Alike(known[i].text, word)}
    IN IF alike = {} THEN 0 ELSE known[Min(alike)].address

Parsed(text, buffer, dictionary) ==
    LET found == WordsOf(text)
        count == Min({Len(found), memory[buffer]})
        place(i) == found[i][1] + IF version >= 5 THEN 1 ELSE 0
    IN /\ memory[buffer + 1] = count
       /\ \A i \in 1..count :
            LET entry == buffer + 2 + 4 * (i - 1) IN
            /\ ReadHalfWord(memory, entry)
                 = Meaning(dictionary, SubSeq(text, found[i][1], found[i][2]))
            /\ memory[entry + 2] = found[i][2] - found[i][1] + 1
            /\ memory[entry + 3] = place(i)

\* After READ the parse buffer has the words of the line as the player typed it, and
\* after TOKENISE those of the buffer, with their places and the right dictionary
\* entries: through the text buffer, the scan, the encoding and the search.  A
\* version 5 READ after text that was left in the buffer counts only the new
\* characters, and is left out.
WordsAreFound ==
    ~halted =>
      /\ last.name = "READ" /\ last.args[2] # 0 /\ last.result = 0 =>
           Parsed(TypedText, last.args[2], header.dictionary)
      /\ last.name = "TOKENISE" => Parsed(BufferText, last.args[2], last.args[3])

\* A string prints as the text it was made from, through shifts, locks, escapes and
\* abbreviations.  A story of 64 kilobytes or more, whose length in bytes does not
\* fit its 16 bits, may have its abbreviations cut after a word, and is left out.
TextIsWhole ==
    last.name = "PRINT_ADDR" /\ FileLength(header) >= header.length =>
        last.result = story.strings[last.args[1]]

-----------------------------------------------------------------------------
(* Objects.                                                                 *)

Intact(object) == \A i \in DOMAIN promise.data[object] : promise.data[object][i] # <<>>
Intended(data) == IF Len(data) = 1 THEN data[1] ELSE 256 * data[1] + data[2]

\* GET_PROP gives what was last put, or the first word of a longer property, or the
\* default the story came with, whatever was put into the properties around it.
\* (A property of one or two bytes with two size bytes is damaged by PUT_PROP.)
PropertiesAreAsPut ==
    story.program = "objects" =>
      \A o \in DOMAIN Layout : Intact(o) =>
        /\ \A i \in DOMAIN Layout[o] :
             PropertyValue(memory, header, o, Layout[o][i].id) = Intended(promise.data[o][i])
        /\ \A id \in story.ids \ {Layout[o][i].id : i \in DOMAIN Layout[o]} :
             PropertyValue(memory, header, o, id)
               = ReadHalfWord(story.memory, header.objects + 2 * (id - 1))

\* GET_NEXT_PROP, asked again and again from 0 on, lists an object's properties in
\* their order and ends, and GET_PROP_LEN gives the length of each.  (Of an object
\* without a name it finds none.)
PropertiesAreListed ==
    story.program = "objects" =>
      \A o \in DOMAIN Layout :
        LET n == Len(Layout[o])
            Id(i) == IF i \in 1..n THEN Layout[o][i].id ELSE 0
        IN Intact(o) =>
             /\ memory[PropertyPointer(memory, header, o)] # 0 =>
                  GetNextProperty(memory, header, o, 0) = Id(1)
             /\ \A i \in 1..n :
                  /\ GetNextProperty(memory, header, o, Id(i)) = Id(i + 1)
                  /\ GetPropertyLength(memory, header, GetProperty(memory, header, o, Id(i)).dataAddress)
                       = Layout[o][i].length

\* An attribute is set exactly if it was set and not cleared since, on this object
\* and by this number.  (From 64 on every attribute tests as set.)
AttributesAreAsSet ==
    story.program = "objects" =>
      \A o \in DOMAIN Layout : \A n \in 0..(8 * AttributeBytes(header) - 1) :
        TestAttribute(memory, header, o, n) = (n \in promise.attributes[o])

\* Objects keep what was put into them, and their properties can be listed, over any
\* mix of PUT_PROP, SET_ATTR and CLEAR_ATTR on neighbouring objects.
ObjectsKeepWhatWasPut == PropertiesAreAsPut /\ PropertiesAreListed /\ AttributesAreAsSet

-----------------------------------------------------------------------------
(* Tables and streams.                                                      *)

\* COPY_TABLE leaves in the second table what the first one held, also if they
\* overlap, either way; a negative size repeats the beginning of the first table
\* when the second starts within it.
CopyIsAsTold ==
    last'.name = "COPY_TABLE" =>
      LET first == last'.args[1]
          second == last'.args[2]
          size == last'.args[3]
          distance == second - first
          period == IF size < 0 /\ distance \in 1..(-size) THEN distance ELSE Magnitude(size)
      IN \A i \in 0..(Magnitude(size) - 1) :
           IF second = 0 THEN memory'[first + i] = 0
           ELSE memory'[second + i] = memory[first + (i % period)]

\* Cut into lines, the text of a PRINT_TABLE is the rows of the table; SCAN_TABLE
\* finds the first field that holds the value.  (The first byte of a table limits
\* what PRINT_TABLE prints: one with more characters than that is cut.)
TablesAreReadAsTold ==
    /\ last.name = "PRINT_TABLE" /\ last.args[2] * last.args[3] <= memory[last.args[1]] =>
         LET width == last.args[2]
             Start(row) == last.args[1] + row * (width + last.args[4])
         IN \A row \in 0..(last.args[3] - 1) :
              /\ SubSeq(last.result, row * (width + 1) + 1, row * (width + 1) + width)
                   = ReadSlice(memory, Start(row), Start(row) + width)
              /\ row > 0 => last.result[row * (width + 1)] = 10
    /\ last.name = "SCAN_TABLE" =>
         LET Field(i) == last.args[2] + i * (last.args[4] % 128)
             ofWord == last.args[4] % 256 >= 128
             Holds(i) == last.args[1] = IF ofWord THEN ReadHalfWord(memory, Field(i))
                                        ELSE memory[Field(i)]
             n == last.args[3]
         IN \/ \E i \in 0..(n - 1) : /\ last.result = Field(i) /\ Holds(i)
                                     /\ \A j \in 0..(i - 1) : ~Holds(j)
            \/ last.result = 0 /\ \A i \in 0..(n - 1) : ~Holds(i)

\* Tables are copied, printed and scanned as the story asks (module Ztable).
TablesAreAsTold == [][CopyIsAsTold /\ TablesAreReadAsTold']_vars

\* When a memory stream is closed its table has the size and the text of all that
\* was printed while it was the latest, streams opened and closed over it included.
\* (After a RESTORE_UNDO in between the table is the old one, the stream is not.)
TablesHoldTheirText ==
    last.name = "CLOSE" /\ last.result.kept =>
        LET table == last.args[1]
            text == last.result.text
        IN /\ ReadHalfWord(memory, table) = Len(text)
           /\ ReadSlice(memory, table + 2, table + 2 + Len(text)) = text

-----------------------------------------------------------------------------
(* Code.                                                                    *)

\* Where the instruction that starts here may lead: to the next one, and to its
\* target; targets maps the instructions that jump or branch to one.
Successors(a) ==
    LET i == CHOOSE j \in DOMAIN story.starts : story.starts[j] = a
    IN {IF i = Len(story.starts) THEN story.size ELSE story.starts[i + 1]}
       \cup (IF i \in DOMAIN story.targets THEN {story.targets[i]} ELSE {})

Said(op) == ~(Is(op, "EXT", {12}) /\ last'.result = <<0>>)

\* The interpreter executes the instructions the story was assembled from, and never
\* the bytes between them: over operand types, stores, short and long branches and
\* jumps.  (CHECK_UNICODE of character 0 leaves its store byte to be executed.)
FollowsTheProgram ==
    [][story.program = "code" /\ pc \in ToSet(story.starts) /\ pc < story.size =>
         halted' \/ pc' \in Successors(pc) \/ ~Said(last'.args)]_vars

HasResult(op) ==
    \/ Is(op, "OP1", {8, 14}) \/ (version < 5 /\ Is(op, "OP1", {15}))
    \/ Is(op, "OP2", {8, 9} \cup (15..25))
    \/ Is(op, "VAR", {0, 12, 24}) \/ Is(op, "EXT", {2, 3, 12})

StackOperands(operands) ==
    Cardinality({i \in DOMAIN operands : operands[i].type = 2 /\ operands[i].value = 0})

BalancesTheStack ==
    LET op == last'.args
        taken == StackOperands(op.operands)
                   + IF Is(op, "VAR", {9}) \/ Is(op, "OP0", {9}) THEN 1 ELSE 0
        given == IF Is(op, "VAR", {8}) \/ (HasResult(op) /\ memory[op.next] = 0) THEN 1 ELSE 0
        left == Len(stack) - taken
    IN /\ story.program = "code" /\ ~halted' /\ left >= 1 /\ Said(op)
       /\ IsCall(Now, op) => StackOperands(Tail(op.operands)) = 0
       => /\ Len(stack') = left + given
          /\ SubSeq(stack', 1, left - 1) = SubSeq(stack, 1, left - 1)

\* Every instruction takes from the stack one value for each operand that asks for
\* it, pushes its result if the stack is its destination, and works on the top in
\* place when it refers to the stack indirectly; what lies below stays.  (A call of
\* routine 0 leaves its arguments on the stack.)
StackIsBalanced == [][BalancesTheStack]_vars

\* Results are exact modulo 2^16; quotients truncate, remainders take the sign of
\* the dividend, shifts to the right lose the bits below, and each of the sixteen bits
\* of an OR or an AND is that of the operands' bits.
IsSet(w, k) == (w \div 2^k) % 2 = 1

Exact(op, a, b, r) ==
    LET n == Signed(a)
        d == Signed(b)
        q == Signed(r)
        Near(x) == /\ Magnitude(x) < Magnitude(d)
                   /\ x # 0 => (x < 0) = (n < 0)
        Within(x, y) == x * 2^(-d) <= y /\ y < (x + 1) * 2^(-d)
    IN /\ r \in Word16
       /\ Is(op, "OP2", {20}) => r = Word(a + b)
       /\ Is(op, "OP2", {21}) => a = Word(r + b)
       /\ Is(op, "OP2", {22}) => r = Word(n * d)
       /\ Is(op, "OP2", {23}) => Near(n - q * d) \/ (n = -32768 /\ d = -1 /\ q = n)
       /\ Is(op, "OP2", {24}) => Near(q) /\ (n - q) % Magnitude(d) = 0
       /\ Is(op, "EXT", {2, 3}) /\ d >= 0 => r = Word(a * 2^d)
       /\ Is(op, "EXT", {2}) /\ d < 0 => Within(r, a)
       /\ Is(op, "EXT", {3}) /\ d < 0 => Within(q, n)
       /\ Is(op, "OP2", {8}) => \A k \in 0..15 : IsSet(r, k) <=> IsSet(a, k) \/ IsSet(b, k)
       /\ Is(op, "OP2", {9}) => \A k \in 0..15 : IsSet(r, k) <=> IsSet(a, k) /\ IsSet(b, k)

ArithmeticIsExact ==
    LET args == last.args
        r == last.result
    IN story.program = "code" /\ last.name \in {"OP2", "EXT"} /\ IsBinary(args) /\ ~halted =>
         Exact(args, r[1], r[2], r[3])

-----------------------------------------------------------------------------
(* Saves.                                                                   *)

CountsFit(g) ==
    /\ Len(g.frames) < Square
    /\ \A i \in DOMAIN g.frames : /\ Len(g.frames[i].locals) < Square
                                  /\ Len(g.frames[i].routineStack) < Square

\* A RESTORE that succeeds brings back exactly the state that was saved, and one of a
\* whole save with the same dynamic memory size does succeed; a file that is not there
\* or lost its end is refused, and the game goes on as it was.  (Counts that do not fit
\* their two bytes come back smaller.  Of a file that lost all its bytes RESTORE tells
\* success, but it changes nothing.)
OnlyWholeSavesAreRead ==
    story.program = "save" /\ last.name = "RESTORE" /\ CountsFit(promise) =>
        LET before == last.args[1]
        IN /\ last.result = 2 =>
                /\ file.exists
                /\ game = IF file.data = <<>> THEN before ELSE promise
           /\ last.result = 0 =>
                /\ game = before
                /\ \/ file.data # Serialize(promise)
                   \/ game.staticMemoryBase # promise.staticMemoryBase
===============================================================================

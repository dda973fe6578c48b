------------------------- MODULE InstructionsProofs -------------------------
(****************************************************************************)
(* Proofs about Instructions: memory streams, for any story that gives its  *)
(* streams tables of their own; COPY_TABLE, SCAN_TABLE and PRINT_TABLE, for *)
(* any tables in memory; files of saves, for any states; the stack and what *)
(* is computed, for any program; properties and attributes, for any layout  *)
(* of objects; and where each of these and READ and TOKENISE write.  What   *)
(* recursive functions compute is proved over the least number at which it  *)
(* would differ.                                                            *)
(****************************************************************************)
EXTENDS Promises, SaveFormatProofs, FiniteSetTheorems

-----------------------------------------------------------------------------
(* The inductive invariant: every open stream is where its text ends, and   *)
(* the text is in its table.                                                *)

Image == [DOMAIN story.memory -> Byte]
Pointers == [baseAddress : Nat, ptr : Nat]
Streams == [Screen : BOOLEAN, Transcript : BOOLEAN, CommandScript : BOOLEAN,
            MemoryStreamData : Seq(Pointers)]
Texts == [table : story.tables, text : Seq(Byte), kept : BOOLEAN]

\* The table has the text, unless an older memory came back in between.
Holds(m, p) == p.kept => \A k \in 1..Len(p.text) : m[p.table + 1 + k] = p.text[k]

StreamsHold ==
    /\ memory \in Image /\ undo \in Seq(Image)
    /\ streams \in Streams /\ promise \in Seq(Texts)
    /\ Len(streams.MemoryStreamData) = Len(promise)
    /\ \A i \in 1..Len(promise) :
         /\ streams.MemoryStreamData[i].baseAddress = promise[i].table
         /\ streams.MemoryStreamData[i].ptr = promise[i].table + 2 + Len(promise[i].text)
         /\ Len(promise[i].text) <= steps * story.longest
         /\ Holds(memory, promise[i])
    /\ \A i, j \in 1..Len(promise) : i # j => promise[i].table # promise[j].table

StreamsInv == story.program = "streams" => StreamsHold

StepsInv == story \in Stories /\ steps \in 0..story.bound

-----------------------------------------------------------------------------
(* Steps.                                                                   *)

\* What every instruction of a program of this kind does to the histories.
Counted(program) ==
    /\ story.program = program
    /\ steps < story.bound /\ steps' = steps + 1
    /\ story' = story

TableNames == {"COPY_TABLE", "SCAN_TABLE", "PRINT_TABLE"}
TellsNothing == last'.name \notin {"CLOSE"} \cup TableNames

LEMMA Counts ==
    ASSUME NEW program, NEW name, NEW args, NEW result, Instruction(program, name, args, result)
    PROVE  Counted(program) /\ last' = [name |-> name, args |-> args, result |-> result]
BY DEF Instruction, Counted

LEMMA CountNames ==
    ASSUME NEW v, NEW m, NEW p
    PROVE  ParseOpcode(v, m, p).count \in {"EXT", "VAR", "OP2", "OP1", "OP0"}
BY DEF ParseOpcode

LEMMA CodeStep == CodeNext => Counted("code") /\ TellsNothing
<1> SUFFICES ASSUME CodeNext PROVE Counted("code") /\ TellsNothing
    OBVIOUS
<1>1. ASSUME NEW s, NEW result, Executes(s, result) PROVE Counted("code") /\ TellsNothing
  <2>1. Instruction("code", Fetched.count, Fetched, result)
      BY <1>1 DEF Executes
  <2>2. Fetched.count \in {"EXT", "VAR", "OP2", "OP1", "OP0"}
      BY CountNames DEF Fetched
  <2> QED
      BY <2>1, <2>2, Counts DEF TellsNothing, TableNames
<1>2. CASE LiteralOp
  <2>1. Instruction("code", Fetched.count, Fetched, NoResult)
      BY <1>2 DEF LiteralOp
  <2>2. Fetched.count \in {"EXT", "VAR", "OP2", "OP1", "OP0"}
      BY CountNames DEF Fetched
  <2> QED
      BY <2>1, <2>2, Counts DEF TellsNothing, TableNames
<1>3. CASE ~LiteralOp
  <2>1. \E s, result : Executes(s, result)
    <3>1. CASE ComputeOp
        BY <3>1 DEF ComputeOp
    <3>2. CASE \/ NotOp \/ TestOp \/ JumpOp \/ StepOp \/ StoreOp \/ LoadOp \/ PullOp \/ PushOp
               \/ AccessOp \/ NopOp
        BY <3>2 DEF NotOp, TestOp, JumpOp, StepOp, StoreOp, LoadOp, PullOp, PushOp, AccessOp, NopOp
    <3>3. CASE PopOp \/ CallOp \/ CheckUnicodeOp
        BY <3>3 DEF PopOp, CallOp, CheckUnicodeOp
    <3> QED
        BY <1>3, <3>1, <3>2, <3>3 DEF CodeNext
  <2> QED
      BY <1>1, <2>1
<1> QED
    BY <1>2, <1>3

LEMMA TextStep == TextNext => Counted("text") /\ TellsNothing
<1> DEFINE Told == Counted("text") /\ TellsNothing
<1>1. ASSUME NEW text, NEW parse, NEW line, Read(text, parse, line) PROVE Told
    BY <1>1, Counts DEF Read, TellsNothing, TableNames
<1>2. ASSUME NEW text, NEW parse, NEW d, TokeniseOp(text, parse, d) PROVE Told
    BY <1>2, Counts DEF TokeniseOp, TellsNothing, TableNames
<1>3. ASSUME NEW text, NEW n, Preload(text, n) PROVE Told
    BY <1>3, Counts DEF Preload, TellsNothing, TableNames
<1>4. ASSUME NEW a, PrintAddress(a) PROVE Told
    BY <1>4, Counts DEF PrintAddress, TellsNothing, TableNames
<1> HIDE DEF Told
<1>5. TextNext => Told
    BY <1>1, <1>2, <1>3, <1>4 DEF TextNext
<1> QED
    BY <1>5 DEF Told

LEMMA ObjectsStep == ObjectsNext => Counted("objects") /\ TellsNothing
<1> DEFINE Told == Counted("objects") /\ TellsNothing
<1>1. ASSUME NEW o, NEW id, NEW value, PutProp(o, id, value) PROVE Told
    BY <1>1, Counts DEF PutProp, TellsNothing, TableNames
<1>2. ASSUME NEW o, NEW n, NEW on, ChangeAttribute(o, n, on) PROVE Told
    BY <1>2, Counts DEF ChangeAttribute, TellsNothing, TableNames
<1> HIDE DEF Told
<1>3. ObjectsNext => Told
    BY <1>1, <1>2 DEF ObjectsNext
<1> QED
    BY <1>3 DEF Told

LEMMA TablesStep == TablesNext => Counted("tables") /\ last'.name # "CLOSE"
<1> DEFINE Told == Counted("tables") /\ last'.name # "CLOSE"
<1>1. ASSUME NEW first, NEW second, NEW size, CopyOp(first, second, size) PROVE Told
    BY <1>1, Counts DEF CopyOp
<1>2. ASSUME NEW test, NEW table, NEW n, NEW form, ScanOp(test, table, n, form) PROVE Told
    BY <1>2, Counts DEF ScanOp
<1>3. ASSUME NEW table, NEW width, NEW height, NEW skip, PrintOp(table, width, height, skip)
      PROVE  Told
    BY <1>3, Counts DEF PrintOp
<1> HIDE DEF Told
<1>4. TablesNext => Told
    BY <1>1, <1>2, <1>3 DEF TablesNext
<1> QED
    BY <1>4 DEF Told

LEMMA SaveStep == SaveNext => Counted("save") /\ TellsNothing
BY Counts DEF SaveNext, Play, Export, LoseTail, Import, TellsNothing, TableNames

LEMMA StreamsStep == StreamsNext => Counted("streams") /\ last'.name \notin TableNames
<1> DEFINE Told == Counted("streams") /\ last'.name \notin TableNames
<1>1. ASSUME NEW text, PrintText(text) PROVE Told
    BY <1>1, Counts DEF PrintText, TableNames
<1>2. ASSUME NEW table, OpenMemoryStream(table) PROVE Told
    BY <1>2, Counts DEF OpenMemoryStream, TableNames
<1>3. ASSUME NEW n, SelectStream(n) PROVE Told
    BY <1>3, Counts DEF SelectStream, TableNames
<1>4. CloseMemoryStream => Told
    BY Counts DEF CloseMemoryStream, TableNames
<1>5. SaveUndo \/ RestoreUndo => Told
    BY Counts DEF SaveUndo, RestoreUndo, TableNames
<1> HIDE DEF Told
<1>6. StreamsNext => Told
    BY <1>1, <1>2, <1>3, <1>4, <1>5 DEF StreamsNext
<1> QED
    BY <1>6 DEF Told

\* Only programs that open streams close them, and only those with tables use them.
LEMMA OneStep ==
    ASSUME Next
    PROVE  /\ steps < story.bound /\ steps' = steps + 1 /\ story' = story
           /\ story.program = "streams" => StreamsNext
           /\ story.program # "streams" => last'.name # "CLOSE"
           /\ story.program = "tables" => TablesNext
           /\ story.program = "save" => SaveNext
           /\ story.program # "tables" => last'.name \notin TableNames
BY CodeStep, TextStep, ObjectsStep, TablesStep, SaveStep, StreamsStep
   DEF Next, Counted, TellsNothing

LEMMA StepsInductive == StepsInv /\ [Next]_vars => StepsInv'
<1> SUFFICES ASSUME StepsInv, [Next]_vars PROVE StepsInv'
    OBVIOUS
<1>1. story.bound \in Nat
    BY InstructionsAssumption DEF StepsInv
<1>2. CASE Next
    BY <1>1, <1>2, OneStep DEF StepsInv
<1>3. CASE UNCHANGED vars
    BY <1>3 DEF vars, StepsInv
<1> QED
    BY <1>2, <1>3

-----------------------------------------------------------------------------
(* Writing to memory.                                                       *)

LEMMA BytesAreKept == \A b \in 0..255 : b % 256 = b
OBVIOUS

LEMMA HighByte ==
    ASSUME NEW v \in Nat, v < 65536
    PROVE  v \div 256 \in 0..255
OBVIOUS

LEMMA Divided ==
    ASSUME NEW v \in Int
    PROVE  v = 256 * (v \div 256) + (v % 256)
OBVIOUS

\* A word is put together from the two bytes it is written as.
LEMMA WordParts ==
    ASSUME NEW v \in Nat, v < 65536
    PROVE  256 * ((v \div 256) % 256) + (v % 256) = v
<1> DEFINE hi == v \div 256
           lo == v % 256
<1>1. hi \in 0..255
    BY HighByte
<1>2. v = 256 * hi + lo
    BY Divided
<1> HIDE DEF hi, lo
<1>3. hi % 256 = hi
    BY <1>1, BytesAreKept
<1>4. 256 * (hi % 256) + lo = v
    BY <1>2, <1>3
<1> QED
    BY <1>4 DEF hi, lo

HighestWord == 65535
HalfWords == 0..HighestWord

LEMMA HalfWordRange ==
    ASSUME NEW k \in Nat
    PROVE  k \in HalfWords <=> k < 65536
<1>1. HighestWord \in Nat /\ (k <= HighestWord <=> k < 65536)
    BY SMT DEF HighestWord
<1> QED
    BY <1>1 DEF HalfWords

LEMMA HalfWordWritten ==
    ASSUME NEW D, NEW m \in [D -> Byte], NEW a \in Int, NEW v \in Int
    PROVE  /\ WriteHalfWord(m, a, v) \in [D -> Byte]
           /\ \A x \in D : x # a /\ x # a + 1 => WriteHalfWord(m, a, v)[x] = m[x]
           /\ a \in D /\ a + 1 \in D /\ v \in HalfWords =>
                ReadHalfWord(WriteHalfWord(m, a, v), a) = v
<1> DEFINE hi == (v \div 256) % 256
           lo == v % 256
           new == WriteHalfWord(m, a, v)
<1>1. hi \in Byte /\ lo \in Byte
    BY DEF Byte
<1>2. new = [m EXCEPT ![a] = hi, ![a + 1] = lo]
    BY DEF WriteHalfWord
<1>3. v \in HalfWords => 256 * hi + lo = v
    BY WordParts, SMTT(40) DEF HalfWords, HighestWord
<1> HIDE DEF hi, lo, new
<1>4. new \in [D -> Byte] /\ \A x \in D : x # a /\ x # a + 1 => new[x] = m[x]
    BY <1>1, <1>2
<1>5. ASSUME a \in D, a + 1 \in D, v \in HalfWords PROVE ReadHalfWord(new, a) = v
  <2>1. new[a] = hi /\ new[a + 1] = lo
      BY <1>2, <1>5
  <2>2. 256 * hi + lo = v
      BY <1>3, <1>5
  <2>3. ReadHalfWord(new, a) = 256 * new[a] + new[a + 1]
      BY DEF ReadHalfWord
  <2> QED
      BY <2>1, <2>2, <2>3, Zenon
<1>6. /\ new \in [D -> Byte]
      /\ \A x \in D : x # a /\ x # a + 1 => new[x] = m[x]
      /\ a \in D /\ a + 1 \in D /\ v \in HalfWords => ReadHalfWord(new, a) = v
    BY <1>4, <1>5
<1> QED
    BY <1>6 DEF new

LEMMA SliceWritten ==
    ASSUME NEW D, NEW m \in [D -> Byte], NEW a \in Nat, NEW s \in Seq(Byte)
    PROVE  /\ WriteSlice(m, a, s) \in [D -> Byte]
           /\ \A x \in D : x \notin a..(a + Len(s) - 1) => WriteSlice(m, a, s)[x] = m[x]
           /\ \A k \in 1..Len(s) : a + k - 1 \in D => WriteSlice(m, a, s)[a + k - 1] = s[k]
<1>1. Len(s) \in Nat /\ \A k \in 1..Len(s) : s[k] \in Byte
    BY LenProperties
<1>2. \A x \in a..(a + Len(s) - 1) : x - a + 1 \in 1..Len(s)
    BY <1>1
<1>3. WriteSlice(m, a, s) \in [D -> Byte]
    BY <1>1, <1>2 DEF WriteSlice
<1>4. \A x \in D : x \notin a..(a + Len(s) - 1) => WriteSlice(m, a, s)[x] = m[x]
    BY DEF WriteSlice
<1>5. ASSUME NEW k \in 1..Len(s), a + k - 1 \in D PROVE WriteSlice(m, a, s)[a + k - 1] = s[k]
  <2>1. a + k - 1 \in a..(a + Len(s) - 1) /\ (a + k - 1) - a + 1 = k
      BY <1>1, <1>5
  <2> QED
      BY <1>5, <2>1 DEF WriteSlice
<1> QED
    BY <1>3, <1>4, <1>5

\* Characters of one byte are written as they are.
LEMMA AsBytes ==
    ASSUME NEW text \in Seq(Byte)
    PROVE  [i \in DOMAIN text |-> text[i] % 256] = text
<1>1. text \in [1..Len(text) -> Byte] /\ Len(text) \in Nat
    BY LenProperties
<1>2. \A i \in 1..Len(text) : text[i] % 256 = text[i]
    BY <1>1, BytesAreKept DEF Byte
<1> QED
    BY <1>1, <1>2

LEMMA SmallRemainder ==
    ASSUME NEW n \in Int, 0 <= n, NEW w \in Int, n < w
    PROVE  n % w = n
BY SMT

LEMMA WordsAreKept ==
    ASSUME NEW n \in HalfWords
    PROVE  Word(n) = n
<1>1. n \in Int /\ 0 <= n /\ n < 65536
    BY SMTT(40) DEF HalfWords, HighestWord
<1>2. n % 65536 = n
    BY <1>1, SmallRemainder, SMT
<1> QED
    BY <1>2, SMT DEF Word

-----------------------------------------------------------------------------
(* The invariant is kept.                                                   *)

\* What the story has to do with its streams.
LEMMA StoryOfStreams ==
    ASSUME StepsInv, story.program = "streams"
    PROVE  /\ steps \in Nat /\ story.bound \in Nat /\ steps <= story.bound
           /\ story.memory \in Image
           /\ story.longest \in Nat
           /\ \A text \in story.texts : text \in Seq(Byte) /\ Len(text) <= story.longest
           /\ \A t \in story.tables : t \in Nat
<1>1. story \in Stories
    BY DEF StepsInv
<1>2. story.bound \in Nat /\ story.memory \in Image
    BY <1>1, InstructionsAssumption DEF Image
<1>3. /\ story.longest \in Nat
      /\ \A text \in story.texts : text \in Seq(Byte) /\ Len(text) <= story.longest
      /\ \A t \in story.tables : t \in Nat
    BY <1>1, StreamsAssumption
<1> QED
    BY <1>2, <1>3 DEF StepsInv

\* The room of the texts in their tables, and that no two have a place in common.
LEMMA RoomOfStreams ==
    ASSUME StepsInv, story.program = "streams"
    PROVE  /\ steps * story.longest <= Room(story) /\ steps * story.longest \in Nat
           /\ Room(story) \in Nat /\ Room(story) < 65536
           /\ \A t \in story.tables : t..(t + 1 + Room(story)) \subseteq DOMAIN story.memory
           /\ \A t, u \in story.tables : t < u => t + 1 + Room(story) < u
<1>1. story \in Stories
    BY DEF StepsInv
<1>2. /\ Room(story) < 65536
      /\ \A t \in story.tables : t..(t + 1 + Room(story)) \subseteq DOMAIN story.memory
      /\ \A t, u \in story.tables : t < u => t + 1 + Room(story) < u
    BY <1>1, StreamsAssumption
<1>3. \A n, b, l \in Nat : n <= b => n * l <= b * l /\ n * l \in Nat
    BY SMT
<1>4. steps * story.longest <= Room(story) /\ steps * story.longest \in Nat
    BY <1>3, StoryOfStreams DEF Room
<1>5. Room(story) \in Nat
    BY StoryOfStreams, SMT DEF Room
<1> QED
    BY <1>2, <1>4, <1>5

\* One more step, one more text.
LEMMA LongestGrows ==
    ASSUME StepsInv, story.program = "streams"
    PROVE  /\ (steps + 1) * story.longest = steps * story.longest + story.longest
           /\ steps * story.longest \in Nat /\ steps * story.longest <= (steps + 1) * story.longest
<1>1. \A n, l \in Nat : (n + 1) * l = n * l + l /\ n * l \in Nat /\ n * l <= (n + 1) * l
    BY SMT
<1> QED
    BY <1>1, StoryOfStreams

\* A change of memory leaves the texts in the tables it does not touch.
LEMMA HoldsStill ==
    ASSUME NEW m, NEW new, NEW p, Holds(m, p),
           \A x \in (p.table + 2)..(p.table + 1 + Len(p.text)) : new[x] = m[x],
           p.table \in Nat, p.text \in Seq(Byte)
    PROVE  Holds(new, p)
<1>1. Len(p.text) \in Nat
    BY LenProperties
<1>2. \A k \in 1..Len(p.text) : p.table + 1 + k \in (p.table + 2)..(p.table + 1 + Len(p.text))
    BY <1>1
<1> QED
    BY <1>2 DEF Holds

\* What is known about each open stream.
LEMMA StreamAt ==
    ASSUME StreamsHold, StepsInv, story.program = "streams", NEW i \in 1..Len(promise)
    PROVE  /\ promise[i] \in Texts /\ streams.MemoryStreamData[i] \in Pointers
           /\ promise[i].table \in story.tables /\ promise[i].table \in Nat
           /\ promise[i].text \in Seq(Byte) /\ Len(promise[i].text) \in Nat
           /\ Len(promise[i].text) <= steps * story.longest
           /\ Len(promise[i].text) <= Room(story)
           /\ (promise[i].table)..(promise[i].table + 1 + Room(story)) \subseteq DOMAIN story.memory
<1>1. promise[i] \in Texts /\ streams.MemoryStreamData[i] \in Pointers
    BY ElementOfSeq DEF StreamsHold, Streams
<1>2. promise[i].table \in story.tables /\ promise[i].text \in Seq(Byte)
    BY <1>1 DEF Texts
<1>3. promise[i].table \in Nat
    BY <1>2, StoryOfStreams
<1>4. Len(promise[i].text) \in Nat
    BY <1>2, LenProperties
<1>5. Len(promise[i].text) <= steps * story.longest
    BY DEF StreamsHold
<1>6. Len(promise[i].text) <= Room(story)
    BY <1>4, <1>5, RoomOfStreams
<1> QED
    BY <1>1, <1>2, <1>3, <1>4, <1>5, <1>6, RoomOfStreams

\* Two streams have no place in common.
LEMMA StreamsApart ==
    ASSUME StreamsHold, StepsInv, story.program = "streams",
           NEW i \in 1..Len(promise), NEW j \in 1..Len(promise), i # j,
           NEW x \in (promise[i].table)..(promise[i].table + 1 + Room(story))
    PROVE  x \notin (promise[j].table)..(promise[j].table + 1 + Room(story))
<1>1. promise[i].table \in story.tables /\ promise[i].table \in Nat
    BY StreamAt
<1>2. promise[j].table \in story.tables /\ promise[j].table \in Nat
    BY StreamAt
<1>3. promise[i].table # promise[j].table
    BY DEF StreamsHold
<1> DEFINE t == promise[i].table
           u == promise[j].table
<1>4. Room(story) \in Nat
    BY RoomOfStreams
<1>5. t + 1 + Room(story) < u \/ u + 1 + Room(story) < t
  <2>1. t < u \/ u < t
      BY <1>1, <1>2, <1>3
  <2> QED
      BY <1>1, <1>2, <2>1, RoomOfStreams
<1>6. t \in Nat /\ u \in Nat /\ x \in t..(t + 1 + Room(story))
    BY <1>1, <1>2
<1> HIDE DEF t, u
<1>7. x \notin u..(u + 1 + Room(story))
    BY <1>4, <1>5, <1>6
<1> QED
    BY <1>7 DEF u

LEMMA TextOfOne ==
    ASSUME NEW q \in Texts, NEW text \in Seq(Byte)
    PROVE  /\ [q EXCEPT !.text = text] = [table |-> q.table, text |-> text, kept |-> q.kept]
           /\ [table |-> q.table, text |-> text, kept |-> q.kept] \in Texts
BY DEF Texts

LEMMA PointerOfOne ==
    ASSUME NEW q \in Pointers, NEW ptr \in Nat
    PROVE  /\ [q EXCEPT !.ptr = ptr] = [baseAddress |-> q.baseAddress, ptr |-> ptr]
           /\ [baseAddress |-> q.baseAddress, ptr |-> ptr] \in Pointers
BY DEF Pointers

\* The texts have had room so far, and an instruction more leaves them as much.
LEMMA TextsStillFit ==
    ASSUME StreamsHold, StepsInv, story.program = "streams", NEW i \in 1..Len(promise)
    PROVE  Len(promise[i].text) <= (steps + 1) * story.longest
<1>1. Len(promise[i].text) \in Nat /\ Len(promise[i].text) <= steps * story.longest
    BY StreamAt
<1>2. (steps + 1) * story.longest \in Int
    BY LongestGrows, StoryOfStreams
<1> QED
    BY <1>1, <1>2, LongestGrows

\* Text printed to a memory stream.
LEMMA PrintKeeps ==
    ASSUME StreamsHold, StepsInv, story.program = "streams", NEW text \in story.texts,
           PrintText(text), steps' = steps + 1, story' = story
    PROVE  StreamsHold'
<1> DEFINE n == Len(promise)
           data == streams.MemoryStreamData
<1>1. n \in Nat /\ Len(data) = n /\ data \in Seq(Pointers) /\ promise \in Seq(Texts)
    BY LenProperties DEF StreamsHold, Streams
<1>2. text \in Seq(Byte) /\ Len(text) <= story.longest /\ Len(text) \in Nat
    BY StoryOfStreams, LenProperties
<1>3. UNCHANGED undo /\ Prints(text)
    BY DEF PrintText
<1>4. \A i \in 1..n : Len(promise[i].text) <= (steps + 1) * story.longest
    BY TextsStillFit
<1>5. CASE n = 0
  <2>1. UNCHANGED <<memory, streams, promise>>
      BY <1>1, <1>3, <1>5 DEF Prints, PrintText
  <2> QED
      BY <1>3, <1>4, <2>1 DEF StreamsHold, Image, Texts
<1>6. CASE n # 0
  <2> DEFINE t == promise[n].table
             old == promise[n].text
             at == data[n].ptr
  <2>1. n \in 1..n /\ n = Len(promise)
      BY <1>1, <1>6
  <2>2. /\ promise[n] \in Texts /\ data[n] \in Pointers
        /\ t \in Nat /\ old \in Seq(Byte) /\ Len(old) \in Nat /\ Len(old) <= steps * story.longest
        /\ at = t + 2 + Len(old)
      BY <2>1, StreamAt DEF StreamsHold
  <2>3. /\ memory' = WriteSlice(memory, at, text)
        /\ streams' = [streams EXCEPT !.MemoryStreamData[n].ptr = @ + Len(text)]
        /\ promise' = [promise EXCEPT ![n].text = @ \o text]
    <3>1. [i \in DOMAIN text |-> text[i] % 256] = text
        BY <1>2, AsBytes
    <3>2. n > 0
        BY <1>1, <1>6
    <3>3. /\ memory' = WriteSlice(memory, at, [i \in DOMAIN text |-> text[i] % 256])
          /\ streams' = [streams EXCEPT !.MemoryStreamData[n].ptr = @ + Len(text)]
        BY <1>1, <1>3, <3>2, Zenon DEF Prints
    <3>4. promise' = [promise EXCEPT ![n].text = @ \o text]
        BY <1>6 DEF PrintText
    <3> QED
        BY <3>1, <3>3, <3>4
  <2>4. old \o text \in Seq(Byte) /\ Len(old \o text) = Len(old) + Len(text)
        /\ \A k \in 1..(Len(old) + Len(text)) :
             (old \o text)[k] = IF k <= Len(old) THEN old[k] ELSE text[k - Len(old)]
    <3>1. old \in Seq(Byte) /\ text \in Seq(Byte)
        BY <1>2, <2>2
    <3> HIDE DEF old
    <3> QED
        BY <3>1, ConcatProperties, Zenon
  <2>5. /\ promise' \in Seq(Texts) /\ Len(promise') = n
        /\ \A i \in 1..n : i # n => promise'[i] = promise[i]
        /\ promise'[n] = [table |-> t, text |-> old \o text, kept |-> promise[n].kept]
    <3> DEFINE p == [table |-> t, text |-> old \o text, kept |-> promise[n].kept]
    <3>1. promise' = [promise EXCEPT ![n].text = old \o text]
        BY <2>3
    <3>2. [promise[n] EXCEPT !.text = old \o text] = p /\ p \in Texts
        BY <2>2, <2>4, TextOfOne
    <3> HIDE DEF p
    <3>3. promise' = [promise EXCEPT ![n] = p]
        BY <3>1, <3>2, Zenon
    <3>4. promise' \in Seq(Texts) /\ Len(promise') = n /\ promise'[n] = p
          /\ \A i \in 1..n : i # n => promise'[i] = promise[i]
        BY <1>1, <2>1, <3>2, <3>3, ExceptSeq
    <3> QED
        BY <3>4 DEF p
  <2>6. /\ streams' \in Streams /\ Len(streams'.MemoryStreamData) = n
        /\ \A i \in 1..n : i # n => streams'.MemoryStreamData[i] = data[i]
        /\ streams'.MemoryStreamData[n] = [baseAddress |-> t, ptr |-> at + Len(text)]
    <3> DEFINE p == [baseAddress |-> t, ptr |-> at + Len(text)]
               with == [data EXCEPT ![n] = p]
    <3>1. streams' = [streams EXCEPT !.MemoryStreamData[n].ptr = at + Len(text)]
        BY <2>3
    <3>2. at + Len(text) \in Nat /\ data[n].baseAddress = t
        BY <1>2, <2>1, <2>2, SMTT(20) DEF StreamsHold
    <3>3. [data[n] EXCEPT !.ptr = at + Len(text)] = p /\ p \in Pointers
        BY <2>2, <3>2, PointerOfOne
    <3> HIDE DEF p
    <3>4. streams' = [streams EXCEPT !.MemoryStreamData = with]
        BY <3>1, <3>3, Zenon
    <3>5. with \in Seq(Pointers) /\ Len(with) = n /\ with[n] = p
          /\ \A i \in 1..n : i # n => with[i] = data[i]
        BY <1>1, <2>1, <3>3, ExceptSeq
    <3> HIDE DEF with
    <3>6. streams' \in Streams /\ streams'.MemoryStreamData = with
        BY <3>4, <3>5 DEF StreamsHold, Streams
    <3> QED
        BY <3>5, <3>6 DEF p
  <2> DEFINE new == memory'
             room == t..(t + 1 + Room(story))
  <2>7. Len(old) + Len(text) <= (steps + 1) * story.longest
        /\ (steps + 1) * story.longest <= Room(story) /\ Room(story) \in Nat
    <3>1. steps + 1 <= story.bound
        BY StoryOfStreams DEF PrintText, Instruction
    <3>2. \A k, b, l \in Nat : k <= b => k * l <= b * l
        BY SMT
    <3>3. (steps + 1) * story.longest <= Room(story)
        BY <3>1, <3>2, StoryOfStreams DEF Room
    <3>4. Len(old) + Len(text) <= steps * story.longest + story.longest
      <4> DEFINE before == steps * story.longest
                 o == Len(old)
                 l == Len(text)
      <4>1. before \in Nat /\ o \in Nat /\ l \in Nat /\ story.longest \in Nat
            /\ o <= before /\ l <= story.longest
          BY <1>2, <2>2, LongestGrows, StoryOfStreams
      <4> HIDE DEF before, o, l
      <4>2. o + l <= before + story.longest
          BY <4>1
      <4> QED
          BY <4>2 DEF before, o, l
    <3>5. Room(story) \in Nat
        BY RoomOfStreams
    <3>6. Len(old) + Len(text) <= (steps + 1) * story.longest
        BY <3>4, LongestGrows, Zenon
    <3> QED
        BY <3>3, <3>5, <3>6
  <2>8. room \subseteq DOMAIN story.memory /\ at..(at + Len(text) - 1) \subseteq room
    <3>1. room \subseteq DOMAIN story.memory
        BY <2>1, StreamAt
    <3>2. (steps + 1) * story.longest \in Int
        BY LongestGrows, StoryOfStreams
    <3> DEFINE most == (steps + 1) * story.longest
               all == Room(story)
    <3>3. /\ Len(old) \in Nat /\ Len(text) \in Nat /\ t \in Nat /\ at = t + 2 + Len(old)
          /\ most \in Int /\ all \in Nat /\ Len(old) + Len(text) <= most /\ most <= all
          /\ room = t..(t + 1 + all)
        BY <1>2, <2>2, <2>7, <3>2
    <3> HIDE DEF n, t, old, at, most, all, room
    <3>4. at..(at + Len(text) - 1) \subseteq room
        BY <3>3
    <3> QED
        BY <3>1, <3>4
  <2>9. /\ new \in Image
        /\ \A x \in DOMAIN story.memory : x \notin at..(at + Len(text) - 1) => new[x] = memory[x]
        /\ \A k \in 1..Len(text) : new[at + k - 1] = text[k]
    <3>1. memory \in [DOMAIN story.memory -> Byte] /\ at \in Nat
        BY <2>2, SMTT(20) DEF StreamsHold, Image
    <3> HIDE DEF at, room
    <3>5. at \in Nat /\ Len(text) \in Nat
        BY <1>2, <3>1
    <3>2. \A k \in 1..Len(text) : at + k - 1 \in at..(at + Len(text) - 1)
        BY <3>5
    <3>3. \A k \in 1..Len(text) : at + k - 1 \in DOMAIN story.memory
        BY <2>8, <3>2
    <3>4. new = WriteSlice(memory, at, text)
        BY <2>3
    <3> HIDE DEF new
    <3> QED
        BY <1>2, <3>1, <3>3, <3>4, SliceWritten DEF Image
  <2>10. ASSUME NEW i \in 1..n, i # n PROVE Holds(new, promise'[i])
    <3>1. Holds(memory, promise[i]) /\ promise'[i] = promise[i]
        BY <2>5, <2>10 DEF StreamsHold
    <3>2. \A x \in (promise[i].table + 2)..(promise[i].table + 1 + Len(promise[i].text)) :
             x \in (promise[i].table)..(promise[i].table + 1 + Room(story))
        BY <2>7, StreamAt, SMTT(20)
    <3>3. ASSUME NEW x \in (promise[i].table)..(promise[i].table + 1 + Room(story))
          PROVE  x \in DOMAIN story.memory /\ x \notin room
        BY <2>1, <2>10, StreamAt, StreamsApart
    <3>4. \A x \in (promise[i].table + 2)..(promise[i].table + 1 + Len(promise[i].text)) :
             new[x] = memory[x]
      <4> HIDE DEF room, at, new
      <4> QED
        BY <2>8, <2>9, <3>2, <3>3
    <3>5. promise[i].table \in Nat /\ promise[i].text \in Seq(Byte)
        BY StreamAt
    <3> HIDE DEF new
    <3> QED
        BY <3>1, <3>4, <3>5, HoldsStill
  <2>11. Holds(new, promise'[n])
    <3> SUFFICES ASSUME promise[n].kept, NEW k \in 1..(Len(old) + Len(text))
                 PROVE  new[t + 1 + k] = (old \o text)[k]
        BY <2>4, <2>5 DEF Holds
    <3>1. CASE k <= Len(old)
      <4>1. memory[t + 1 + k] = old[k]
          BY <2>1, <2>2, <3>1 DEF StreamsHold, Holds
      <4>2. t + 1 + k \in room /\ t + 1 + k \notin at..(at + Len(text) - 1)
        <5>1. Len(old) <= Room(story)
            BY <2>1, StreamAt
        <5> HIDE DEF n, t, old, at
        <5> QED
          BY <1>2, <2>2, <2>7, <3>1, <5>1
      <4> HIDE DEF room, at, new, t, old
      <4> QED
          BY <2>4, <2>8, <2>9, <3>1, <4>1, <4>2
    <3>2. CASE ~(k <= Len(old))
      <4> HIDE DEF room, at, new, t, old
      <4>1. k - Len(old) \in 1..Len(text) /\ at + (k - Len(old)) - 1 = t + 1 + k
          BY <1>2, <2>2, <3>2
      <4>2. new[t + 1 + k] = text[k - Len(old)]
          BY <2>9, <4>1
      <4> QED
          BY <2>4, <3>2, <4>2
    <3> QED
        BY <3>1, <3>2
  <2>12. ASSUME NEW i \in 1..n
         PROVE  /\ streams'.MemoryStreamData[i].baseAddress = promise'[i].table
                /\ streams'.MemoryStreamData[i].ptr = promise'[i].table + 2 + Len(promise'[i].text)
                /\ Len(promise'[i].text) <= (steps + 1) * story.longest
                /\ Holds(new, promise'[i])
                /\ promise'[i].table = promise[i].table
    <3>1. CASE i = n
      <4>1. promise'[n].table = t /\ promise'[n].text = old \o text
          BY <2>5
      <4>2. streams'.MemoryStreamData[n].baseAddress = t
            /\ streams'.MemoryStreamData[n].ptr = at + Len(text)
          BY <2>6
      <4>3. at + Len(text) = t + 2 + Len(old \o text)
        <5> HIDE DEF t, old, at
        <5> QED
          BY <1>2, <2>2, <2>4
      <4>4. Len(old \o text) <= (steps + 1) * story.longest
          BY <2>4, <2>7
      <4> QED
          BY <2>11, <3>1, <4>1, <4>2, <4>3, <4>4
    <3>2. CASE i # n
        BY <1>4, <2>5, <2>6, <2>10, <3>2 DEF StreamsHold
    <3> QED
        BY <3>1, <3>2
  <2>13. undo' \in Seq(Image') /\ Image' = Image /\ Texts' = Texts
      BY <1>3 DEF StreamsHold, Image, Texts
  <2>14. \A i, j \in 1..n : i # j => promise'[i].table # promise'[j].table
      BY <2>12 DEF StreamsHold
  <2> QED
      BY <2>5, <2>6, <2>9, <2>12, <2>13, <2>14 DEF StreamsHold
<1> QED
    BY <1>1, <1>5, <1>6

\* A memory stream opened to a table that has none.
LEMMA OpenKeeps ==
    ASSUME StreamsHold, StepsInv, story.program = "streams",
           NEW t \in story.tables \ {promise[i].table : i \in DOMAIN promise},
           OpenMemoryStream(t), steps' = steps + 1, story' = story
    PROVE  StreamsHold'
<1> DEFINE n == Len(promise)
           data == streams.MemoryStreamData
           pointers == [baseAddress |-> t, ptr |-> t + 2]
           text == [table |-> t, text |-> <<>>, kept |-> TRUE]
<1>1. n \in Nat /\ Len(data) = n /\ data \in Seq(Pointers) /\ promise \in Seq(Texts)
    BY LenProperties DEF StreamsHold, Streams
<1>2. t \in Nat /\ pointers \in Pointers
    BY StoryOfStreams DEF Pointers
<1>3. text \in Texts
    BY DEF Texts
<1>4. memory' = memory /\ undo' = undo
      /\ streams' = [streams EXCEPT !.MemoryStreamData = Append(data, pointers)]
      /\ promise' = Append(promise, text)
    BY DEF OpenMemoryStream, machineVars
<1>5. \A i \in 1..n : promise[i].table # t
    BY <1>1
<1> HIDE DEF pointers, text
<1>6. /\ promise' \in Seq(Texts) /\ Len(promise') = n + 1 /\ promise'[n + 1] = text
      /\ \A i \in 1..n : promise'[i] = promise[i]
    BY <1>1, <1>3, <1>4, AppendProperties
<1> DEFINE with == Append(data, pointers)
<1>7. /\ with \in Seq(Pointers) /\ Len(with) = n + 1 /\ with[n + 1] = pointers
      /\ \A i \in 1..n : with[i] = data[i]
    BY <1>1, <1>2, AppendProperties
<1> HIDE DEF with
<1>8. streams' \in Streams /\ streams'.MemoryStreamData = with
    BY <1>4, <1>7 DEF with, StreamsHold, Streams
<1>9. ASSUME NEW i \in 1..(n + 1)
      PROVE  /\ with[i].baseAddress = promise'[i].table
             /\ with[i].ptr = promise'[i].table + 2 + Len(promise'[i].text)
             /\ Len(promise'[i].text) <= (steps + 1) * story.longest
             /\ Holds(memory, promise'[i])
  <2>1. CASE i = n + 1
    <3>1. promise'[i].table = t /\ promise'[i].text = <<>>
        BY <1>6, <2>1 DEF text
    <3>2. with[i].baseAddress = t /\ with[i].ptr = t + 2
        BY <1>7, <2>1 DEF pointers
    <3>3. Len(promise'[i].text) = 0 /\ 0 <= (steps + 1) * story.longest
        BY <3>1, LongestGrows, StoryOfStreams
    <3> QED
        BY <1>2, <3>1, <3>2, <3>3 DEF Holds
  <2>2. CASE i # n + 1
    <3>1. i \in 1..n
        BY <1>1, <2>2
    <3> QED
        BY <1>6, <1>7, <3>1, TextsStillFit DEF StreamsHold
  <2> QED
      BY <2>1, <2>2
<1>10. \A i, j \in 1..(n + 1) : i # j => promise'[i].table # promise'[j].table
  <2>1. \A i \in 1..(n + 1) : i = n + 1 \/ i \in 1..n
      BY <1>1
  <2>2. promise'[n + 1].table = t
      BY <1>6 DEF text
  <2> QED
      BY <1>5, <1>6, <2>1, <2>2 DEF StreamsHold
<1>11. undo' \in Seq(Image') /\ Image' = Image /\ Texts' = Texts /\ memory' \in Image'
    BY <1>4 DEF StreamsHold, Image, Texts
<1> QED
    BY <1>1, <1>4, <1>6, <1>7, <1>8, <1>9, <1>10, <1>11 DEF StreamsHold

LEMMA AllButTheLast ==
    ASSUME NEW S, NEW s \in Seq(S), Len(s) # 0
    PROVE  /\ Front(s) \in Seq(S) /\ Len(Front(s)) = Len(s) - 1
           /\ \A i \in 1..(Len(s) - 1) : Front(s)[i] = s[i]
<1> DEFINE n == Len(s)
<1>1. n \in Nat /\ n # 0 /\ \A i \in 1..n : s[i] \in S
    BY LenProperties, ElementOfSeq
<1>2. 1 \in Int /\ n - 1 \in Int /\ \A i \in 1..(n - 1) : s[i] \in S
    BY <1>1
<1> HIDE DEF n
<1>3. /\ SubSeq(s, 1, n - 1) \in Seq(S)
      /\ Len(SubSeq(s, 1, n - 1)) = IF 1 <= n - 1 THEN (n - 1) - 1 + 1 ELSE 0
      /\ \A i \in 1..((n - 1) - 1 + 1) : SubSeq(s, 1, n - 1)[i] = s[1 + i - 1]
    BY <1>2, SubSeqProperties
<1>4. Front(s) = SubSeq(s, 1, n - 1)
    BY DEF Front, n
<1>5. /\ Front(s) \in Seq(S) /\ Len(Front(s)) = n - 1
      /\ \A i \in 1..(n - 1) : Front(s)[i] = s[i]
    BY <1>1, <1>3, <1>4
<1> QED
    BY <1>5 DEF n

\* The latest memory stream closed: the others are as they were, and its table has
\* what was printed to it.
LEMMA CloseKeeps ==
    ASSUME StreamsHold, StepsInv, story.program = "streams",
           CloseMemoryStream, steps' = steps + 1, story' = story
    PROVE  StreamsHold' /\ TablesHoldTheirText'
<1> DEFINE n == Len(promise)
           data == streams.MemoryStreamData
           t == promise[n].table
           text == promise[n].text
           new == memory'
           room == t..(t + 1 + Room(story))
<1>1. n \in Nat /\ Len(data) = n /\ data \in Seq(Pointers) /\ promise \in Seq(Texts)
    BY LenProperties DEF StreamsHold, Streams
<1>2. n # 0 /\ n \in 1..n /\ n = Len(promise)
    BY <1>1 DEF CloseMemoryStream
<1>3. /\ t \in Nat /\ text \in Seq(Byte) /\ Len(text) \in Nat /\ Len(text) <= Room(story)
      /\ Room(story) \in Nat /\ Room(story) < 65536
      /\ room \subseteq DOMAIN story.memory
    BY <1>2, StreamAt, RoomOfStreams
<1>4. data[n].baseAddress = t /\ data[n].ptr = t + 2 + Len(text)
    BY <1>2 DEF StreamsHold
<1>5. /\ memory' = WriteHalfWord(memory, t, Len(text))
      /\ Len(text) \in HalfWords
  <2>1. memory' = WriteHalfWord(memory, data[n].baseAddress,
                                Word(data[n].ptr - data[n].baseAddress - 2))
      BY <1>1, Zenon DEF CloseMemoryStream
  <2> HIDE DEF n, data, t, text
  <2>2. data[n].ptr - data[n].baseAddress - 2 = Len(text)
      BY <1>3, <1>4
  <2>3. Len(text) \in HalfWords
    <3>1. \A k, l \in Nat : k <= l /\ l < 65536 => k < 65536
        BY SMT
    <3> QED
        BY <1>3, <3>1, HalfWordRange
  <2> QED
      BY <1>4, <2>1, <2>2, <2>3, WordsAreKept
<1>6. t \in DOMAIN story.memory /\ t + 1 \in DOMAIN story.memory
  <2> HIDE DEF t
  <2> QED
      BY <1>3
<1>7. /\ new \in Image
      /\ \A x \in DOMAIN story.memory : x # t /\ x # t + 1 => new[x] = memory[x]
      /\ ReadHalfWord(new, t) = Len(text)
  <2>1. memory \in [DOMAIN story.memory -> Byte] /\ t \in Int /\ Len(text) \in Int
      BY <1>3 DEF StreamsHold, Image
  <2> HIDE DEF t, text, new
  <2>2. new = WriteHalfWord(memory, t, Len(text))
      BY <1>5 DEF new
  <2> QED
      BY <1>5, <1>6, <2>1, <2>2, HalfWordWritten DEF Image
<1>8. /\ promise' \in Seq(Texts) /\ Len(promise') = n - 1
      /\ \A i \in 1..(n - 1) : promise'[i] = promise[i]
    BY <1>1, <1>2, AllButTheLast DEF CloseMemoryStream
<1> DEFINE with == Front(data)
<1>9. /\ with \in Seq(Pointers) /\ Len(with) = n - 1
      /\ \A i \in 1..(n - 1) : with[i] = data[i]
  <2>1. Len(data) # 0
      BY <1>1, <1>2
  <2> HIDE DEF n
  <2> QED
      BY <1>1, <2>1, AllButTheLast
<1>10. streams' = [streams EXCEPT !.MemoryStreamData = with]
    BY DEF CloseMemoryStream
<1> HIDE DEF with
<1>11. streams' \in Streams /\ streams'.MemoryStreamData = with
    BY <1>9, <1>10 DEF StreamsHold, Streams
<1>12. ASSUME NEW i \in 1..(n - 1)
       PROVE  Holds(new, promise[i])
  <2>1. i \in 1..n /\ i # n /\ i \in 1..Len(promise)
      BY <1>1
  <2>2. Holds(memory, promise[i])
      BY <2>1 DEF StreamsHold
  <2>3. \A x \in (promise[i].table + 2)..(promise[i].table + 1 + Len(promise[i].text)) :
           x \in (promise[i].table)..(promise[i].table + 1 + Room(story))
    <3> DEFINE a == promise[i].table
               l == Len(promise[i].text)
               r == Room(story)
    <3>1. a \in Nat /\ l \in Nat /\ r \in Nat /\ l <= r
        BY <1>3, <2>1, StreamAt
    <3> HIDE DEF a, l, r
    <3>2. \A x \in (a + 2)..(a + 1 + l) : x \in a..(a + 1 + r)
        BY <3>1
    <3> QED
        BY <3>2 DEF a, l, r
  <2>4. ASSUME NEW x \in (promise[i].table)..(promise[i].table + 1 + Room(story))
        PROVE  x \in DOMAIN story.memory /\ x \notin room
      BY <1>2, <2>1, StreamAt, StreamsApart
  <2>5. t \in room /\ t + 1 \in room
    <3> HIDE DEF t
    <3> QED
        BY <1>3
  <2>6. \A x \in (promise[i].table + 2)..(promise[i].table + 1 + Len(promise[i].text)) :
           new[x] = memory[x]
    <3> HIDE DEF room, t, new
    <3> QED
        BY <1>7, <2>3, <2>4, <2>5
  <2>7. promise[i].table \in Nat /\ promise[i].text \in Seq(Byte)
      BY <2>1, StreamAt
  <2> HIDE DEF new
  <2> QED
      BY <2>2, <2>6, <2>7, HoldsStill
<1>13. ASSUME NEW i \in 1..(n - 1)
       PROVE  /\ with[i].baseAddress = promise'[i].table
              /\ with[i].ptr = promise'[i].table + 2 + Len(promise'[i].text)
              /\ Len(promise'[i].text) <= (steps + 1) * story.longest
              /\ Holds(new, promise'[i])
  <2>1. i \in 1..n /\ promise'[i] = promise[i] /\ with[i] = data[i]
      BY <1>1, <1>8, <1>9
  <2> QED
      BY <1>12, <2>1, TextsStillFit DEF StreamsHold
<1>14. \A i, j \in 1..(n - 1) : i # j => promise'[i].table # promise'[j].table
  <2>1. \A i \in 1..(n - 1) : i \in 1..n
      BY <1>1
  <2> QED
      BY <1>8, <2>1 DEF StreamsHold
<1>15. undo' \in Seq(Image') /\ Image' = Image /\ Texts' = Texts
    BY DEF CloseMemoryStream, StreamsHold, Image, Texts
<1>16. StreamsHold'
  <2> HIDE DEF n, new
  <2> QED
      BY <1>7, <1>8, <1>9, <1>11, <1>13, <1>14, <1>15 DEF StreamsHold, new
<1>17. ASSUME promise[n].kept PROVE ReadSlice(new, t + 2, t + 2 + Len(text)) = text
  <2>1. \A k \in 1..Len(text) : memory[t + 1 + k] = text[k]
      BY <1>2, <1>17 DEF StreamsHold, Holds
  <2> HIDE DEF n, t, text, new
  <2>2. \A k \in 1..Len(text) : /\ (t + 2) + k - 1 = t + 1 + k
                                /\ t + 1 + k \in room /\ t + 1 + k # t /\ t + 1 + k # t + 1
      BY <1>3
  <2> HIDE DEF room
  <2>3. \A k \in 1..Len(text) : new[(t + 2) + k - 1] = text[k]
      BY <1>3, <1>7, <2>1, <2>2
  <2>4. (t + 2 + Len(text)) - (t + 2) = Len(text)
      BY <1>3
  <2>5. text = [k \in 1..Len(text) |-> text[k]]
      BY <1>3, LenProperties
  <2> QED
      BY <2>3, <2>4, <2>5 DEF ReadSlice
<1>18. last' = [name |-> "CLOSE", args |-> <<t>>, result |-> promise[n]]
    BY <1>1, Zenon DEF CloseMemoryStream, Instruction
<1>19. last'.args[1] = t /\ last'.result = promise[n]
    BY <1>18
<1> QED
    BY <1>7, <1>16, <1>17, <1>19 DEF TablesHoldTheirText

\* Selecting another stream changes only that.
LEMMA SelectKeeps ==
    ASSUME StreamsHold, StepsInv, story.program = "streams", NEW stream \in {1, -1, 2, 4, -4},
           SelectStream(stream), steps' = steps + 1, story' = story
    PROVE  StreamsHold'
<1>1. memory' = memory /\ undo' = undo /\ promise' = promise
    BY DEF SelectStream, machineVars
<1>2. \/ streams' = [streams EXCEPT !.Screen = stream > 0]
      \/ streams' = [streams EXCEPT !.Transcript = stream > 0]
      \/ streams' = [streams EXCEPT !.CommandScript = stream > 0]
    BY DEF SelectStream
<1>3. (stream > 0) \in BOOLEAN
    OBVIOUS
<1>4. streams' \in Streams /\ streams'.MemoryStreamData = streams.MemoryStreamData
    BY <1>2, <1>3 DEF StreamsHold, Streams
<1>5. Image' = Image /\ Texts' = Texts
    BY DEF Image, Texts
<1> QED
    BY <1>1, <1>4, <1>5, TextsStillFit DEF StreamsHold

\* A saved state has the memory.
LEMMA SaveUndoKeeps ==
    ASSUME StreamsHold, StepsInv, story.program = "streams",
           SaveUndo, steps' = steps + 1, story' = story
    PROVE  StreamsHold'
<1>1. memory' = memory /\ streams' = streams /\ promise' = promise /\ undo' = Append(undo, memory)
    BY DEF SaveUndo, machineVars
<1>2. undo' \in Seq(Image)
    BY <1>1, AppendProperties DEF StreamsHold
<1>3. Image' = Image /\ Texts' = Texts
    BY DEF Image, Texts
<1> QED
    BY <1>1, <1>2, <1>3, TextsStillFit DEF StreamsHold

\* After a saved state came back, no open stream is vouched for.
LEMMA RestoreUndoKeeps ==
    ASSUME StreamsHold, StepsInv, story.program = "streams",
           RestoreUndo, steps' = steps + 1, story' = story
    PROVE  StreamsHold'
<1> DEFINE n == Len(promise)
<1>1. n \in Nat /\ promise \in Seq(Texts) /\ DOMAIN promise = 1..n
    BY LenProperties DEF StreamsHold
<1>2. /\ memory' = Last(undo) /\ undo' = Front(undo) /\ streams' = streams
      /\ promise' = [i \in DOMAIN promise |-> [promise[i] EXCEPT !.kept = FALSE]]
    BY DEF RestoreUndo
<1>3. undo \in Seq(Image) /\ Len(undo) # 0 /\ Len(undo) \in 1..Len(undo)
  <2>1. undo \in Seq(Image) /\ undo # <<>>
      BY DEF StreamsHold, RestoreUndo
  <2> QED
      BY <2>1, LenProperties, EmptySeq
<1>4. memory' \in Image /\ undo' \in Seq(Image)
    BY <1>2, <1>3, AllButTheLast, ElementOfSeq DEF Last
<1>5. \A i \in 1..n : /\ [promise[i] EXCEPT !.kept = FALSE] \in Texts
                      /\ [promise[i] EXCEPT !.kept = FALSE].table = promise[i].table
                      /\ [promise[i] EXCEPT !.kept = FALSE].text = promise[i].text
                      /\ [promise[i] EXCEPT !.kept = FALSE].kept = FALSE
  <2>1. \A q \in Texts : /\ [q EXCEPT !.kept = FALSE] \in Texts
                         /\ [q EXCEPT !.kept = FALSE].table = q.table
                         /\ [q EXCEPT !.kept = FALSE].text = q.text
                         /\ [q EXCEPT !.kept = FALSE].kept = FALSE
      BY DEF Texts
  <2>2. \A i \in 1..n : promise[i] \in Texts
      BY <1>1, ElementOfSeq
  <2> QED
      BY <2>1, <2>2
<1>6. /\ promise' \in Seq(Texts) /\ Len(promise') = n
      /\ \A i \in 1..n : /\ promise'[i].table = promise[i].table
                         /\ promise'[i].text = promise[i].text
                         /\ promise'[i].kept = FALSE
  <2>1. promise' = [i \in 1..n |-> [promise[i] EXCEPT !.kept = FALSE]]
      BY <1>1, <1>2
  <2>2. promise' \in [1..n -> Texts]
      BY <1>5, <2>1
  <2>3. promise' \in Seq(Texts) /\ Len(promise') = n
      BY <1>1, <2>2
  <2> QED
      BY <1>5, <2>1, <2>3
<1>7. Image' = Image /\ Texts' = Texts
    BY DEF Image, Texts
<1> QED
    BY <1>2, <1>4, <1>6, <1>7, TextsStillFit DEF StreamsHold, Holds

-----------------------------------------------------------------------------
(* Division.                                                                   *)

LEMMA RemainderRepeats ==
    ASSUME NEW w \in Nat \ {0}, NEW v \in Nat, w <= v
    PROVE  (v - w) % w = v % w
<1> DEFINE a == (v - w) \div w
           q == (v - w) % w
<1>1. a \in Nat /\ q \in Nat /\ q < w /\ v - w = w * a + q
    BY DividedBy
<1> HIDE DEF a, q
<1>2. v = w * (a + 1) + q /\ a + 1 \in Nat
  <2>1. w * (a + 1) = w * a + w
      BY <1>1, SMT
  <2> QED
      BY <1>1, <2>1
<1>3. v % w = q
    BY <1>1, <1>2, DivisionIs
<1> QED
    BY <1>3 DEF q

-----------------------------------------------------------------------------
(* COPY_TABLE.                                                              *)

Period(distance, n) == IF distance \in 1..n THEN distance ELSE n

\* A copy that goes forward, byte by byte, repeats what it has copied.
LEMMA CopiedForward ==
    ASSUME NEW D, NEW m \in [D -> Byte], NEW first \in Nat, NEW second \in Nat, second # 0,
           NEW size \in Int, size < 0,
           first..(first - size - 1) \subseteq D, second..(second - size - 1) \subseteq D
    PROVE  /\ CopyTable(m, first, second, size) \in [D -> Byte]
           /\ \A i \in 0..(-size - 1) :
                CopyTable(m, first, second, size)[second + i]
                  = m[first + (i % Period(second - first, -size))]
           /\ \A x \in D : x \notin second..(second - size - 1) =>
                CopyTable(m, first, second, size)[x] = m[x]
<1> DEFINE n == IF size < 0 THEN -size ELSE size
           p == Period(second - first, n)
           Copied(h, i) == [h EXCEPT ![second + i - 1] = h[first + i - 1]]
           P(f) == f = [i \in 0..n |-> IF i = 0 THEN m ELSE Copied(f[i - 1], i)]
           g == [i \in 0..n |-> [x \in D |-> IF x \in second..(second + i - 1)
                                             THEN m[first + ((x - second) % p)] ELSE m[x]]]
<1>1. n = -size /\ n \in Nat /\ n # 0 /\ p \in Nat \ {0} /\ p <= n
    BY DEF Period
<1>2. CopyTable(m, first, second, size) = (CHOOSE f : P(f))[n]
  <2>1. ~(size >= 0)
      OBVIOUS
  <2> QED
    BY <2>1, Zenon DEF CopyTable
<1> HIDE DEF n, Copied
<1>3. g[0] = m
  <2>1. \A x \in D : x \notin second..(second + 0 - 1)
      OBVIOUS
  <2>2. g[0] = [x \in D |-> IF x \in second..(second + 0 - 1)
                            THEN m[first + ((x - second) % p)] ELSE m[x]]
      BY <1>1
  <2> QED
      BY <2>1, <2>2
<1>4. ASSUME NEW i \in 1..n PROVE g[i] = Copied(g[i - 1], i)
  <2> DEFINE old == g[i - 1]
             to == second + i - 1
             from == first + i - 1
  <2>1. /\ old = [x \in D |-> IF x \in second..(to - 1)
                              THEN m[first + ((x - second) % p)] ELSE m[x]]
        /\ g[i] = [x \in D |-> IF x \in second..to
                              THEN m[first + ((x - second) % p)] ELSE m[x]]
    <3>1. i - 1 \in 0..n /\ i \in 0..n /\ second + (i - 1) - 1 = to - 1 /\ second + i - 1 = to
        BY <1>1
    <3> QED
        BY <3>1
  <2>2. to \in D /\ from \in D
      BY <1>1
  <2>3. old[from] = m[first + ((i - 1) % p)]
    <3>1. CASE from \in second..(to - 1)
      <4>1. second - first \in 1..n /\ p = second - first /\ i - 1 >= p
          BY <1>1, <3>1 DEF Period
      <4>2. from - second = (i - 1) - p
          BY <1>1, <4>1
      <4>3. (from - second) % p = (i - 1) % p
          BY <1>1, <4>1, <4>2, RemainderRepeats
      <4> QED
          BY <2>1, <2>2, <3>1, <4>3
    <3>2. CASE from \notin second..(to - 1)
      <4>1. i - 1 < p
          BY <1>1, <3>2 DEF Period
      <4>2. (i - 1) % p = i - 1 /\ first + (i - 1) = from
          BY <1>1, <4>1, SmallRemainder
      <4> QED
          BY <2>1, <2>2, <3>2, <4>2
    <3> QED
        BY <3>1, <3>2
  <2>4. to - second = i - 1
      BY <1>1
  <2>5. \A x \in D : g[i][x] = IF x = to THEN old[from] ELSE old[x]
    <3> SUFFICES ASSUME NEW x \in D PROVE g[i][x] = IF x = to THEN old[from] ELSE old[x]
        OBVIOUS
    <3>1. x # to => (x \in second..to <=> x \in second..(to - 1))
        BY <1>1
    <3>2. x = to => x \in second..to
        BY <1>1
    <3> HIDE DEF to, from, old, g
    <3> QED
        BY <2>1, <2>3, <2>4, <3>1, <3>2
  <2>6. g[i] = [old EXCEPT ![to] = old[from]]
    <3> HIDE DEF to, from, old, g
    <3>1. DOMAIN old = D /\ old = [x \in D |-> old[x]] /\ g[i] = [x \in D |-> g[i][x]]
        BY <2>1
    <3>2. [old EXCEPT ![to] = old[from]] = [x \in D |-> IF x = to THEN old[from] ELSE old[x]]
        BY <3>1
    <3> QED
        BY <2>5, <3>1, <3>2
  <2> QED
      BY <2>6, Zenon DEF Copied
<1>5. P(g)
  <2>1. \A i \in 0..n : g[i] = IF i = 0 THEN m ELSE Copied(g[i - 1], i)
    <3> HIDE DEF g
    <3>1. \A i \in 0..n : i = 0 \/ i \in 1..n
        BY <1>1
    <3> QED
        BY <1>3, <1>4, <3>1
  <2>2. g = [i \in 0..n |-> g[i]]
      OBVIOUS
  <2> HIDE DEF g
  <2> QED
      BY <2>1, <2>2, Zenon
<1>6. ASSUME NEW f, P(f) PROVE f = g
  <2> HIDE DEF g
  <2> DEFINE T == {i \in 0..n : f[i] # g[i]}
  <2>1. \A i \in 0..n : /\ f[i] = IF i = 0 THEN m ELSE Copied(f[i - 1], i)
                        /\ g[i] = IF i = 0 THEN m ELSE Copied(g[i - 1], i)
      BY <1>5, <1>6
  <2>2. ASSUME T # {} PROVE FALSE
    <3>1. T \subseteq Nat
        BY <1>1
    <3>2. PICK k \in T : \A j \in T : k <= j
        BY <2>2, <3>1, LeastElement
    <3>3. k \in 0..n /\ f[k] # g[k]
        BY <3>2
    <3>4. CASE k = 0
        BY <2>1, <3>3, <3>4
    <3>5. CASE k # 0
      <4>1. k - 1 \in 0..n /\ ~(k <= k - 1)
          BY <1>1, <3>3, <3>5
      <4>2. f[k - 1] = g[k - 1]
          BY <3>2, <4>1
      <4> QED
          BY <2>1, <3>3, <3>5, <4>2
    <3> QED
        BY <3>4, <3>5
  <2>3. f = [i \in 0..n |-> f[i]] /\ g = [i \in 0..n |-> g[i]]
      BY <1>5, <1>6
  <2> QED
      BY <2>2, <2>3
<1>7. CopyTable(m, first, second, size) = g[n]
    BY <1>2, <1>5, <1>6, Zenon
<1>8. g[n] = [x \in D |-> IF x \in second..(second + n - 1)
                          THEN m[first + ((x - second) % p)] ELSE m[x]]
    BY <1>1
<1>9. ASSUME NEW k \in 0..(n - 1) PROVE k % p \in 0..(n - 1) /\ first + (k % p) \in D
  <2> HIDE DEF p
  <2>1. k \in Nat /\ k % p \in Nat /\ k % p < p
      BY <1>1, DividedBy
  <2> QED
      BY <1>1, <2>1
<1> HIDE DEF g
<1>10. g[n] \in [D -> Byte]
  <2>1. \A x \in D : x \in second..(second + n - 1) => x - second \in 0..(n - 1)
      BY <1>1
  <2> HIDE DEF p
  <2> QED
      BY <1>8, <1>9, <2>1
<1>11. \A k \in 0..(n - 1) : g[n][second + k] = m[first + (k % p)]
  <2>1. \A k \in 0..(n - 1) : /\ second + k \in D /\ second + k \in second..(second + n - 1)
                              /\ (second + k) - second = k
      BY <1>1
  <2> HIDE DEF p
  <2> QED
      BY <1>8, <2>1
<1>12. \A x \in D : x \notin second..(second + n - 1) => g[n][x] = m[x]
  <2> HIDE DEF p
  <2> QED
      BY <1>8
<1>13. second + n - 1 = second - size - 1
    BY <1>1
<1> QED
    BY <1>1, <1>7, <1>10, <1>11, <1>12, <1>13

\* What a copy leaves: zeros in the first table if there is no second, and in the
\* second one what the first held, or its repeated beginning.
IsCopied(new, D, m, first, second, size) ==
    /\ new \in [D -> Byte]
    /\ \A i \in 0..(Magnitude(size) - 1) :
         IF second = 0 THEN new[first + i] = 0
         ELSE new[second + i]
                = m[first + (i % (IF size < 0 THEN Period(second - first, -size)
                                  ELSE Magnitude(size)))]

LEMMA CopyTableIs ==
    ASSUME NEW D, NEW m \in [D -> Byte], NEW first \in Nat, NEW second \in Nat, NEW size \in Int,
           first..(first + Magnitude(size) - 1) \subseteq D,
           second = 0 \/ second..(second + Magnitude(size) - 1) \subseteq D
    PROVE  IsCopied(CopyTable(m, first, second, size), D, m, first, second, size)
<1> USE DEF IsCopied
<1> DEFINE n == Magnitude(size)
           new == CopyTable(m, first, second, size)
<1>1. n \in Nat /\ n = (IF size < 0 THEN -size ELSE size)
    BY DEF Magnitude
<1>2. CASE second = 0
  <2> DEFINE zeros == [i \in 1..n |-> 0]
  <2>1. zeros \in Seq(Byte) /\ Len(zeros) = n /\ \A i \in 1..n : zeros[i] = 0
      BY <1>1 DEF Byte
  <2>2. new = WriteSlice(m, first, zeros)
      BY <1>1, <1>2, Zenon DEF CopyTable
  <2> HIDE DEF zeros, n
  <2>3. /\ WriteSlice(m, first, zeros) \in [D -> Byte]
        /\ \A k \in 1..Len(zeros) :
             first + k - 1 \in D => WriteSlice(m, first, zeros)[first + k - 1] = zeros[k]
      BY <2>1, SliceWritten
  <2>4. \A i \in 0..(n - 1) : /\ i + 1 \in 1..n /\ first + (i + 1) - 1 = first + i
                              /\ first + i \in D
    <3>1. first..(first + n - 1) \subseteq D
        BY DEF n
    <3> QED
        BY <1>1, <3>1
  <2>5. \A i \in 0..(n - 1) : WriteSlice(m, first, zeros)[first + i] = 0
      BY <2>1, <2>3, <2>4
  <2> QED
      BY <1>2, <2>2, <2>3, <2>5 DEF n
<1>3. CASE second # 0 /\ size >= 0
  <2> DEFINE held == ReadSlice(m, first, first + n)
  <2>1. /\ first..(first + n - 1) \subseteq D /\ second..(second + n - 1) \subseteq D
        /\ size = n /\ ~(size < 0)
      BY <1>1, <1>3
  <2> HIDE DEF n
  <2>2. held \in Seq(Byte) /\ Len(held) = n /\ \A i \in 1..n : held[i] = m[first + i - 1]
    <3>1. (first + n) - first = n /\ \A i \in 1..n : first + i - 1 \in D
        BY <1>1, <2>1
    <3>2. held = [i \in 1..n |-> m[first + i - 1]]
        BY <3>1 DEF ReadSlice
    <3>3. held \in [1..n -> Byte]
        BY <3>1, <3>2
    <3> HIDE DEF held
    <3>4. held \in Seq(Byte) /\ Len(held) = n
        BY <1>1, <3>3
    <3> QED
        BY <3>2, <3>4
  <2>3. new = WriteSlice(m, second, held)
      BY <1>1, <1>3, Zenon DEF CopyTable, n
  <2> HIDE DEF held
  <2>4. /\ WriteSlice(m, second, held) \in [D -> Byte]
        /\ \A k \in 1..Len(held) :
             second + k - 1 \in D => WriteSlice(m, second, held)[second + k - 1] = held[k]
      BY <2>2, SliceWritten
  <2>5. \A i \in 0..(n - 1) : /\ i + 1 \in 1..n /\ second + (i + 1) - 1 = second + i
                              /\ second + i \in D /\ first + (i + 1) - 1 = first + i
      BY <1>1, <2>1
  <2>6. \A i \in 0..(n - 1) : i % n = i
      BY <1>1, SmallRemainder
  <2>7. \A i \in 0..(n - 1) : WriteSlice(m, second, held)[second + i] = m[first + (i % n)]
    <3> SUFFICES ASSUME NEW i \in 0..(n - 1)
                 PROVE  WriteSlice(m, second, held)[second + i] = m[first + (i % n)]
        OBVIOUS
    <3>1. held[i + 1] = m[first + i] /\ i % n = i
        BY <2>2, <2>5, <2>6
    <3>2. WriteSlice(m, second, held)[second + i] = held[i + 1]
        BY <2>2, <2>4, <2>5
    <3> QED
        BY <3>1, <3>2
  <2> QED
      BY <1>3, <2>1, <2>3, <2>4, <2>7 DEF n
<1>4. CASE second # 0 /\ size < 0
  <2>1. n = -size /\ first + n - 1 = first - size - 1 /\ second + n - 1 = second - size - 1
      BY <1>1, <1>4
  <2>2. first..(first - size - 1) \subseteq D /\ second..(second - size - 1) \subseteq D
      BY <1>4, <2>1
  <2>3. /\ new \in [D -> Byte]
        /\ \A i \in 0..(-size - 1) :
             new[second + i] = m[first + (i % Period(second - first, -size))]
      BY <1>4, <2>2, CopiedForward
  <2> HIDE DEF new
  <2>4. /\ new \in [D -> Byte]
        /\ \A i \in 0..(n - 1) :
             new[second + i] = m[first + (i % Period(second - first, -size))]
      BY <2>1, <2>3
  <2> QED
      BY <1>4, <2>4 DEF n, new
<1> QED
    BY <1>2, <1>3, <1>4

-----------------------------------------------------------------------------
(* SCAN_TABLE.                                                              *)

\* The value of a field, and the first field that holds one.
FieldValue(m, table, form, i) ==
    LET field == table + i * (form % 128)
    IN IF form % 256 >= 128 THEN ReadHalfWord(m, field) ELSE m[field]

IsFirst(result, m, test, table, length, form) ==
    \/ \E i \in 0..(length - 1) :
         /\ result = table + i * (form % 128) /\ test = FieldValue(m, table, form, i)
         /\ \A j \in 0..(i - 1) : test # FieldValue(m, table, form, j)
    \/ result = 0 /\ \A i \in 0..(length - 1) : test # FieldValue(m, table, form, i)

LEMMA ScanTableIs ==
    ASSUME NEW m, NEW test, NEW table \in Nat, NEW length \in Nat, NEW form \in Nat, form % 128 # 0
    PROVE  IsFirst(ScanTable(m, test, table, length, form), m, test, table, length, form)
<1> DEFINE result == ScanTable(m, test, table, length, form)
           field == form % 128
           At(i) == IF CheckWord(form) THEN ReadHalfWord(m, table + i * field)
                    ELSE m[table + i * field]
           found == {i \in 0..(length - 1) : At(i) = test}
           first == CHOOSE i \in found : \A j \in found : i <= j
<1>1. result = IF field = 0 \/ found = {} THEN 0 ELSE table + field * first
    BY Zenon DEF ScanTable
<1>2. \A i \in 0..(length - 1) : i \in Nat /\ FieldValue(m, table, form, i) = At(i)
  <2>1. CheckWord(form) <=> form % 256 >= 128
      BY DEF CheckWord
  <2> QED
      BY <2>1 DEF FieldValue
<1>3. field \in Nat /\ field # 0
    BY DividedBy
<1> HIDE DEF result, field, At
<1>4. CASE found = {}
  <2>1. \A i \in 0..(length - 1) : At(i) # test
      BY <1>4
  <2> QED
      BY <1>1, <1>2, <1>4, <2>1 DEF result, IsFirst
<1>5. CASE found # {}
  <2>1. found \subseteq Nat
      OBVIOUS
  <2>2. \E i \in found : \A j \in found : i <= j
      BY <1>5, <2>1, LeastElement
  <2>3. first \in found /\ \A j \in found : first <= j
      BY <2>2
  <2> HIDE DEF first
  <2>4. first \in 0..(length - 1) /\ At(first) = test
      BY <2>3
  <2>5. \A j \in 0..(first - 1) : j \in 0..(length - 1) /\ ~(first <= j)
      BY <2>4
  <2>6. \A j \in 0..(first - 1) : At(j) # test
      BY <2>3, <2>5
  <2>7. result = table + first * field
    <3>1. field * first = first * field
        BY <1>3, <2>4, SMT
    <3> QED
        BY <1>1, <1>3, <1>5, <3>1, Zenon
  <2>8. test = FieldValue(m, table, form, first)
        /\ \A j \in 0..(first - 1) : test # FieldValue(m, table, form, j)
      BY <1>2, <2>4, <2>5, <2>6
  <2> QED
      BY <2>4, <2>7, <2>8 DEF result, field, IsFirst
<1> QED
    BY <1>4, <1>5

-----------------------------------------------------------------------------
(* PRINT_TABLE.                                                             *)

\* A new line begins a row after the first.
LEMMA RowsGrow ==
    ASSUME NEW w \in Nat \ {0}, NEW i \in Nat
    PROVE  (i + 1) \div w = IF (i + 1) % w = 0 THEN (i \div w) + 1 ELSE i \div w
<1> DEFINE a == i \div w
           q == i % w
<1>1. i = w * a + q /\ a \in Nat /\ q \in Nat /\ q < w
    BY DividedBy
<1> DEFINE v == i + 1
<1> HIDE DEF a, q
<1>2. CASE q + 1 < w
  <2>1. v = w * a + (q + 1) /\ q + 1 \in Nat
    <3>1. w * a \in Nat
        BY <1>1, SMT
    <3> QED
        BY <1>1, <3>1
  <2> HIDE DEF v
  <2>2. v \div w = a /\ v % w = q + 1
    <3> DEFINE r == q + 1
    <3>1. r \in Nat /\ r < w /\ v = w * a + r
        BY <1>2, <2>1
    <3> HIDE DEF r
    <3>2. v \div w = a /\ v % w = r
        BY <1>1, <3>1, DivisionIs
    <3> QED
        BY <3>2 DEF r
  <2> QED
      BY <1>1, <2>2 DEF a, v
<1>3. CASE ~(q + 1 < w)
  <2>1. v = w * (a + 1) + 0 /\ a + 1 \in Nat
    <3>1. w * (a + 1) = w * a + w /\ w * a \in Nat
        BY <1>1, SMT
    <3> QED
        BY <1>1, <1>3, <3>1
  <2> HIDE DEF v
  <2>2. v \div w = a + 1 /\ v % w = 0
      BY <1>1, <2>1, DivisionIs
  <2> QED
      BY <2>2 DEF a, v
<1> QED
    BY <1>2, <1>3

LEMMA RowsFollow ==
    ASSUME NEW w \in Nat \ {0}, NEW i \in Nat, NEW j \in Nat, i <= j
    PROVE  i \div w <= j \div w
<1> DEFINE a == i \div w
           b == j \div w
           q == i % w
           r == j % w
<1>1. /\ i = w * a + q /\ a \in Nat /\ q \in Nat /\ q < w
      /\ j = w * b + r /\ b \in Nat /\ r \in Nat /\ r < w
    BY DividedBy
<1> HIDE DEF a, b, q, r
<1>2. b < a => w * b + w <= w * a
    BY <1>1, SMT
<1>3. w * a \in Nat /\ w * b \in Nat
    BY <1>1, SMT
<1>4. ~(b < a)
    BY <1>1, <1>2, <1>3
<1> QED
    BY <1>1, <1>4 DEF a, b

\* The number of characters printed before the one of place i, a new line just
\* before it not counted, and the place of that character in the text.
StartsRow(w, i) == i % w = 0 /\ i > 0
Before(w, i) == IF i = 0 THEN 0 ELSE i + ((i - 1) \div w)
Place(w, i) == i + (i \div w) + 1

LEMMA PlacesFollow ==
    ASSUME NEW w \in Nat \ {0}, NEW i \in Nat
    PROVE  /\ Before(w, i) \in Nat /\ Place(w, i) \in Nat
           /\ Place(w, i) = Before(w, i) + 1 + (IF StartsRow(w, i) THEN 1 ELSE 0)
           /\ Before(w, i + 1) = Place(w, i)
           /\ \A j \in Nat : i < j => /\ Place(w, i) < Place(w, j)
                                      /\ StartsRow(w, j) => Place(w, i) + 1 < Place(w, j)
<1>1. \A k \in Nat : k \div w \in Nat
    BY DividedBy
<1>2. 0 \div w = 0
  <2>1. 0 = w * 0 + 0 /\ 0 \in Nat /\ 0 < w
      BY SMT
  <2> QED
      BY <2>1, DivisionIs
<1>3. \A k \in Nat \ {0} : k \div w = ((k - 1) \div w) + (IF k % w = 0 THEN 1 ELSE 0)
  <2> SUFFICES ASSUME NEW k \in Nat \ {0}
               PROVE  k \div w = ((k - 1) \div w) + (IF k % w = 0 THEN 1 ELSE 0)
      OBVIOUS
  <2>1. k - 1 \in Nat /\ (k - 1) + 1 = k
      OBVIOUS
  <2>2. k \div w = IF k % w = 0 THEN ((k - 1) \div w) + 1 ELSE (k - 1) \div w
      BY <2>1, RowsGrow
  <2>3. (k - 1) \div w \in Nat
      BY <1>1, <2>1
  <2> QED
      BY <2>2, <2>3
<1>4. Before(w, i) \in Nat /\ Place(w, i) \in Nat
  <2>1. i # 0 => i - 1 \in Nat
      OBVIOUS
  <2> QED
      BY <1>1, <2>1 DEF Before, Place
<1>5. Place(w, i) = Before(w, i) + 1 + (IF StartsRow(w, i) THEN 1 ELSE 0)
  <2>1. CASE i = 0
      BY <1>2, <2>1 DEF Place, Before, StartsRow
  <2>2. CASE i # 0
    <3>1. i \div w = ((i - 1) \div w) + (IF i % w = 0 THEN 1 ELSE 0)
        BY <1>3, <2>2
    <3>2. (i - 1) \div w \in Nat /\ i > 0
        BY <1>1, <2>2
    <3> QED
        BY <2>2, <3>1, <3>2 DEF Place, Before, StartsRow
  <2> QED
      BY <2>1, <2>2
<1>6. Before(w, i + 1) = Place(w, i)
  <2>1. i + 1 # 0 /\ (i + 1) - 1 = i
      OBVIOUS
  <2>2. i \div w \in Nat
      BY <1>1
  <2> QED
      BY <2>1, <2>2 DEF Before, Place
<1>7. ASSUME NEW j \in Nat, i < j
      PROVE  /\ Place(w, i) < Place(w, j)
             /\ StartsRow(w, j) => Place(w, i) + 1 < Place(w, j)
  <2>1. j - 1 \in Nat /\ i <= j - 1 /\ j # 0
      BY <1>7
  <2>2. i \div w <= (j - 1) \div w
      BY <2>1, RowsFollow
  <2>3. j \div w = ((j - 1) \div w) + (IF j % w = 0 THEN 1 ELSE 0)
      BY <1>3, <2>1
  <2>4. i \div w \in Nat /\ (j - 1) \div w \in Nat
      BY <1>1, <2>1
  <2> QED
      BY <1>7, <2>2, <2>3, <2>4 DEF Place, StartsRow
<1> QED
    BY <1>4, <1>5, <1>6, <1>7

NewLine == <<10>>

\* A character, with or without a new line, before a text.
LEMMA PutBefore ==
    ASSUME NEW V, NEW c \in V, 10 \in V, NEW line \in BOOLEAN, NEW rest \in Seq(V),
           NEW s, s = (IF line THEN NewLine ELSE <<>>) \o (<<c>> \o rest),
           NEW k, k = IF line THEN 1 ELSE 0
    PROVE  /\ s \in Seq(V) /\ Len(s) = k + 1 + Len(rest) /\ Len(rest) \in Nat
           /\ s[k + 1] = c /\ (line => s[1] = 10)
           /\ \A i \in 1..Len(rest) : s[k + 1 + i] = rest[i]
<1> DEFINE t == <<c>> \o rest
<1>1. Len(rest) \in Nat
    BY LenProperties
<1>2. /\ t \in Seq(V) /\ Len(t) = 1 + Len(rest)
      /\ t[1] = c /\ \A i \in 1..Len(rest) : t[1 + i] = rest[i]
  <2>1. <<c>> \in Seq(V) /\ Len(<<c>>) = 1 /\ <<c>>[1] = c
      OBVIOUS
  <2>2. /\ t \in Seq(V) /\ Len(t) = 1 + Len(rest)
        /\ \A i \in 1..(1 + Len(rest)) : t[i] = IF i <= 1 THEN <<c>>[i] ELSE rest[i - 1]
      BY <2>1, ConcatProperties
  <2> HIDE DEF t
  <2> QED
      BY <1>1, <2>1, <2>2
<1>3. CASE line
  <2>1. NewLine \in Seq(V) /\ Len(NewLine) = 1 /\ NewLine[1] = 10
      BY DEF NewLine
  <2>2. s = NewLine \o t /\ k = 1
      BY <1>3 DEF NewLine
  <2> HIDE DEF t
  <2>3. /\ s \in Seq(V) /\ Len(s) = 1 + Len(t)
        /\ \A i \in 1..(1 + Len(t)) : s[i] = IF i <= 1 THEN NewLine[i] ELSE t[i - 1]
      BY <1>2, <2>1, <2>2, ConcatProperties DEF NewLine
  <2> QED
      BY <1>1, <1>2, <2>1, <2>2, <2>3 DEF NewLine
<1>4. CASE ~line
  <2>1. s = t /\ k = 0
    <3>1. s = <<>> \o t /\ k = 0
        BY <1>4
    <3> HIDE DEF t
    <3> QED
        BY <1>2, <3>1, ConcatEmptySeq
  <2> HIDE DEF t
  <2> QED
      BY <1>1, <1>2, <1>4, <2>1
<1> QED
    BY <1>3, <1>4

\* f[i] is the text that is printed from character i of the table on.
PrintsFrom(f, m, table, width, height, skip) ==
    /\ \A i \in 0..(m[table] - 1) :
         f[i] = (IF i % width = 0 /\ i > 0 THEN <<10>> ELSE <<>>) \o
                (IF i % width = 0 /\ i > 0 /\ i \div width = height THEN <<>>
                 ELSE <<m[table + i + Word(skip * (i \div width))]>> \o f[i + 1])
    /\ f[m[table]] = <<>>

\* What PRINT_TABLE prints is a solution of its equation.
LEMMA PrintTableUnfolds ==
    ASSUME NEW m, NEW table, m[table] \in Nat, NEW width, NEW height, NEW skip
    PROVE  \E f : /\ PrintTable(m, table, width, height, skip) = f[0]
                  /\ PrintsFrom(f, m, table, width, height, skip)
<1> DEFINE n == m[table]
           Piece(i, rest) ==
             (IF i % width = 0 /\ i > 0 THEN <<10>> ELSE <<>>) \o
             (IF i % width = 0 /\ i > 0 /\ i \div width = height THEN <<>>
              ELSE <<m[table + i + Word(skip * (i \div width))]>> \o rest)
           P(f) == f = [i \in 0..n |-> IF i = n THEN <<>> ELSE Piece(i, f[i + 1])]
           From(f, k) == f = [i \in k..n |-> IF i = n THEN <<>> ELSE Piece(i, f[i + 1])]
           T == {k \in 0..n : ~\E f : From(f, n - k)}
<1>1. PrintTable(m, table, width, height, skip) = (CHOOSE f : P(f))[0]
    BY Zenon DEF PrintTable
<1> HIDE DEF Piece
<1>2. ASSUME T # {} PROVE FALSE
  <2>1. T \subseteq Nat
      OBVIOUS
  <2>2. PICK k \in T : \A j \in T : k <= j
      BY <1>2, <2>1, LeastElement
  <2>3. k \in 0..n /\ ~\E f : From(f, n - k)
      BY <2>2
  <2>4. CASE k = 0
    <3> DEFINE f == [i \in n..n |-> <<>>]
    <3>1. n - k = n
        BY <2>4
    <3>2. \A i \in n..n : i = n
        OBVIOUS
    <3>3. f = [i \in n..n |-> IF i = n THEN <<>> ELSE Piece(i, f[i + 1])]
        BY <3>2
    <3> HIDE DEF f
    <3> QED
        BY <2>3, <3>1, <3>3
  <2>5. CASE k # 0
    <3> DEFINE a == n - k
    <3>1. k - 1 \in 0..n /\ ~(k <= k - 1) /\ n - (k - 1) = a + 1 /\ a \in Nat /\ a < n
        BY <2>3, <2>5
    <3>2. k - 1 \notin T
        BY <2>2, <3>1
    <3>3. PICK f : From(f, a + 1)
      <4>1. \E f : From(f, n - (k - 1))
          BY <3>1, <3>2
      <4> QED
          BY <3>1, <4>1, Zenon
    <3> HIDE DEF a
    <3> DEFINE g == [i \in a..n |-> IF i = a THEN Piece(a, f[a + 1]) ELSE f[i]]
    <3>4. \A i \in a..n : g[i] = IF i = n THEN <<>> ELSE Piece(i, g[i + 1])
      <4> SUFFICES ASSUME NEW i \in a..n
                   PROVE  g[i] = IF i = n THEN <<>> ELSE Piece(i, g[i + 1])
          OBVIOUS
      <4>1. CASE i = a
        <5>1. a + 1 \in a..n /\ a + 1 # a /\ a # n
            BY <3>1
        <5>2. g[a + 1] = f[a + 1] /\ g[a] = Piece(a, f[a + 1])
            BY <4>1, <5>1
        <5> QED
            BY <4>1, <5>1, <5>2
      <4>2. CASE i # a
        <5>1. i \in (a + 1)..n /\ (i # n => i + 1 \in a..n /\ i + 1 # a)
            BY <3>1, <4>2
        <5>2. g[i] = f[i] /\ (i # n => g[i + 1] = f[i + 1])
            BY <4>2, <5>1
        <5>3. f[i] = IF i = n THEN <<>> ELSE Piece(i, f[i + 1])
            BY <3>3, <5>1
        <5> QED
            BY <5>2, <5>3
      <4> QED
          BY <4>1, <4>2
    <3>5. g = [i \in a..n |-> g[i]]
        OBVIOUS
    <3> HIDE DEF g
    <3>6. From(g, a)
        BY <3>4, <3>5, Zenon
    <3> QED
        BY <2>3, <3>6 DEF a
  <2> QED
      BY <2>4, <2>5
<1>3. \E f : P(f)
  <2>1. n \in 0..n /\ n - n = 0
      OBVIOUS
  <2>2. \E f : From(f, n - n)
      BY <1>2, <2>1
  <2> QED
      BY <2>1, <2>2
<1> DEFINE f == CHOOSE f : P(f)
<1>4. P(f)
    BY <1>3, Zenon
<1> HIDE DEF f
<1>5. \A i \in 0..(n - 1) : i \in 0..n /\ i # n
    OBVIOUS
<1>6. \A i \in 0..(n - 1) : f[i] = Piece(i, f[i + 1])
    BY <1>4, <1>5
<1>7. f[n] = <<>>
    BY <1>4
<1>8. PrintTable(m, table, width, height, skip) = f[0]
    BY <1>1 DEF f
<1>9. PrintsFrom(f, m, table, width, height, skip)
    BY <1>6, <1>7 DEF Piece, PrintsFrom
<1> QED
    BY <1>8, <1>9

\* The first n characters of a table are at their places in the text.
InPlace(text, m, table, w, n, skip) ==
    \A j \in 0..(n - 1) :
      /\ Place(w, j) <= Len(text)
      /\ text[Place(w, j)] = m[table + j + Word(skip * (j \div w))]
      /\ StartsRow(w, j) => text[Place(w, j) - 1] = 10

\* Up to where it stops, the text has the characters of the rows at their places,
\* and a new line before each row but the first.
LEMMA PrintedPlaces ==
    ASSUME NEW m, NEW table, m[table] \in Nat, NEW w \in Nat \ {0}, NEW h \in Nat \ {0}, NEW skip,
           w * h <= m[table],
           NEW text, text = PrintTable(m, table, w, h, skip)
    PROVE  \E V : text \in Seq(V) /\ InPlace(text, m, table, w, w * h, skip)
<1> DEFINE e == w * h
           Char(j) == m[table + j + Word(skip * (j \div w))]
           V == {Char(j) : j \in 0..(e - 1)} \cup {10}
<1>1. e \in Nat /\ e # 0 /\ e <= m[table]
  <2>1. \A a, b \in Nat \ {0} : a * b \in Nat \ {0}
      BY SMT
  <2> QED
      BY <2>1
<1>2. PICK f : /\ PrintTable(m, table, w, h, skip) = f[0]
               /\ PrintsFrom(f, m, table, w, h, skip)
    BY PrintTableUnfolds
\* Before the end of the last row another character follows.
<1>3. ASSUME NEW i \in 0..(e - 1)
      PROVE  f[i] = (IF StartsRow(w, i) THEN <<10>> ELSE <<>>) \o (<<Char(i)>> \o f[i + 1])
  <2>1. i \in 0..(m[table] - 1) /\ i \in Nat
      BY <1>1
  <2>2. i \div w # h
    <3>1. i = w * (i \div w) + (i % w) /\ i % w \in Nat
        BY <2>1, DividedBy
    <3>2. i < w * h
        BY <1>1
    <3> QED
        BY <3>1, <3>2
  <2>3. f[i] = (IF i % w = 0 /\ i > 0 THEN <<10>> ELSE <<>>) \o
               (IF i % w = 0 /\ i > 0 /\ i \div w = h THEN <<>>
                ELSE <<m[table + i + Word(skip * (i \div w))]>> \o f[i + 1])
      BY <1>2, <2>1, Zenon DEF PrintsFrom
  <2> QED
      BY <2>2, <2>3, Zenon DEF StartsRow
<1> HIDE DEF e
\* The last row is followed by a new line or nothing.
<1>4. f[e] \in Seq(V)
  <2>1. CASE e = m[table]
      BY <1>2, <2>1, EmptySeq DEF PrintsFrom
  <2>2. CASE e # m[table]
    <3>1. e = w * h + 0 /\ 0 < w
        BY <1>1 DEF e
    <3>2. e \div w = h /\ e % w = 0
        BY <3>1, DivisionIs
    <3>3. e \in 0..(m[table] - 1) /\ e > 0
        BY <1>1, <2>2
    <3>4. f[e] = <<10>> \o <<>>
        BY <1>2, <3>2, <3>3, Zenon DEF PrintsFrom
    <3>5. <<10>> \in Seq(V)
        OBVIOUS
    <3> QED
        BY <3>4, <3>5, ConcatEmptySeq
  <2> QED
      BY <2>1, <2>2
<1> DEFINE Right(i) ==
             /\ f[i] \in Seq(V)
             /\ \A j \in i..(e - 1) :
                  /\ Place(w, j) - Before(w, i) <= Len(f[i])
                  /\ f[i][Place(w, j) - Before(w, i)] = Char(j)
                  /\ StartsRow(w, j) => f[i][Place(w, j) - Before(w, i) - 1] = 10
           T == {k \in 0..e : ~Right(e - k)}
<1>5. ASSUME NEW i \in 0..(e - 1), Right(i + 1) PROVE Right(i)
  <2> DEFINE k == IF StartsRow(w, i) THEN 1 ELSE 0
             b == Before(w, i)
  <2>1. /\ b \in Nat /\ k \in {0, 1} /\ Place(w, i) = b + 1 + k /\ Before(w, i + 1) = b + 1 + k
        /\ \A j \in Nat : /\ Place(w, j) \in Nat
                          /\ i < j => /\ b + 1 + k < Place(w, j)
                                      /\ StartsRow(w, j) => b + 1 + k + 1 < Place(w, j)
    <3>1. i \in Nat
        BY <1>1
    <3>2. \A j \in Nat : Place(w, j) \in Nat
        BY PlacesFollow
    <3> QED
        BY <3>1, <3>2, PlacesFollow
  <2>2. Char(i) \in V /\ 10 \in V
      OBVIOUS
  <2> HIDE DEF V, Char
  <2>3. f[i] = (IF StartsRow(w, i) THEN <<10>> ELSE <<>>) \o (<<Char(i)>> \o f[i + 1])
      BY <1>3
  <2>4. f[i + 1] \in Seq(V)
      BY <1>5
  <2>5. /\ f[i] \in Seq(V) /\ Len(f[i]) = k + 1 + Len(f[i + 1]) /\ Len(f[i + 1]) \in Nat
        /\ f[i][k + 1] = Char(i) /\ (StartsRow(w, i) => f[i][1] = 10)
        /\ \A l \in 1..Len(f[i + 1]) : f[i][k + 1 + l] = f[i + 1][l]
    <3> DEFINE line == StartsRow(w, i)
               c == Char(i)
               rest == f[i + 1]
               s == f[i]
    <3>1. line \in BOOLEAN /\ k = IF line THEN 1 ELSE 0
        BY DEF StartsRow
    <3>2. /\ c \in V /\ 10 \in V /\ rest \in Seq(V)
          /\ s = (IF line THEN NewLine ELSE <<>>) \o (<<c>> \o rest)
        BY <2>2, <2>3, <2>4 DEF NewLine
    <3> HIDE DEF k, line, c, rest, s
    <3>3. /\ s \in Seq(V) /\ Len(s) = k + 1 + Len(rest) /\ Len(rest) \in Nat
          /\ s[k + 1] = c /\ (line => s[1] = 10)
          /\ \A l \in 1..Len(rest) : s[k + 1 + l] = rest[l]
        BY <3>1, <3>2, PutBefore, SMTT(20) DEF NewLine
    <3> QED
        BY <3>3 DEF line, c, rest, s
  <2> HIDE DEF k, b
  <2>6. ASSUME NEW j \in i..(e - 1)
        PROVE  /\ Place(w, j) - b <= Len(f[i])
               /\ f[i][Place(w, j) - b] = Char(j)
               /\ StartsRow(w, j) => f[i][Place(w, j) - b - 1] = 10
    <3>1. CASE j = i
      <4>1. Place(w, i) - b = k + 1 /\ k + 1 <= Len(f[i])
        <5>1. k \in Nat /\ b \in Nat /\ Place(w, i) = b + 1 + k
            BY <2>1
        <5>2. Place(w, i) - b = k + 1
            BY <5>1
        <5>3. Len(f[i]) = k + 1 + Len(f[i + 1]) /\ Len(f[i + 1]) \in Nat
            BY <2>5
        <5>4. k + 1 <= Len(f[i])
          <6> DEFINE n == Len(f[i + 1])
          <6>1. n \in Nat
              BY <5>3
          <6> HIDE DEF n
          <6>2. k + 1 <= k + 1 + n
              BY <5>1, <6>1
          <6> QED
              BY <5>3, <6>2 DEF n
        <5> QED
            BY <5>2, <5>4
      <4>2. StartsRow(w, i) => Place(w, i) - b - 1 = 1
          BY <2>1, <3>1 DEF k
      <4> QED
          BY <2>5, <3>1, <4>1, <4>2
    <3>2. CASE j # i
      <4> DEFINE l == Place(w, j) - (b + 1 + k)
      <4>1. j \in (i + 1)..(e - 1) /\ j \in Nat /\ i < j
          BY <1>1, <3>2
      <4>2. /\ l <= Len(f[i + 1]) /\ f[i + 1][l] = Char(j)
            /\ StartsRow(w, j) => f[i + 1][l - 1] = 10
          BY <1>5, <2>1, <4>1
      <4>3. /\ l \in Nat /\ l >= 1 /\ (StartsRow(w, j) => l - 1 >= 1)
            /\ Place(w, j) - b = k + 1 + l /\ Place(w, j) - b - 1 = k + 1 + (l - 1)
          BY <2>1, <4>1
      <4> HIDE DEF l
      <4>4. l \in 1..Len(f[i + 1]) /\ (StartsRow(w, j) => l - 1 \in 1..Len(f[i + 1]))
          BY <2>5, <4>2, <4>3
      <4>5. k + 1 + l <= Len(f[i])
          BY <2>1, <2>5, <4>2, <4>3
      <4> QED
          BY <2>5, <4>2, <4>3, <4>4, <4>5
    <3> QED
        BY <3>1, <3>2
  <2> QED
      BY <2>5, <2>6 DEF b
<1>6. ASSUME T # {} PROVE FALSE
  <2>1. T \subseteq Nat
      BY <1>1
  <2> HIDE DEF Right
  <2>2. PICK k \in T : \A j \in T : k <= j
      BY <1>6, <2>1, LeastElement
  <2>3. k \in 0..e /\ ~Right(e - k)
      BY <2>2
  <2>4. CASE k = 0
    <3>1. Right(e)
      <4>1. \A j : j \notin e..(e - 1)
          BY <1>1
      <4> QED
          BY <1>4, <4>1 DEF Right
    <3>2. e - k = e
        BY <1>1, <2>4
    <3> QED
        BY <2>3, <3>1, <3>2
  <2>5. CASE k # 0
    <3>1. k - 1 \in 0..e /\ ~(k <= k - 1) /\ e - (k - 1) = (e - k) + 1 /\ e - k \in 0..(e - 1)
        BY <1>1, <2>3, <2>5
    <3>2. Right(e - (k - 1))
        BY <2>2, <3>1
    <3>3. Right((e - k) + 1)
        BY <3>1, <3>2
    <3> QED
        BY <1>5, <2>3, <3>1, <3>3
  <2> QED
      BY <2>4, <2>5
<1>7. Right(0)
  <2>1. e \in 0..e /\ e - e = 0
      BY <1>1
  <2> HIDE DEF Right
  <2>2. Right(e - e)
      BY <1>6, <2>1
  <2> QED
      BY <2>1, <2>2
<1>8. \A j \in 0..(e - 1) : Place(w, j) - Before(w, 0) = Place(w, j)
  <2>1. Before(w, 0) = 0 /\ \A j \in Nat : Place(w, j) \in Nat
      BY PlacesFollow DEF Before
  <2> QED
      BY <2>1
<1>9. text \in Seq(V) /\ InPlace(text, m, table, w, e, skip)
    BY <1>2, <1>7, <1>8 DEF InPlace
<1> QED
    BY <1>9, Zenon DEF e

LEMMA CutIs ==
    ASSUME NEW text, NEW a \in Nat, NEW w \in Nat \ {0}
    PROVE  SubSeq(text, a + 1, a + w) = [i \in 1..w |-> text[a + i]]
<1> DEFINE x == a + 1
           y == a + w
           S == {text[i] : i \in x..y}
           part == SubSeq(text, x, y)
<1>1. x \in Int /\ y \in Int /\ y - x + 1 = w /\ x <= y /\ \A i \in 1..w : x + i - 1 = a + i
    OBVIOUS
<1>2. \A i \in x..y : text[i] \in S
    OBVIOUS
<1> HIDE DEF x, y, S
<1>3. /\ part \in Seq(S)
      /\ Len(part) = IF x <= y THEN y - x + 1 ELSE 0
      /\ \A i \in 1..(y - x + 1) : part[i] = text[x + i - 1]
    BY <1>1, <1>2, SubSeqProperties
<1> HIDE DEF part
<1>4. part \in Seq(S) /\ Len(part) = w /\ \A i \in 1..w : part[i] = text[a + i]
    BY <1>1, <1>3
<1>5. part = [i \in 1..w |-> text[a + i]]
    BY <1>4, LenProperties
<1> QED
    BY <1>5, Zenon DEF part, x, y

\* A row of the table is in its place in the text, after a new line.
RowIs(text, m, table, w, skip, row) ==
    LET start == table + row * (w + skip)
    IN /\ SubSeq(text, row * (w + 1) + 1, row * (w + 1) + w) = ReadSlice(m, start, start + w)
       /\ row > 0 => text[row * (w + 1)] = 10

LEMMA WordIs ==
    ASSUME NEW n \in Int
    PROVE  n \in Word16 <=> 0 <= n /\ n < 65536
<1>1. Word16 = HalfWords
    BY DEF Word16, HalfWords, HighestWord
<1>2. n < 0 => n \notin HalfWords
    BY DEF HalfWords
<1> QED
    BY <1>1, <1>2, HalfWordRange

LEMMA WordsAreNumbers == \A a \in Word16 : a \in Nat /\ a < 65536
BY DEF Word16

\* A number below that of a word is the number of a word.
LEMMA SmallWord ==
    ASSUME NEW x \in Nat, NEW y \in Word16, x <= y
    PROVE  x \in Word16 /\ Word(x) = x
<1>1. y \in Int /\ y < 65536
    BY WordsAreNumbers
<1>2. x \in Int /\ 0 <= x /\ x < 65536
    BY <1>1
<1>3. x \in Word16
    BY <1>2, WordIs
<1>4. x % 65536 = x
    BY <1>2, SmallRemainder
<1> QED
    BY <1>3, <1>4 DEF Word

\* A table that is not cut is printed row by row.
LEMMA PrintTableIs ==
    ASSUME NEW m, NEW table \in Int, m[table] \in Nat, NEW w \in Nat \ {0}, NEW h \in Nat,
           NEW skip \in Nat, skip * (h - 1) \in Word16, w * h <= m[table], NEW row \in 0..(h - 1)
    PROVE  RowIs(PrintTable(m, table, w, h, skip), m, table, w, skip, row)
<1> DEFINE text == PrintTable(m, table, w, h, skip)
           start == table + row * (w + skip)
           a == row * (w + 1)
           d == row * w
           e == w * h
<1>1. h \in Nat \ {0} /\ row \in Nat
    OBVIOUS
<1>2. \A j \in 0..(e - 1) :
        /\ Place(w, j) <= Len(text)
        /\ text[Place(w, j)] = m[table + j + Word(skip * (j \div w))]
        /\ StartsRow(w, j) => text[Place(w, j) - 1] = 10
  <2>1. \E V : text \in Seq(V) /\ InPlace(text, m, table, w, e, skip)
      BY <1>1, PrintedPlaces, Zenon
  <2> QED
      BY <2>1 DEF InPlace
<1>3. /\ d \in Nat /\ e \in Nat /\ a \in Nat /\ a = d + row /\ d + w <= e
      /\ start = table + d + skip * row /\ d = w * row /\ (row > 0 => d > 0)
  <2>1. \A x, y \in Nat : x * y \in Nat /\ x * (y + 1) = x * y + x /\ x * y = y * x
      BY SMT
  <2>2. \A x, y, z \in Nat : x * (y + z) = x * y + x * z
      BY SMT
  <2>3. d \in Nat /\ e \in Nat /\ a = d + row /\ d = w * row /\ row * (w + skip) = d + skip * row
      BY <1>1, <2>1, <2>2
  <2>4. d + w <= e
    <3>1. \A x, y \in Nat : x < y => w * x + w <= w * y
        BY SMT
    <3> QED
        BY <1>1, <2>3, <3>1
  <2>5. row > 0 => d > 0
    <3>1. \A x, y \in Nat \ {0} : x * y > 0
        BY SMT
    <3> QED
        BY <1>1, <3>1
  <2>6. start = table + (d + skip * row) /\ skip * row \in Nat
      BY <1>1, <2>1, <2>3
  <2> QED
      BY <1>1, <2>3, <2>4, <2>5, <2>6
<1> HIDE DEF a, d, e, start, text
<1>4. ASSUME NEW c \in 0..(w - 1)
      PROVE  /\ d + c \in 0..(e - 1)
             /\ (d + c) \div w = row /\ (d + c) % w = c
             /\ Place(w, d + c) = a + c + 1
             /\ a + c + 1 <= Len(text)
             /\ text[a + c + 1] = m[start + c]
  <2> DEFINE j == d + c
  <2>1. j \in 0..(e - 1) /\ c \in Nat /\ c < w /\ j = w * row + c
      BY <1>3
  <2>2. j \div w = row /\ j % w = c
      BY <1>1, <2>1, DivisionIs, Zenon
  <2>3. Place(w, j) = a + c + 1
      BY <1>1, <1>3, <2>1, <2>2 DEF Place
  <2>4. Place(w, j) <= Len(text) /\ text[Place(w, j)] = m[table + j + Word(skip * (j \div w))]
      BY <1>2, <2>1
  <2>5. table + j + Word(skip * row) = start + c
    <3> DEFINE p == skip * row
    <3>1. p \in Nat /\ Word(skip * row) = p
      <4>1. \A x, y, z \in Nat : y <= z => x * y \in Nat /\ x * y <= x * z
          BY SMT
      <4>2. h - 1 \in Nat /\ row <= h - 1
          BY <1>1
      <4>3. p \in Nat /\ p <= skip * (h - 1)
          BY <1>1, <4>1, <4>2
      <4> QED
          BY <4>3, SmallWord, Zenon
    <3>2. start = table + d + p
        BY <1>3
    <3> HIDE DEF p
    <3>3. table + j + p = start + c
        BY <1>3, <2>1, <3>1, <3>2
    <3> QED
        BY <3>1, <3>3 DEF p
  <2> QED
      BY <2>1, <2>2, <2>3, <2>4, <2>5
<1>5. SubSeq(text, a + 1, a + w) = ReadSlice(m, start, start + w)
  <2>1. start \in Int /\ w \in Nat
    <3>1. \A x, y \in Nat : x * y \in Nat
        BY SMT
    <3> QED
        BY <1>1, <3>1 DEF start
  <2>2. ASSUME NEW i \in 1..w PROVE text[a + i] = m[start + i - 1]
    <3>1. i - 1 \in 0..(w - 1) /\ a + (i - 1) + 1 = a + i /\ start + (i - 1) = start + i - 1
        BY <1>3, <2>1
    <3> QED
        BY <1>4, <3>1
  <2>3. [i \in 1..w |-> text[a + i]] = [i \in 1..w |-> m[start + i - 1]]
      BY <2>2
  <2>4. SubSeq(text, a + 1, a + w) = [i \in 1..w |-> text[a + i]]
      BY <1>3, CutIs
  <2>5. ReadSlice(m, start, start + w) = [i \in 1..w |-> m[start + i - 1]]
    <3>1. \A s \in Int : ReadSlice(m, s, s + w) = [i \in 1..w |-> m[s + i - 1]]
        BY <2>1 DEF ReadSlice
    <3> QED
        BY <2>1, <3>1, Zenon
  <2> QED
      BY <2>3, <2>4, <2>5
<1>6. row > 0 => text[a] = 10
  <2> SUFFICES ASSUME row > 0 PROVE text[a] = 10
      OBVIOUS
  <2>1. 0 \in 0..(w - 1) /\ d + 0 = d /\ a + 0 + 1 - 1 = a
      BY <1>3
  <2>2. d \in 0..(e - 1) /\ d % w = 0 /\ Place(w, d) = a + 0 + 1
      BY <1>4, <2>1
  <2>3. StartsRow(w, d)
      BY <1>3, <2>2 DEF StartsRow
  <2>4. text[Place(w, d) - 1] = 10
      BY <1>2, <2>2, <2>3
  <2>5. Place(w, d) - 1 = a
      BY <1>3, <2>2
  <2> QED
      BY <2>4, <2>5
<1> QED
    BY <1>5, <1>6, Zenon DEF text, start, a, RowIs

-----------------------------------------------------------------------------
(* The theorem.                                                             *)

LEMMA InitHolds == Init => StepsInv /\ StreamsInv /\ TablesHoldTheirText
<1> SUFFICES ASSUME Init PROVE StepsInv /\ StreamsInv /\ TablesHoldTheirText
    OBVIOUS
<1>1. last.name = "NONE" /\ story \in Stories /\ steps = 0 /\ memory = story.memory
      /\ undo = <<>> /\ promise = InitialPromise
      /\ streams = [Screen |-> TRUE, Transcript |-> FALSE, CommandScript |-> FALSE,
                    MemoryStreamData |-> <<>>]
    BY DEF Init
<1>2. StepsInv
    BY <1>1, InstructionsAssumption DEF StepsInv
<1>3. ASSUME story.program = "streams" PROVE StreamsHold
  <2>1. promise = <<>>
      BY <1>1, <1>3 DEF InitialPromise
  <2>2. memory \in Image
      BY <1>1, <1>2, <1>3, StoryOfStreams
  <2>3. streams \in Streams /\ streams.MemoryStreamData = <<>>
      BY <1>1, EmptySeq DEF Streams
  <2> QED
      BY <1>1, <2>1, <2>2, <2>3, EmptySeq DEF StreamsHold
<1>4. TablesHoldTheirText
    BY <1>1 DEF TablesHoldTheirText
<1> QED
    BY <1>2, <1>3, <1>4 DEF StreamsInv

LEMMA StreamsInductive ==
    ASSUME StepsInv, StreamsInv, TablesHoldTheirText, [Next]_vars
    PROVE  StreamsInv' /\ TablesHoldTheirText'
<1>1. CASE Next
  <2>1. steps' = steps + 1 /\ story' = story
      BY <1>1, OneStep
  <2>2. CASE story.program # "streams"
    <3>1. last'.name # "CLOSE"
        BY <1>1, <2>2, OneStep
    <3> QED
        BY <2>1, <2>2, <3>1 DEF StreamsInv, TablesHoldTheirText
  <2>3. CASE story.program = "streams"
    <3>1. StreamsNext /\ StreamsHold
        BY <1>1, <2>3, OneStep DEF StreamsInv
    <3>2. ASSUME NEW text \in story.texts, PrintText(text)
          PROVE  StreamsHold' /\ last'.name # "CLOSE"
      <4>1. Instruction("streams", "PRINT", <<text>>, 0)
          BY <3>2, Zenon DEF PrintText
      <4> QED
          BY <2>1, <2>3, <3>1, <3>2, <4>1, PrintKeeps, Counts
    <3>3. ASSUME NEW t \in story.tables \ {promise[i].table : i \in DOMAIN promise},
                 OpenMemoryStream(t)
          PROVE  StreamsHold' /\ last'.name # "CLOSE"
        BY <2>1, <2>3, <3>1, <3>3, OpenKeeps, Counts DEF OpenMemoryStream
    <3>4. CASE CloseMemoryStream
        BY <2>1, <2>3, <3>1, <3>4, CloseKeeps DEF StreamsInv
    <3>5. ASSUME NEW n \in {1, -1, 2, 4, -4}, SelectStream(n)
          PROVE  StreamsHold' /\ last'.name # "CLOSE"
        BY <2>1, <2>3, <3>1, <3>5, SelectKeeps, Counts DEF SelectStream
    <3>6. CASE SaveUndo
        BY <2>1, <2>3, <3>1, <3>6, SaveUndoKeeps, Counts
           DEF SaveUndo, StreamsInv, TablesHoldTheirText
    <3>7. CASE RestoreUndo
        BY <2>1, <2>3, <3>1, <3>7, RestoreUndoKeeps, Counts
           DEF RestoreUndo, StreamsInv, TablesHoldTheirText
    <3>8. StreamsHold' /\ last'.name # "CLOSE" => StreamsInv' /\ TablesHoldTheirText'
        BY DEF StreamsInv, TablesHoldTheirText
    <3> QED
        BY <3>1, <3>2, <3>3, <3>4, <3>5, <3>6, <3>7, <3>8 DEF StreamsNext
  <2> QED
      BY <2>2, <2>3
<1>2. CASE UNCHANGED vars
  <2>1. story' = story /\ memory' = memory /\ undo' = undo /\ streams' = streams
        /\ promise' = promise /\ last' = last /\ steps' = steps
      BY <1>2 DEF vars, machineVars, streamVars
  <2>2. Image' = Image /\ Texts' = Texts
      BY <2>1 DEF Image, Texts
  <2>3. StreamsHold' <=> StreamsHold
      BY <2>1, <2>2 DEF StreamsHold
  <2> QED
      BY <2>1, <2>3 DEF StreamsInv, TablesHoldTheirText
<1> QED
    BY <1>1, <1>2

\* When a memory stream is closed its table has the size and the text of what was
\* printed to it, for every story whose tables are apart and have room for its texts,
\* in any order of opening, closing, printing, selecting, saving and restoring.
THEOREM TablesAlwaysHoldTheirText == Spec => []TablesHoldTheirText
<1> DEFINE Inv == StepsInv /\ StreamsInv /\ TablesHoldTheirText
<1>1. Init => Inv
    BY InitHolds
<1>2. Inv /\ [Next]_vars => Inv'
    BY StepsInductive, StreamsInductive
<1> QED
    BY <1>1, <1>2, PTL DEF Spec

-----------------------------------------------------------------------------
(* Tables are as told.                                                      *)

\* A story with tables opens no streams, and writes bytes.
TablesHold == memory \in Image /\ streams.MemoryStreamData = <<>>
TablesInv == story.program = "tables" => TablesHold

\* The operands of instructions on tables are numbers, of tables in memory.
LEMMA CopyNamesTables ==
    ASSUME NEW s, NEW first, NEW second, NEW size, CopyOperands(s, first, second, size)
    PROVE  /\ first \in Nat /\ second \in Nat /\ size \in Int
           /\ first..(first + Magnitude(size) - 1) \subseteq DOMAIN s.memory
           /\ second = 0 \/ second..(second + Magnitude(size) - 1) \subseteq DOMAIN s.memory
<1>1. first \in Word16 /\ second \in Word16 /\ size \in Int
    BY DEF CopyOperands
<1>2. first \in Nat /\ second \in Nat /\ size \in Int
    BY <1>1, WordsAreNumbers
<1>3. /\ first..(first + Magnitude(size) - 1) \subseteq DOMAIN s.memory
      /\ second = 0 \/ second..(second + Magnitude(size) - 1) \subseteq DOMAIN s.memory
    BY DEF CopyOperands
<1> QED
    BY <1>2, <1>3

LEMMA ScanNamesTable ==
    ASSUME NEW s, NEW test, NEW table, NEW length, NEW form,
           ScanOperands(s, test, table, length, form)
    PROVE  table \in Nat /\ length \in Nat /\ form \in Nat /\ form % 128 # 0
<1>1. {test, table, length, form} \subseteq Word16 /\ form % 128 # 0
    BY Zenon DEF ScanOperands
<1>2. \A a \in {test, table, length, form} : a \in Nat
    BY <1>1, WordsAreNumbers
<1> QED
    BY <1>1, <1>2

LEMMA PrintNamesTable ==
    ASSUME NEW s, NEW table, NEW width, NEW height, NEW skip, PrintOperands(s, table, width, height, skip)
    PROVE  /\ table \in Nat /\ width \in Nat \ {0} /\ height \in Nat \ {0} /\ skip \in Nat
           /\ table..(table + (height - 1) * (width + skip) + width - 1) \subseteq Addressable(s)
<1>1. /\ {table, width, height, skip} \subseteq Word16 /\ width # 0 /\ height # 0
      /\ table..(table + (height - 1) * (width + skip) + width - 1) \subseteq Addressable(s)
    BY Zenon DEF PrintOperands
<1>2. \A a \in {table, width, height, skip} : a \in Nat
    BY <1>1, WordsAreNumbers
<1> QED
    BY <1>1, <1>2

LEMMA CopyTold ==
    ASSUME StepsInv, story.program = "tables", TablesHold, NEW c \in story.copies,
           CopyOp(c[1], c[2], c[3])
    PROVE  TablesHold' /\ CopyIsAsTold /\ TablesAreReadAsTold'
<1> DEFINE first == c[1]
           second == c[2]
           size == c[3]
           D == DOMAIN story.memory
           new == CopyTable(memory, first, second, size)
<1>1. /\ first \in Nat /\ second \in Nat /\ size \in Int
      /\ first..(first + Magnitude(size) - 1) \subseteq D
      /\ second = 0 \/ second..(second + Magnitude(size) - 1) \subseteq D
  <2>1. CopyOperands(story, first, second, size)
      BY TablesAssumption DEF StepsInv
  <2> HIDE DEF first, second, size
  <2> QED
      BY <2>1, CopyNamesTables, Zenon DEF D
<1>2. memory \in [D -> Byte]
    BY DEF TablesHold, Image
<1>3. /\ story' = story /\ memory' = new /\ streams' = streams
      /\ last' = [name |-> "COPY_TABLE", args |-> <<first, second, size>>, result |-> 0]
    BY Counts DEF CopyOp, Writes, Counted, streamVars
<1> HIDE DEF first, second, size, D, new
<1>4. IsCopied(new, D, memory, first, second, size)
  <2>1. /\ first \in Nat /\ second \in Nat /\ size \in Int
        /\ first..(first + Magnitude(size) - 1) \subseteq D
        /\ second = 0 \/ second..(second + Magnitude(size) - 1) \subseteq D
      BY <1>1, Zenon
  <2> QED
      BY <1>2, <2>1, CopyTableIs DEF new
<1>5. TablesHold'
    BY <1>3, <1>4 DEF TablesHold, Image, D, IsCopied
<1>6. CopyIsAsTold
  <2> DEFINE period == IF size < 0 /\ second - first \in 1..(-size) THEN second - first
                       ELSE Magnitude(size)
  <2>1. period = IF size < 0 THEN Period(second - first, -size) ELSE Magnitude(size)
      BY <1>1 DEF Period, Magnitude
  <2> HIDE DEF period
  <2>2. \A i \in 0..(Magnitude(size) - 1) :
          IF second = 0 THEN new[first + i] = 0
          ELSE new[second + i] = memory[first + (i % period)]
      BY <1>4, <2>1 DEF IsCopied
  <2>3. last'.args[1] = first /\ last'.args[2] = second /\ last'.args[3] = size
      BY <1>3
  <2> QED
      BY <1>3, <2>2, <2>3, Zenon DEF CopyIsAsTold, period
<1>7. TablesAreReadAsTold'
    BY <1>3 DEF TablesAreReadAsTold
<1> QED
    BY <1>5, <1>6, <1>7

LEMMA ScanTold ==
    ASSUME StepsInv, story.program = "tables", TablesHold, NEW c \in story.scans,
           ScanOp(c[1], c[2], c[3], c[4])
    PROVE  TablesHold' /\ CopyIsAsTold /\ TablesAreReadAsTold'
<1> DEFINE test == c[1]
           table == c[2]
           length == c[3]
           form == c[4]
           found == ScanTable(memory, test, table, length, form)
<1>1. table \in Nat /\ length \in Nat /\ form \in Nat /\ form % 128 # 0
  <2>1. ScanOperands(story, test, table, length, form)
      BY TablesAssumption DEF StepsInv
  <2> HIDE DEF test, table, length, form
  <2> QED
      BY <2>1, ScanNamesTable
<1>2. /\ story' = story /\ memory' = memory /\ streams' = streams
      /\ last' = [name |-> "SCAN_TABLE", args |-> <<test, table, length, form>>, result |-> found]
    BY Counts DEF ScanOp, Writes, Counted, streamVars
<1> HIDE DEF test, table, length, form, found
<1>3. IsFirst(found, memory, test, table, length, form)
    BY <1>1, ScanTableIs DEF found
<1>4. TablesHold'
    BY <1>2 DEF TablesHold, Image
<1>5. CopyIsAsTold
    BY <1>2 DEF CopyIsAsTold
<1>6. TablesAreReadAsTold'
  <2>1. /\ last'.args[1] = test /\ last'.args[2] = table /\ last'.args[3] = length
        /\ last'.args[4] = form /\ last'.result = found /\ last'.name = "SCAN_TABLE"
      BY <1>2
  <2>2. last'.name # "PRINT_TABLE" /\ memory' = memory
      BY <1>2, <2>1
  <2>3. IsFirst(last'.result, memory', last'.args[1], last'.args[2], last'.args[3], last'.args[4])
      BY <1>3, <2>1, <2>2
  <2> QED
      BY <2>2, <2>3, Zenon DEF TablesAreReadAsTold, IsFirst, FieldValue
<1> QED
    BY <1>4, <1>5, <1>6

LEMMA PrintTold ==
    ASSUME StepsInv, story.program = "tables", TablesHold, NEW c \in story.prints,
           PrintOp(c[1], c[2], c[3], c[4])
    PROVE  TablesHold' /\ CopyIsAsTold /\ TablesAreReadAsTold'
<1> DEFINE table == c[1]
           width == c[2]
           height == c[3]
           skip == c[4]
           text == PrintTable(memory, table, width, height, skip)
<1>1. /\ table \in DOMAIN story.memory /\ table \in Nat
      /\ width \in Nat \ {0} /\ height \in Nat /\ skip \in Nat
      /\ skip * (height - 1) \in Word16
  <2> DEFINE n == height - 1
             rows == n * (width + skip)
             end == table + rows + width - 1
  <2>1. /\ table \in Nat /\ width \in Nat \ {0} /\ n \in Nat /\ skip \in Nat /\ height \in Nat
        /\ table..end \subseteq Addressable(story)
    <3>1. PrintOperands(story, table, width, height, skip)
        BY TablesAssumption DEF StepsInv
    <3> HIDE DEF table, width, height, skip
    <3>2. \A x \in Nat \ {0} : x - 1 \in Nat
        OBVIOUS
    <3>3. /\ table \in Nat /\ width \in Nat \ {0} /\ height \in Nat \ {0} /\ skip \in Nat
          /\ table..(table + (height - 1) * (width + skip) + width - 1) \subseteq Addressable(story)
        BY <3>1, PrintNamesTable
    <3> QED
        BY <3>2, <3>3, Zenon
  <2>2. rows \in Nat /\ skip * n \in Nat /\ skip * n <= rows
    <3>1. \A x, y, z \in Nat : /\ x * (y + z) \in Nat /\ z * x \in Nat
                              /\ z * x <= x * (y + z)
        BY SMT
    <3> QED
        BY <2>1, <3>1
  <2> HIDE DEF n, rows
  <2>3. table \in table..end /\ end \in table..end /\ rows <= end
    <3>1. /\ table \in Int /\ 0 <= table /\ width \in Int /\ 0 < width
          /\ rows \in Int /\ 0 <= rows
        BY <2>1, <2>2
    <3> HIDE DEF rows, table, width
    <3>2. end \in Int /\ table <= end /\ rows <= end
        BY <3>1
    <3> QED
        BY <3>1, <3>2
  <2>4. table \in DOMAIN story.memory /\ end \in Word16
      BY <2>1, <2>3 DEF Addressable
  <2>5. skip * n \in Word16
    <3>1. /\ rows \in Nat /\ skip * n \in Nat /\ skip * n <= rows
        BY <2>2
    <3> HIDE DEF end
    <3>2. rows \in Word16
        BY <2>3, <2>4, <3>1, SmallWord
    <3> QED
        BY <3>1, <3>2, SmallWord
  <2> QED
      BY <2>1, <2>4, <2>5 DEF n
<1>2. /\ story' = story
      /\ last' = [name |-> "PRINT_TABLE", args |-> <<table, width, height, skip>>, result |-> text]
    BY Counts DEF PrintOp, Counted
<1>3. Prints(text)
    BY DEF PrintOp
<1> HIDE DEF table, width, height, skip, text
<1>4. memory' = memory /\ streams' = streams
  <2>1. Len(streams.MemoryStreamData) = 0
      BY EmptySeq DEF TablesHold
  <2> QED
      BY <1>3, <2>1 DEF Prints
<1>5. memory[table] \in Nat
  <2>1. memory \in [DOMAIN story.memory -> Byte]
      BY DEF TablesHold, Image
  <2>2. memory[table] \in Byte
      BY <1>1, <2>1, Zenon
  <2> QED
      BY <2>2 DEF Byte
<1>6. TablesHold'
    BY <1>2, <1>4 DEF TablesHold, Image
<1>7. CopyIsAsTold
    BY <1>2 DEF CopyIsAsTold
<1>8. TablesAreReadAsTold'
  <2>1. /\ last'.args[1] = table /\ last'.args[2] = width /\ last'.args[3] = height
        /\ last'.args[4] = skip /\ last'.result = text /\ last'.name = "PRINT_TABLE"
      BY <1>2
  <2>2. ASSUME width * height <= memory[table], NEW row \in 0..(height - 1)
        PROVE  RowIs(text, memory, table, width, skip, row)
    <3>1. table \in Int
        BY <1>1
    <3> QED
        BY <1>1, <1>5, <2>2, <3>1, PrintTableIs, Zenon DEF text
  <2> QED
      BY <1>4, <2>1, <2>2, Zenon DEF TablesAreReadAsTold, RowIs
<1> QED
    BY <1>6, <1>7, <1>8

LEMMA InitTables == Init => TablesInv
<1> SUFFICES ASSUME Init, story.program = "tables" PROVE TablesHold
    BY DEF TablesInv
<1> QED
    BY InstructionsAssumption DEF Init, TablesHold, Image

LEMMA TablesInductive ==
    ASSUME StepsInv, TablesInv, [Next]_vars
    PROVE  TablesInv' /\ [CopyIsAsTold /\ TablesAreReadAsTold']_vars
<1>1. CASE Next /\ story.program = "tables"
  <2>1. TablesNext /\ TablesHold
      BY <1>1, OneStep DEF TablesInv
  <2> DEFINE Told == TablesHold' /\ CopyIsAsTold /\ TablesAreReadAsTold'
  <2>2. ASSUME NEW c \in story.copies, CopyOp(c[1], c[2], c[3]) PROVE Told
      BY <1>1, <2>1, <2>2, CopyTold
  <2>3. ASSUME NEW c \in story.scans, ScanOp(c[1], c[2], c[3], c[4]) PROVE Told
      BY <1>1, <2>1, <2>3, ScanTold
  <2>4. ASSUME NEW c \in story.prints, PrintOp(c[1], c[2], c[3], c[4]) PROVE Told
      BY <1>1, <2>1, <2>4, PrintTold
  <2> HIDE DEF Told
  <2>5. Told
      BY <2>1, <2>2, <2>3, <2>4, Zenon DEF TablesNext
  <2> QED
      BY <2>5 DEF Told, TablesInv
<1>2. CASE Next /\ story.program # "tables"
  <2>1. last'.name \notin TableNames /\ story' = story
      BY <1>2, OneStep
  <2>2. CopyIsAsTold /\ TablesAreReadAsTold'
      BY <2>1, Zenon DEF TableNames, CopyIsAsTold, TablesAreReadAsTold
  <2> QED
      BY <1>2, <2>1, <2>2 DEF TablesInv
<1>3. CASE UNCHANGED vars
  <2>1. story' = story /\ memory' = memory /\ streams' = streams
      BY <1>3 DEF vars, machineVars, streamVars
  <2> QED
      BY <1>3, <2>1 DEF TablesInv, TablesHold, Image
<1> QED
    BY <1>1, <1>2, <1>3

\* Every COPY_TABLE leaves what it should in the second table, every PRINT_TABLE prints
\* the rows of its table and every SCAN_TABLE finds the first field with the value, for
\* every story, every operands of 16 bits and every table they name that is in memory and
\* below 64 kilobytes, however the tables overlap.
THEOREM TablesAreAlwaysAsTold == Spec => TablesAreAsTold
<1> DEFINE Inv == StepsInv /\ TablesInv
<1>1. Init => Inv
    BY InitHolds, InitTables
<1>2. Inv /\ [Next]_vars => Inv'
    BY StepsInductive, TablesInductive
<1>3. Inv /\ [Next]_vars => [CopyIsAsTold /\ TablesAreReadAsTold']_vars
    BY TablesInductive
<1> QED
    BY <1>1, <1>2, <1>3, PTL DEF Spec, TablesAreAsTold

-----------------------------------------------------------------------------
(* Saves are read whole.                                                    *)

\* The file is a save of the promised state, as far as it goes.
SavesHold ==
    /\ game \in SavedStates /\ promise \in SavedStates
    /\ Len(file.data) \in Nat /\ Len(file.data) <= Len(Serialize(promise))
    /\ Shows(file.data, 1, Serialize(promise))
    /\ file.data # <<>> => file.exists

SavesInv == story.program = "save" => SavesHold

LEMMA FitCounts ==
    ASSUME NEW s \in SavedStates, CountsFit(s)
    PROVE  StateCountsFit(s)
<1>1. s.frames \in Seq(SavedFrames)
    BY StateFields
<1>2. DOMAIN s.frames = 1..Len(s.frames)
    BY <1>1
<1> QED
    BY <1>2 DEF CountsFit, StateCountsFit, FrameCountsFit

LEMMA FileIsOfBytes ==
    ASSUME SavesHold
    PROVE  ByteData(file.data)
<1> DEFINE all == Serialize(promise)
           data == file.data
<1>1. Len(all) \in Nat /\ \A k \in 2..Len(all) : all[k] \in UInt8
  <2>1. promise \in SavedStates
      BY DEF SavesHold
  <2>2. all \in Seq(Symbols) /\ \A k \in 2..Len(all) : all[k] \in UInt8
      BY <2>1, SerializeIs, Zenon
  <2> QED
      BY <2>2
<1>2. /\ Len(data) \in Nat /\ Len(data) <= Len(all)
      /\ \A k \in 1..Len(all) : 1 + k - 1 <= Len(data) => data[1 + k - 1] = all[k]
    BY DEF SavesHold, Shows
<1> HIDE DEF all, data
<1>3. ASSUME NEW k \in 2..Len(data) PROVE data[k] \in UInt8
  <2>1. k \in 1..Len(all) /\ k \in 2..Len(all) /\ 1 + k - 1 = k /\ k <= Len(data)
      BY <1>1, <1>2
  <2> QED
      BY <1>1, <1>2, <2>1
<1>4. ByteData(data)
    BY <1>2, <1>3 DEF ByteData
<1> QED
    BY <1>4 DEF data

LEMMA NothingIsRead == ~Deserialize(<<>>).ok
<1>1. Len(<<>>) < 5
    OBVIOUS
<1>2. Deserialize(<<>>) = Unreadable
    BY <1>1, Zenon DEF Deserialize
<1> QED
    BY <1>2 DEF Unreadable

LEMMA ImportKeeps ==
    ASSUME SavesHold, Import
    PROVE  SavesHold' /\ OnlyWholeSavesAreRead'
<1> DEFINE data == file.data
           found == Deserialize(data)
           read == ImportSaveState(data, game.staticMemoryBase)
           empty == file.exists /\ data = <<>>
<1>1. /\ last' = [name |-> "RESTORE", args |-> <<game>>,
                   result |-> IF empty \/ read.ok THEN 2 ELSE 0]
      /\ game' = IF read.ok THEN read.state ELSE game
      /\ file' = file /\ promise' = promise
    BY Counts DEF Import
<1>2. /\ game \in SavedStates /\ promise \in SavedStates
      /\ Len(data) \in Nat /\ Len(data) <= Len(Serialize(promise))
      /\ Shows(data, 1, Serialize(promise))
      /\ data # <<>> => file.exists
    BY DEF SavesHold
<1>3. found.ok => found.state \in SavedStates
    BY FileIsOfBytes, DeserializeValue
<1>4. CountsFit(promise) => found = IF Len(data) = Len(Serialize(promise))
                                    THEN [ok |-> TRUE, state |-> promise] ELSE Unreadable
    BY <1>2, FitCounts, SavesComeBack
<1>5. found.ok => data # <<>>
    BY NothingIsRead
<1> DEFINE fits == found.ok /\ found.state.staticMemoryBase = game.staticMemoryBase
<1>6. /\ fits => read = found
      /\ ~fits => read = Unreadable
    BY Zenon DEF ImportSaveState
<1>7. /\ read.ok <=> fits
      /\ read.ok => read.state = found.state
  <2> HIDE DEF read, found
  <2> QED
      BY <1>6 DEF Unreadable
<1> HIDE DEF read, found
<1>8. SavesHold'
    BY <1>1, <1>2, <1>3, <1>7 DEF SavesHold
<1> HIDE DEF empty, data
<1>9. OnlyWholeSavesAreRead'
  <2>1. ASSUME CountsFit(promise), last'.result = 2
        PROVE  file.exists /\ game' = IF data = <<>> THEN game ELSE promise
    <3>1. CASE read.ok
      <4>1. found.ok /\ found.state = promise
          BY <1>4, <1>7, <2>1, <3>1 DEF Unreadable
      <4> QED
          BY <1>1, <1>2, <1>5, <1>7, <3>1, <4>1
    <3>2. CASE ~read.ok
      <4>1. empty
          BY <1>1, <2>1, <3>2
      <4> QED
          BY <1>1, <3>2, <4>1 DEF empty
    <3> QED
        BY <3>1, <3>2
  <2>2. ASSUME CountsFit(promise), last'.result = 0
        PROVE  /\ game' = game
               /\ \/ data # Serialize(promise)
                  \/ game.staticMemoryBase # promise.staticMemoryBase
    <3>1. ~read.ok /\ game' = game
        BY <1>1, <2>2
    <3>2. ~found.ok \/ found.state.staticMemoryBase # game.staticMemoryBase
        BY <1>7, <3>1
    <3>3. CASE data = Serialize(promise)
      <4>1. found.ok /\ found.state = promise
          BY <1>4, <2>2, <3>3
      <4> QED
          BY <3>1, <3>2, <4>1
    <3> QED
        BY <3>1, <3>3
  <2>3. /\ last'.args[1] = game /\ file'.data = data /\ file'.exists = file.exists
        /\ promise' = promise
      BY <1>1 DEF data
  <2>4. CountsFit(promise)' = CountsFit(promise)
      BY <1>1 DEF CountsFit
  <2> QED
      BY <2>1, <2>2, <2>3, <2>4 DEF OnlyWholeSavesAreRead
<1> QED
    BY <1>8, <1>9

LEMMA ExportKeeps ==
    ASSUME SavesHold, Export
    PROVE  SavesHold'
<1>1. /\ file'.data = Serialize(game) /\ file'.exists
      /\ promise' = game /\ game' = game
    BY DEF Export
<1>2. game \in SavedStates
    BY DEF SavesHold
<1>3. Len(Serialize(game)) \in Nat
  <2>1. Serialize(game) \in Seq(Symbols)
      BY <1>2, SerializeIs, Zenon
  <2> QED
      BY <2>1
<1> DEFINE all == Serialize(game)
<1> HIDE DEF all
<1>4. \A k \in 1..Len(all) : 1 + k - 1 = k
    BY <1>3 DEF all
<1>5. Shows(all, 1, all)
    BY <1>4, Zenon DEF Shows
<1> QED
    BY <1>1, <1>2, <1>3, <1>5 DEF SavesHold, all

LEMMA LoseTailKeeps ==
    ASSUME SavesHold, NEW n \in 0..story.longest, LoseTail(n)
    PROVE  SavesHold'
<1> DEFINE all == Serialize(promise)
           data == file.data
<1>1. /\ file'.data = SubSeq(data, 1, n) /\ file'.exists
      /\ game' = game /\ promise' = promise /\ n < Len(data)
    BY DEF LoseTail
<1>2. /\ game \in SavedStates /\ promise \in SavedStates
      /\ Len(data) \in Nat /\ Len(data) <= Len(all)
      /\ \A k \in 1..Len(all) : 1 + k - 1 <= Len(data) => data[1 + k - 1] = all[k]
    BY DEF SavesHold, Shows
<1>3. n \in Nat
    OBVIOUS
<1>4. Len(all) \in Nat
  <2>1. Serialize(promise) \in Seq(Symbols)
      BY <1>2, SerializeIs, Zenon
  <2> QED
      BY <2>1
<1> HIDE DEF all, data
<1> DEFINE rest == SubSeq(data, 1, n)
<1>5. Len(rest) = n /\ \A k \in 1..n : rest[k] = data[k]
    BY <1>3
<1> HIDE DEF rest
<1>6. \A k \in 1..Len(all) : 1 + k - 1 <= Len(rest) => rest[1 + k - 1] = all[k]
  <2> SUFFICES ASSUME NEW k \in 1..Len(all), 1 + k - 1 <= Len(rest)
               PROVE  rest[1 + k - 1] = all[k]
      OBVIOUS
  <2>1. 1 + k - 1 = k /\ k \in 1..n /\ 1 + k - 1 <= Len(data)
      BY <1>1, <1>2, <1>3, <1>4, <1>5
  <2> QED
      BY <1>2, <1>5, <2>1, Zenon
<1>7. Len(rest) \in Nat /\ Len(rest) <= Len(all)
    BY <1>1, <1>2, <1>3, <1>4, <1>5
<1>8. Shows(rest, 1, all)
    BY <1>6, Zenon DEF Shows
<1> QED
    BY <1>1, <1>2, <1>7, <1>8 DEF SavesHold, rest, all

LEMMA InitSaves == Init => SavesInv /\ OnlyWholeSavesAreRead
<1> SUFFICES ASSUME Init PROVE SavesInv /\ OnlyWholeSavesAreRead
    OBVIOUS
<1>1. /\ story \in Stories /\ game \in Initially("games", NoGame) /\ file.data = <<>>
      /\ last.name = "NONE" /\ promise = InitialPromise
    BY DEF Init
<1>2. NoGame \in SavedStates
  <2>1. 0 \in UInt16
      BY BaseFacts DEF UInt16
  <2>2. <<>> \in Seq(UInt8) /\ <<>> \in Seq(SavedFrames) /\ Len(<<>>) = 0
      BY EmptySeq
  <2> QED
      BY <2>1, <2>2 DEF NoGame, SavedStates
<1>3. ASSUME story.program = "save" PROVE SavesHold
  <2>1. promise = NoGame
      BY <1>1, <1>3 DEF InitialPromise
  <2>2. game \in SavedStates
      BY <1>1, <1>2, <1>3, SavesAssumption DEF Initially
  <2>3. Serialize(promise) \in Seq(Symbols)
      BY <1>2, <2>1, SerializeIs, Zenon
  <2>4. Len(file.data) = 0 /\ Len(Serialize(promise)) \in Nat
      BY <1>1, <2>3
  <2> DEFINE all == Serialize(promise)
  <2> HIDE DEF all
  <2>5. \A k \in 1..Len(all) : ~(1 + k - 1 <= Len(file.data))
      BY <2>4 DEF all
  <2>6. Shows(file.data, 1, all)
      BY <2>5, Zenon DEF Shows
  <2> QED
      BY <1>1, <1>2, <2>1, <2>2, <2>4, <2>6 DEF SavesHold, all
<1>4. OnlyWholeSavesAreRead
    BY <1>1 DEF OnlyWholeSavesAreRead
<1> QED
    BY <1>3, <1>4 DEF SavesInv

LEMMA SavesInductive ==
    ASSUME StepsInv, SavesInv, OnlyWholeSavesAreRead, [Next]_vars
    PROVE  SavesInv' /\ OnlyWholeSavesAreRead'
<1>1. CASE Next /\ story.program = "save"
  <2>1. SaveNext /\ SavesHold
      BY <1>1, OneStep DEF SavesInv
  <2> DEFINE Kept == SavesHold' /\ OnlyWholeSavesAreRead'
  <2>2. last'.name # "RESTORE" => OnlyWholeSavesAreRead'
      BY DEF OnlyWholeSavesAreRead
  <2>3. ASSUME NEW g \in story.games, Play(g) PROVE Kept
    <3>1. /\ game' = g /\ file' = file /\ promise' = promise
          /\ last' = [name |-> "PLAY", args |-> <<>>, result |-> 0]
        BY <2>3, Counts DEF Play
    <3>2. g \in SavedStates
        BY <1>1, SavesAssumption DEF StepsInv
    <3> QED
        BY <2>1, <2>2, <3>1, <3>2 DEF SavesHold
  <2>4. ASSUME Export PROVE Kept
    <3>1. last' = [name |-> "SAVE", args |-> <<>>, result |-> 1]
        BY <2>4, Counts DEF Export
    <3>2. SavesHold'
        BY <2>1, <2>4, ExportKeeps
    <3> QED
        BY <2>2, <3>1, <3>2
  <2>5. ASSUME NEW n \in 0..story.longest, LoseTail(n) PROVE Kept
    <3>1. last' = [name |-> "TEAR", args |-> <<>>, result |-> 0]
        BY <2>5, Counts DEF LoseTail
    <3>2. SavesHold'
        BY <2>1, <2>5, LoseTailKeeps
    <3> QED
        BY <2>2, <3>1, <3>2
  <2>6. ASSUME Import PROVE Kept
      BY <2>1, <2>6, ImportKeeps
  <2> HIDE DEF Kept
  <2>7. Kept
      BY <2>1, <2>3, <2>4, <2>5, <2>6, Zenon DEF SaveNext
  <2> QED
      BY <2>7 DEF Kept, SavesInv
<1>2. CASE Next /\ story.program # "save"
  <2>1. story' = story
      BY <1>2, OneStep
  <2> QED
      BY <1>2, <2>1 DEF SavesInv, OnlyWholeSavesAreRead
<1>3. CASE UNCHANGED vars
  <2>1. /\ story' = story /\ game' = game /\ file' = file /\ promise' = promise
        /\ last' = last
      BY <1>3 DEF vars, saveVars
  <2>2. SavesHold' <=> SavesHold
      BY <2>1 DEF SavesHold
  <2>3. OnlyWholeSavesAreRead'
      BY <2>1 DEF OnlyWholeSavesAreRead, CountsFit
  <2> QED
      BY <2>1, <2>2, <2>3 DEF SavesInv
<1> QED
    BY <1>1, <1>2, <1>3

\* A RESTORE brings back exactly the state that was saved, a file that is missing or lost
\* its end is refused, and a whole save of the same story is not; a refusal, and the success
\* told of a file that lost all its bytes, leave the game as it was: for every base, every
\* sequence of saving, playing, tearing and restoring, and states of any size whose counts
\* fit.
THEOREM OnlyWholeSavesAreEverRead == Spec => []OnlyWholeSavesAreRead
<1> DEFINE Inv == StepsInv /\ SavesInv /\ OnlyWholeSavesAreRead
<1>1. Init => Inv
    BY InitHolds, InitSaves
<1>2. Inv /\ [Next]_vars => Inv'
    BY StepsInductive, SavesInductive
<1> QED
    BY <1>1, <1>2, PTL DEF Spec

-----------------------------------------------------------------------------
(* The stack of a machine.                                                  *)

IsSequence(u) == \E S : u \in Seq(S)

\* A machine has at least these.
Fields == {"memory", "pc", "locals", "stack", "halted"}
IsMachine(s) == Fields \subseteq DOMAIN s /\ IsSequence(s.stack)

\* The stack u is s after k values were taken from it, if s has more.
Taken(u, s, k) ==
    /\ IsSequence(u)
    /\ k < Len(s) => Len(u) = Len(s) - k /\ \A i \in 1..Len(u) : u[i] = s[i]

\* The stack u is what an instruction leaves of s that takes k values, may have worked on
\* the top in place, and gives g.
Balanced(u, s, k, g) ==
    /\ IsSequence(u)
    /\ k < Len(s) => Len(u) = Len(s) - k + g /\ \A i \in 1..(Len(s) - k - 1) : u[i] = s[i]

LEMMA StackLength ==
    ASSUME NEW u, IsSequence(u)
    PROVE  Len(u) \in Nat /\ (u = <<>> <=> Len(u) = 0)
BY EmptySeq DEF IsSequence

LEMMA Pushed ==
    ASSUME NEW u, IsSequence(u), NEW x
    PROVE  /\ IsSequence(Append(u, x)) /\ Len(Append(u, x)) = Len(u) + 1
           /\ \A i \in 1..Len(u) : Append(u, x)[i] = u[i]
<1>1. PICK S : u \in Seq(S)
    BY DEF IsSequence
<1>2. u \in Seq(S \cup {x})
  <2>1. u \in [1..Len(u) -> S] /\ Len(u) \in Nat
      BY <1>1
  <2>2. u \in [1..Len(u) -> S \cup {x}]
      BY <2>1
  <2> QED
      BY <2>1, <2>2
<1>3. Append(u, x) \in Seq(S \cup {x})
    BY <1>2
<1>4. IsSequence(Append(u, x))
    BY <1>3 DEF IsSequence
<1> QED
    BY <1>2, <1>4

LEMMA FrontIs ==
    ASSUME NEW S, NEW u \in Seq(S), Len(u) > 0
    PROVE  /\ Front(u) \in Seq(S) /\ Len(Front(u)) = Len(u) - 1
           /\ \A i \in 1..(Len(u) - 1) : Front(u)[i] = u[i]
<1> DEFINE n == Len(u) - 1
<1>1. n \in Nat /\ n <= Len(u)
    OBVIOUS
<1>2. Front(u) = SubSeq(u, 1, n)
    BY DEF Front
<1> HIDE DEF n
<1>3. /\ SubSeq(u, 1, n) \in Seq(S) /\ Len(SubSeq(u, 1, n)) = n
      /\ \A i \in 1..n : SubSeq(u, 1, n)[i] = u[i]
    BY <1>1
<1> QED
    BY <1>2, <1>3 DEF n

LEMMA Popped ==
    ASSUME NEW u, IsSequence(u), u # <<>>
    PROVE  /\ IsSequence(Front(u)) /\ Len(Front(u)) = Len(u) - 1
           /\ \A i \in 1..(Len(u) - 1) : Front(u)[i] = u[i]
<1>1. PICK S : u \in Seq(S)
    BY DEF IsSequence
<1>2. Len(u) \in Nat /\ Len(u) > 0
    BY StackLength
<1>3. Len(u) - 1 \in 0..Len(u)
    BY <1>2
<1>4. /\ Front(u) \in Seq(S) /\ Len(Front(u)) = Len(u) - 1
      /\ \A i \in 1..(Len(u) - 1) : Front(u)[i] = u[i]
    BY <1>1, <1>2, <1>3, FrontIs
<1>5. IsSequence(Front(u))
    BY <1>4 DEF IsSequence
<1> QED
    BY <1>4, <1>5

LEMMA TakenOnly ==
    ASSUME NEW u, NEW s, IsSequence(s), NEW k \in Nat, Taken(u, s, k)
    PROVE  Balanced(u, s, k, 0)
<1>1. Len(s) \in Nat
    BY StackLength
<1>2. k < Len(s) => \A i \in 1..(Len(s) - k - 1) : i \in 1..(Len(s) - k)
    BY <1>1
<1> QED
    BY <1>1, <1>2 DEF Taken, Balanced

\* What the parts of an instruction do to a machine.
LEMMA PopIs ==
    ASSUME NEW s, IsMachine(s)
    PROVE  /\ IsMachine(Pop(s)) /\ Pop(s).memory = s.memory /\ Pop(s).pc = s.pc
           /\ Pop(s).stack = IF s.stack = <<>> THEN s.stack ELSE Front(s.stack)
<1>1. CASE s.stack = <<>>
    BY <1>1 DEF Pop
<1>2. CASE s.stack # <<>>
  <2>1. Pop(s) = [s EXCEPT !.stack = Front(s.stack)]
      BY <1>2 DEF Pop
  <2>2. /\ Fields \subseteq DOMAIN Pop(s) /\ Pop(s).memory = s.memory /\ Pop(s).pc = s.pc
        /\ Pop(s).stack = Front(s.stack)
      BY <2>1 DEF IsMachine, Fields
  <2>3. IsSequence(Front(s.stack))
      BY <1>2, Popped DEF IsMachine
  <2> QED
      BY <1>2, <2>2, <2>3 DEF IsMachine
<1> QED
    BY <1>1, <1>2

LEMMA PushIs ==
    ASSUME NEW s, IsMachine(s), NEW x
    PROVE  IsMachine(Push(s, x)) /\ Push(s, x).stack = Append(s.stack, x)
<1>1. Fields \subseteq DOMAIN Push(s, x) /\ Push(s, x).stack = Append(s.stack, x)
    BY DEF Push, IsMachine, Fields
<1>2. IsSequence(Append(s.stack, x))
    BY Pushed DEF IsMachine
<1> QED
    BY <1>1, <1>2 DEF IsMachine

LEMMA WriteVariableIs ==
    ASSUME NEW s, IsMachine(s), NEW v, NEW x
    PROVE  /\ IsMachine(WriteVariable(s, v, x, FALSE)) /\ IsMachine(WriteVariable(s, v, x, TRUE))
           /\ WriteVariable(s, v, x, FALSE).stack =
                IF v = 0 THEN Append(s.stack, Word(x)) ELSE s.stack
           /\ WriteVariable(s, v, x, TRUE).stack =
                IF v = 0 THEN Append(Pop(s).stack, Word(x)) ELSE s.stack
<1>1. CASE v = 0
  <2>1. /\ WriteVariable(s, v, x, FALSE) = Push(s, Word(x))
        /\ WriteVariable(s, v, x, TRUE) = Push(Pop(s), Word(x))
      BY <1>1 DEF WriteVariable
  <2> QED
      BY <1>1, <2>1, PopIs, PushIs
<1>2. CASE v # 0
  <2> DEFINE Other(t) ==
                 \/ t = s
                 \/ t = [s EXCEPT !.locals[v] = Word(x)]
                 \/ t = [s EXCEPT !.memory = WriteHalfWord(@, Global(s, v), x)]
  <2>1. Other(WriteVariable(s, v, x, FALSE)) /\ Other(WriteVariable(s, v, x, TRUE))
      BY <1>2 DEF WriteVariable
  <2>2. \A t : Other(t) => Fields \subseteq DOMAIN t /\ t.stack = s.stack
      BY DEF IsMachine, Fields
  <2> HIDE DEF Other
  <2>3. \A t : Other(t) => IsMachine(t) /\ t.stack = s.stack
      BY <2>2 DEF IsMachine
  <2> QED
      BY <1>2, <2>1, <2>3
<1> QED
    BY <1>1, <1>2

LEMMA HandleBranchIs ==
    ASSUME NEW s, IsMachine(s), NEW result
    PROVE  IsMachine(HandleBranch(s, result)) /\ HandleBranch(s, result).stack = s.stack
<1> DEFINE t == HandleBranch(s, result)
           after == AfterBranch(s.memory, s.pc)
           offset == BranchOffset(s.memory, s.pc)
<1> HIDE DEF after, offset
<1>1. \/ t = [s EXCEPT !.pc = after]
      \/ t = [s EXCEPT !.halted = TRUE]
      \/ t = [s EXCEPT !.pc = after + offset - 2]
    BY DEF HandleBranch, after, offset
<1> HIDE DEF t
<1>2. Fields \subseteq DOMAIN t /\ t.stack = s.stack
    BY <1>1 DEF IsMachine, Fields
<1> QED
    BY <1>2 DEF IsMachine, t

\* A store pushes if the byte after the instruction says so.
StorePushes(t) == IF t.memory[t.pc] = 0 THEN 1 ELSE 0

LEMMA StoreIs ==
    ASSUME NEW t, IsMachine(t), NEW x, NEW s, NEW k \in Nat, IsSequence(s), Taken(t.stack, s, k)
    PROVE  /\ IsMachine(Store(t, x))
           /\ Balanced(Store(t, x).stack, s, k, StorePushes(t))
<1> DEFINE n == [t EXCEPT !.pc = @ + 1]
           v == t.memory[t.pc]
<1>1. IsMachine(n) /\ n.stack = t.stack
    BY DEF IsMachine, Fields
<1> HIDE DEF n
<1>2. Store(t, x) = WriteVariable(n, v, x, FALSE)
    BY DEF Store, n
<1> HIDE DEF v
<1>3. /\ IsMachine(WriteVariable(n, v, x, FALSE))
      /\ WriteVariable(n, v, x, FALSE).stack =
           IF v = 0 THEN Append(n.stack, Word(x)) ELSE n.stack
    BY <1>1, WriteVariableIs
<1>4. /\ IsMachine(Store(t, x))
      /\ Store(t, x).stack = IF v = 0 THEN Append(t.stack, Word(x)) ELSE t.stack
    BY <1>1, <1>2, <1>3
<1>5. IsSequence(t.stack) /\ IsSequence(Store(t, x).stack) /\ Len(s) \in Nat
    BY <1>4, StackLength DEF IsMachine
<1>6. CASE v = 0
  <2>1. /\ Len(Store(t, x).stack) = Len(t.stack) + 1
        /\ \A i \in 1..Len(t.stack) : Store(t, x).stack[i] = t.stack[i]
      BY <1>4, <1>5, <1>6, Pushed
  <2> QED
      BY <1>4, <1>5, <1>6, <2>1 DEF Taken, Balanced, StorePushes, v
<1>7. CASE v # 0
    BY <1>4, <1>5, <1>7 DEF Taken, Balanced, StorePushes, v
<1> QED
    BY <1>6, <1>7

\* Written indirectly, the top of the stack is replaced.
LEMMA WriteIndirectIs ==
    ASSUME NEW t, IsMachine(t), NEW v, NEW x, NEW s, NEW k \in Nat, IsSequence(s), Taken(t.stack, s, k)
    PROVE  /\ IsMachine(WriteVariable(t, v, x, TRUE))
           /\ Balanced(WriteVariable(t, v, x, TRUE).stack, s, k, 0)
<1> DEFINE w == WriteVariable(t, v, x, TRUE)
<1>1. IsMachine(w) /\ w.stack = IF v = 0 THEN Append(Pop(t).stack, Word(x)) ELSE t.stack
    BY WriteVariableIs, Zenon
<1> HIDE DEF w
<1>2. IsMachine(Pop(t)) /\ Pop(t).stack = IF t.stack = <<>> THEN t.stack ELSE Front(t.stack)
    BY PopIs
<1>3. /\ IsSequence(t.stack) /\ IsSequence(w.stack) /\ Len(s) \in Nat /\ Len(t.stack) \in Nat
      /\ t.stack = <<>> <=> Len(t.stack) = 0
    BY <1>1, StackLength DEF IsMachine
<1>4. CASE v = 0 /\ k < Len(s)
  <2>1. Len(t.stack) = Len(s) - k /\ \A i \in 1..Len(t.stack) : t.stack[i] = s[i]
      BY <1>4 DEF Taken
  <2>2. t.stack # <<>>
      BY <1>3, <1>4, <2>1
  <2>3. /\ IsSequence(Pop(t).stack) /\ Len(Pop(t).stack) = Len(t.stack) - 1
        /\ \A i \in 1..(Len(t.stack) - 1) : Pop(t).stack[i] = t.stack[i]
      BY <1>2, <1>3, <2>2, Popped
  <2>4. /\ Len(w.stack) = Len(Pop(t).stack) + 1
        /\ \A i \in 1..Len(Pop(t).stack) : w.stack[i] = Pop(t).stack[i]
      BY <1>1, <1>4, <2>3, Pushed
  <2>5. Len(w.stack) = Len(s) - k + 0
      BY <1>3, <2>1, <2>3, <2>4
  <2>6. ASSUME NEW i \in 1..(Len(s) - k - 1) PROVE w.stack[i] = s[i]
    <3>1. i \in 1..Len(Pop(t).stack) /\ i \in 1..(Len(t.stack) - 1) /\ i \in 1..Len(t.stack)
        BY <1>3, <2>1, <2>3
    <3> QED
        BY <2>1, <2>3, <2>4, <3>1
  <2> QED
      BY <1>1, <1>3, <2>5, <2>6 DEF Balanced, w
<1>5. CASE v # 0
  <2>1. w.stack = t.stack
      BY <1>1, <1>5
  <2>2. Balanced(w.stack, s, k, 0)
      BY <2>1, TakenOnly
  <2> QED
      BY <1>1, <2>2 DEF w
<1>6. CASE ~(k < Len(s))
    BY <1>1, <1>3, <1>6 DEF Balanced, w
<1> QED
    BY <1>4, <1>5, <1>6

-----------------------------------------------------------------------------
(* Operands.                                                                *)

Evaluation(f, s, operands) ==
    /\ f[0] = s
    /\ \A k \in 1..Len(operands) : f[k] = AfterValue(f[k - 1], operands[k])
    /\ Evaluated(s, operands) = [values |-> [k \in 1..Len(operands) |-> Value(f[k - 1], operands[k])],
                                 s |-> f[Len(operands)]]

LEMMA EvaluatedUnfolds ==
    ASSUME NEW s, NEW operands, Len(operands) \in Nat
    PROVE  \E f : Evaluation(f, s, operands)
<1> DEFINE n == Len(operands)
           More(t, i) == AfterValue(t, operands[i])
           Whole(f) == f = [i \in 0..n |-> IF i = 0 THEN s ELSE More(f[i - 1], i)]
           UpTo(f, k) == f = [i \in 0..k |-> IF i = 0 THEN s ELSE More(f[i - 1], i)]
           T == {k \in 0..n : ~\E f : UpTo(f, k)}
           g == CHOOSE f : Whole(f)
<1>1. Evaluated(s, operands) = [values |-> [k \in 1..n |-> Value(g[k - 1], operands[k])], s |-> g[n]]
    BY Zenon DEF Evaluated
<1>2. n \in Nat
    OBVIOUS
<1> HIDE DEF More, n, g
<1>3. ASSUME T # {} PROVE FALSE
  <2>1. T \subseteq Nat
      BY <1>2
  <2>2. PICK k \in T : \A j \in T : k <= j
      BY <1>3, <2>1, LeastElement
  <2>3. k \in 0..n /\ ~\E f : UpTo(f, k)
      BY <2>2
  <2>4. CASE k = 0
    <3> DEFINE f == [i \in 0..0 |-> s]
    <3>1. \A i \in 0..0 : i = 0
        OBVIOUS
    <3>2. f = [i \in 0..0 |-> IF i = 0 THEN s ELSE More(f[i - 1], i)]
        BY <3>1
    <3> HIDE DEF f
    <3> QED
        BY <2>3, <2>4, <3>2
  <2>5. CASE k # 0
    <3>1. k - 1 \in 0..n /\ ~(k <= k - 1) /\ k \in Nat
        BY <1>2, <2>3, <2>5
    <3>2. k - 1 \notin T
        BY <2>2, <3>1
    <3>3. PICK f : UpTo(f, k - 1)
        BY <3>1, <3>2
    <3> DEFINE h == [i \in 0..k |-> IF i = k THEN More(f[k - 1], k) ELSE f[i]]
    <3>4. \A i \in 0..k : h[i] = IF i = 0 THEN s ELSE More(h[i - 1], i)
      <4> SUFFICES ASSUME NEW i \in 0..k
                   PROVE  h[i] = IF i = 0 THEN s ELSE More(h[i - 1], i)
          OBVIOUS
      <4>1. CASE i = k
        <5>1. k - 1 \in 0..k /\ k - 1 # k /\ k # 0
            BY <2>5, <3>1
        <5>2. h[k - 1] = f[k - 1] /\ h[k] = More(f[k - 1], k)
            BY <3>1, <5>1
        <5> QED
            BY <4>1, <5>1, <5>2, Zenon
      <4>2. CASE i # k
        <5>1. i \in 0..(k - 1) /\ (i # 0 => i - 1 \in 0..k /\ i - 1 # k)
            BY <3>1, <4>2
        <5>2. h[i] = f[i] /\ (i # 0 => h[i - 1] = f[i - 1])
            BY <4>2, <5>1
        <5>3. f[i] = IF i = 0 THEN s ELSE More(f[i - 1], i)
            BY <3>3, <5>1
        <5> QED
            BY <5>2, <5>3, Zenon
      <4> QED
          BY <4>1, <4>2
    <3>5. h = [i \in 0..k |-> h[i]]
        OBVIOUS
    <3> HIDE DEF h
    <3>6. UpTo(h, k)
        BY <3>4, <3>5, Zenon
    <3> QED
        BY <2>3, <3>6
  <2> QED
      BY <2>4, <2>5
<1>4. \E f : Whole(f)
  <2>1. n \in 0..n
      BY <1>2
  <2> QED
      BY <1>3, <2>1
<1>5. Whole(g)
    BY <1>4, Zenon DEF g
<1>6. 0 \in 0..n /\ \A k \in 1..n : k \in 0..n /\ k # 0
    BY <1>2
<1>7. g[0] = s
    BY <1>5, <1>6
<1>8. \A k \in 1..n : g[k] = More(g[k - 1], k)
    BY <1>5, <1>6
<1>9. Evaluation(g, s, operands)
    BY <1>1, <1>7, <1>8, Zenon DEF More, n, Evaluation
<1> QED
    BY <1>9

FromStack(o) == o.type = 2 /\ o.value = 0

LEMMA AfterValueIs ==
    ASSUME NEW t, IsMachine(t), NEW o
    PROVE  /\ IsMachine(AfterValue(t, o))
           /\ AfterValue(t, o).memory = t.memory /\ AfterValue(t, o).pc = t.pc
           /\ AfterValue(t, o).stack = IF FromStack(o) /\ t.stack # <<>> THEN Front(t.stack)
                                       ELSE t.stack
<1>1. AfterValue(t, o) = IF FromStack(o) THEN Pop(t) ELSE t
    BY DEF AfterValue, AfterRead, FromStack
<1> QED
    BY <1>1, PopIs

\* How many of the first k operands ask for a value of the stack.
Asked(operands, k) == Cardinality({i \in 1..k : FromStack(operands[i])})

LEMMA AskedIs ==
    ASSUME NEW operands
    PROVE  /\ Asked(operands, 0) = 0
           /\ \A k \in Nat :
                /\ Asked(operands, k) \in Nat
                /\ Asked(operands, k + 1)
                     = Asked(operands, k) + IF FromStack(operands[k + 1]) THEN 1 ELSE 0
<1> DEFINE A(k) == {i \in 1..k : FromStack(operands[i])}
<1>1. A(0) = {}
    OBVIOUS
<1>2. \A k \in Nat : IsFiniteSet(A(k)) /\ Cardinality(A(k)) \in Nat
  <2> TAKE k \in Nat
  <2>1. IsFiniteSet(1..k) /\ A(k) \subseteq 1..k
      BY FS_Interval
  <2> QED
      BY <2>1, FS_Subset, FS_CardinalityType
<1>3. ASSUME NEW k \in Nat
      PROVE  Cardinality(A(k + 1)) = Cardinality(A(k)) + IF FromStack(operands[k + 1]) THEN 1 ELSE 0
  <2>1. CASE FromStack(operands[k + 1])
    <3>1. A(k + 1) = A(k) \cup {k + 1} /\ k + 1 \notin A(k)
        BY <2>1
    <3> QED
        BY <1>2, <2>1, <3>1, FS_AddElement
  <2>2. CASE ~FromStack(operands[k + 1])
    <3>1. A(k + 1) = A(k)
        BY <2>2
    <3>2. Cardinality(A(k)) \in Nat
        BY <1>2
    <3> QED
        BY <2>2, <3>1, <3>2
  <2> QED
      BY <2>1, <2>2
<1> QED
    BY <1>1, <1>2, <1>3, FS_EmptySet DEF Asked

LEMMA AskedOfAll ==
    ASSUME NEW operands, DOMAIN operands = 1..Len(operands)
    PROVE  StackOperands(operands) = Asked(operands, Len(operands))
BY DEF StackOperands, Asked, FromStack

\* One more operand.
LEMMA TakesOneMore ==
    ASSUME NEW t, IsMachine(t), NEW o, NEW s, IsSequence(s), NEW k \in Nat, Taken(t.stack, s, k)
    PROVE  Taken(AfterValue(t, o).stack, s, k + IF FromStack(o) THEN 1 ELSE 0)
<1> DEFINE u == AfterValue(t, o).stack
<1>1. /\ IsSequence(u)
      /\ u = IF FromStack(o) /\ t.stack # <<>> THEN Front(t.stack) ELSE t.stack
    BY AfterValueIs DEF IsMachine
<1> HIDE DEF u
<1>2. IsSequence(t.stack) /\ Len(s) \in Nat /\ Len(t.stack) \in Nat /\ (t.stack = <<>> <=> Len(t.stack) = 0)
    BY StackLength DEF IsMachine
<1>3. CASE FromStack(o) /\ k + 1 < Len(s)
  <2>1. Len(t.stack) = Len(s) - k /\ \A i \in 1..Len(t.stack) : t.stack[i] = s[i]
      BY <1>2, <1>3 DEF Taken
  <2>2. t.stack # <<>>
      BY <1>2, <1>3, <2>1
  <2>3. Len(u) = Len(t.stack) - 1 /\ \A i \in 1..(Len(t.stack) - 1) : u[i] = t.stack[i]
      BY <1>1, <1>2, <1>3, <2>2, Popped
  <2>4. Len(u) = Len(s) - (k + 1)
      BY <1>2, <2>1, <2>3
  <2>5. \A i \in 1..Len(u) : i \in 1..(Len(t.stack) - 1) /\ i \in 1..Len(t.stack)
      BY <1>2, <2>3
  <2>6. Taken(u, s, k + 1)
      BY <1>1, <2>1, <2>3, <2>4, <2>5 DEF Taken
  <2> QED
      BY <1>3, <2>6 DEF u
<1>4. CASE FromStack(o) /\ ~(k + 1 < Len(s))
    BY <1>1, <1>4 DEF Taken, u
<1>5. CASE ~FromStack(o)
  <2>1. u = t.stack /\ k + 0 = k
      BY <1>1, <1>5
  <2> QED
      BY <1>5, <2>1 DEF u
<1> QED
    BY <1>3, <1>4, <1>5

\* An instruction that evaluates its operands takes one value for each that asks for it.
LEMMA EvaluatedTakes ==
    ASSUME NEW s, IsMachine(s), NEW operands, Len(operands) \in Nat,
           DOMAIN operands = 1..Len(operands)
    PROVE  LET t == Evaluated(s, operands).s
           IN /\ IsMachine(t) /\ t.memory = s.memory /\ t.pc = s.pc
              /\ Taken(t.stack, s.stack, StackOperands(operands))
<1> DEFINE n == Len(operands)
<1>1. PICK f : Evaluation(f, s, operands)
    BY EvaluatedUnfolds
<1> DEFINE Told(k) == /\ IsMachine(f[k]) /\ f[k].memory = s.memory /\ f[k].pc = s.pc
                      /\ Taken(f[k].stack, s.stack, Asked(operands, k))
           T == {k \in 0..n : ~Told(k)}
<1>2. f[0] = s /\ \A k \in 1..n : f[k] = AfterValue(f[k - 1], operands[k])
    BY <1>1 DEF Evaluation
<1>3. Evaluated(s, operands).s = f[n]
    BY <1>1 DEF Evaluation
<1>4. IsSequence(s.stack) /\ Len(s.stack) \in Nat /\ n \in Nat
    BY StackLength DEF IsMachine
<1>5. Told(0)
  <2>1. Asked(operands, 0) = 0
      BY AskedIs
  <2>2. Taken(s.stack, s.stack, 0)
      BY <1>4 DEF Taken
  <2> QED
      BY <1>2, <2>1, <2>2
<1>6. ASSUME NEW k \in 1..n, Told(k - 1) PROVE Told(k)
  <2>1. k - 1 \in Nat /\ (k - 1) + 1 = k
      BY <1>4
  <2>2. /\ Asked(operands, k - 1) \in Nat
        /\ Asked(operands, k) = Asked(operands, k - 1) + IF FromStack(operands[k]) THEN 1 ELSE 0
      BY <2>1, AskedIs
  <2>3. f[k] = AfterValue(f[k - 1], operands[k])
      BY <1>2
  <2>4. IsMachine(f[k]) /\ f[k].memory = s.memory /\ f[k].pc = s.pc
      BY <1>6, <2>3, AfterValueIs
  <2>5. Taken(f[k].stack, s.stack, Asked(operands, k))
      BY <1>4, <1>6, <2>2, <2>3, TakesOneMore
  <2> QED
      BY <2>4, <2>5
<1> HIDE DEF Told, n
<1>7. ASSUME T # {} PROVE FALSE
  <2>1. T \subseteq Nat
      BY <1>4
  <2>2. PICK k \in T : \A j \in T : k <= j
      BY <1>7, <2>1, LeastElement
  <2>3. k \in 0..n /\ ~Told(k) /\ k # 0
      BY <1>5, <2>2
  <2>4. k \in 1..n /\ k - 1 \in 0..n /\ ~(k <= k - 1)
      BY <1>4, <2>3
  <2>5. Told(k - 1)
      BY <2>2, <2>4
  <2> QED
      BY <1>6, <2>3, <2>4, <2>5
<1>8. Told(n)
  <2>1. n \in 0..n
      BY <1>4
  <2> QED
      BY <1>7, <2>1
<1>9. StackOperands(operands) = Asked(operands, n)
    BY AskedOfAll DEF n
<1> QED
    BY <1>3, <1>8, <1>9 DEF Told

-----------------------------------------------------------------------------
(* Instructions.                                                            *)

\* The operands are a sequence.
IsInstruction(op) ==
    /\ {"count", "number", "operands", "next"} \subseteq DOMAIN op
    /\ IsSequence(op.operands)

LEMMA OperandsOf ==
    ASSUME NEW op, IsInstruction(op)
    PROVE  Len(op.operands) \in Nat /\ DOMAIN op.operands = 1..Len(op.operands)
BY DEF IsInstruction, IsSequence

LEMMA OperandsAre ==
    ASSUME NEW m, NEW a, NEW types, Len(types) \in Nat
    PROVE  IsSequence(Operands(m, a, types).operands)
<1> DEFINE n == Len(types)
           at(k) == a + (k - 1) + Cardinality({i \in 1..(k - 1) : types[i] = 0})
           Operand(k) == [type |-> types[k],
                          value |-> IF types[k] = 0 THEN ReadHalfWord(m, at(k)) ELSE m[at(k)]]
<1>1. Operands(m, a, types).operands = [k \in 1..n |-> Operand(k)]
    BY Zenon DEF Operands
<1> HIDE DEF Operand
<1>2. [k \in 1..n |-> Operand(k)] \in Seq({Operand(k) : k \in 1..n})
    OBVIOUS
<1> QED
    BY <1>1, <1>2 DEF IsSequence

LEMMA GivenIs ==
    ASSUME NEW S, NEW types \in Seq(S)
    PROVE  Len(Given(types)) \in Nat
<1> DEFINE omitted == {i \in DOMAIN types : types[i] = 3}
<1>1. Given(types) = IF omitted = {} THEN types ELSE SubSeq(types, 1, Min(omitted) - 1)
    BY DEF Given
<1>2. omitted \subseteq Nat /\ omitted \subseteq 1..Len(types) /\ Len(types) \in Nat
    OBVIOUS
<1> HIDE DEF omitted
<1>3. ASSUME omitted # {} PROVE Min(omitted) \in omitted
    BY <1>2, <1>3, LeastElement DEF Min
<1>4. ASSUME omitted # {} PROVE Len(SubSeq(types, 1, Min(omitted) - 1)) \in Nat
  <2>1. Min(omitted) - 1 \in 0..Len(types)
    <3>1. \A i \in omitted : i - 1 \in 0..Len(types)
        BY <1>2
    <3> QED
        BY <1>3, <1>4, <3>1
  <2> QED
      BY <2>1
<1> QED
    BY <1>1, <1>2, <1>4

LEMMA ParseOpcodeIs ==
    ASSUME NEW v, NEW m, NEW a
    PROVE  IsInstruction(ParseOpcode(v, m, a))
<1> DEFINE IsParsed(p) == IsSequence(p.operands)
<1>1. ASSUME NEW b, NEW c PROVE Types(b) \in Seq({Types(b)[i] : i \in 1..4}) /\ Len(Types(b)) = 4
    BY DEF Types
<1>2. ASSUME NEW b, NEW types, Len(types) \in Nat PROVE IsParsed(Operands(m, b, types))
    BY <1>2, OperandsAre
<1>3. ASSUME NEW b, NEW count, NEW number PROVE IsParsed(VariableOperands(m, b, count, number))
  <2> DEFINE one == Types(m[b])
             two == Types(m[b + 1])
             S == {one[i] : i \in 1..4} \cup {two[i] : i \in 1..4}
  <2>1. one \in Seq(S) /\ two \in Seq(S)
      BY DEF Types
  <2> HIDE DEF one, two, S
  <2>2. one \o two \in Seq(S)
      BY <2>1
  <2>3. Len(Given(one)) \in Nat /\ Len(Given(one \o two)) \in Nat
      BY <2>1, <2>2, GivenIs
  <2>4. IsParsed(Operands(m, b + 2, Given(one \o two))) /\ IsParsed(Operands(m, b + 1, Given(one)))
      BY <1>2, <2>3
  <2> QED
      BY <2>4 DEF VariableOperands, one, two
<1>4. IsParsed(Operands(m, a + 1, <<>>))
    BY <1>2
<1>5. ASSUME NEW type PROVE IsParsed(Operands(m, a + 1, <<type>>))
    BY <1>2
<1>6. ASSUME NEW one, NEW two PROVE IsParsed(Operands(m, a + 1, <<one, two>>))
    BY <1>2
<1> HIDE DEF IsParsed
<1> DEFINE Opcode(count, number, parsed) ==
               [count |-> count, number |-> number, operands |-> parsed.operands,
                next |-> parsed.next]
           Result(r) == \E count, number, parsed : IsParsed(parsed) /\ r = Opcode(count, number, parsed)
           byte == m[a]
           Long(bit) == IF (byte \div bit) % 2 = 1 THEN 2 ELSE 1
           count2 == IF (byte \div 32) % 2 = 0 THEN "OP2" ELSE "VAR"
           type == (byte \div 16) % 4
           ext == Opcode("EXT", m[a + 1], VariableOperands(m, a + 2, "EXT", m[a + 1]))
           var == Opcode(count2, byte % 32, VariableOperands(m, a + 1, count2, byte % 32))
           short == Opcode(IF type = 3 THEN "OP0" ELSE "OP1", byte % 16,
                           Operands(m, a + 1, IF type = 3 THEN <<>> ELSE <<type>>))
           long == Opcode("OP2", byte % 32, Operands(m, a + 1, <<Long(64), Long(32)>>))
<1>7. \A count, number, parsed : IsParsed(parsed) => Result(Opcode(count, number, parsed))
    OBVIOUS
<1>8. ParseOpcode(v, m, a) \in {ext, var, short, long}
  <2>1. ParseOpcode(v, m, a) =
          CASE byte = 190 /\ v >= 5 -> ext
            [] byte >= 192 -> var
            [] byte \in 128..191 /\ ~(byte = 190 /\ v >= 5) -> short
            [] OTHER -> long
      BY Zenon DEF ParseOpcode
  <2> HIDE DEF ext, var, short, long
  <2> QED
      BY <2>1
<1>9. Result(ext) /\ Result(var) /\ Result(long)
    BY <1>3, <1>6, <1>7, Zenon
<1>10. Result(short)
  <2>1. CASE type = 3
      BY <1>4, <1>7, <2>1
  <2>2. CASE type # 3
      BY <1>5, <1>7, <2>2
  <2> QED
      BY <2>1, <2>2
<1> HIDE DEF ext, var, short, long, Result
<1>11. Result(ParseOpcode(v, m, a))
    BY <1>8, <1>9, <1>10
<1> QED
    BY <1>11 DEF IsInstruction, IsParsed, Result

\* What an instruction takes from the stack and gives to it.
TakenBy(op) ==
    StackOperands(op.operands) + IF Is(op, "VAR", {9}) \/ Is(op, "OP0", {9}) THEN 1 ELSE 0
GivenBy(op) ==
    IF Is(op, "VAR", {8}) \/ (HasResult(op) /\ memory[op.next] = 0) THEN 1 ELSE 0

\* The machine w is one an instruction may leave: balanced, or halted.
Works(op, w) == IsMachine(w) /\ (~w.halted => Balanced(w.stack, stack, TakenBy(op), GivenBy(op)))

LEMMA NowIs ==
    ASSUME IsSequence(stack), NEW a
    PROVE  LET s == [Now EXCEPT !.pc = a]
           IN IsMachine(s) /\ s.stack = stack /\ s.memory = memory /\ s.pc = a
BY DEF Now, IsMachine, Fields

LEMMA StackOperandsAre ==
    ASSUME NEW operands, Len(operands) \in Nat, DOMAIN operands = 1..Len(operands)
    PROVE  StackOperands(operands) \in Nat
BY AskedOfAll, AskedIs

LEMMA AfterIs ==
    ASSUME IsSequence(stack), NEW op, IsInstruction(op)
    PROVE  LET t == After(Now, op)
           IN /\ IsMachine(t) /\ t.memory = memory /\ t.pc = op.next
              /\ StackOperands(op.operands) \in Nat
              /\ Taken(t.stack, stack, StackOperands(op.operands))
<1> DEFINE s == [Now EXCEPT !.pc = op.next]
<1>1. IsMachine(s) /\ s.stack = stack /\ s.memory = memory /\ s.pc = op.next
    BY NowIs
<1>2. After(Now, op) = Evaluated(s, op.operands).s
    BY DEF After
<1> HIDE DEF s
<1>3. Len(op.operands) \in Nat /\ DOMAIN op.operands = 1..Len(op.operands)
    BY OperandsOf
<1> QED
    BY <1>1, <1>2, <1>3, EvaluatedTakes, StackOperandsAre

\* The instruction with its first operand alone.
LEMMA FirstIs ==
    ASSUME NEW op, IsInstruction(op), Len(op.operands) >= 1
    PROVE  LET first == [op EXCEPT !.operands = <<Head(@)>>]
           IN /\ IsInstruction(first) /\ first.next = op.next
              /\ first.operands = <<op.operands[1]>>
              /\ StackOperands(first.operands) = IF FromStack(op.operands[1]) THEN 1 ELSE 0
<1> DEFINE one == <<op.operands[1]>>
           first == [op EXCEPT !.operands = <<Head(@)>>]
<1>1. first = [op EXCEPT !.operands = one]
  <2>1. Head(op.operands) = op.operands[1]
      BY DEF IsInstruction, IsSequence
  <2> QED
      BY <2>1
<1>2. Len(one) = 1 /\ DOMAIN one = 1..1 /\ one[1] = op.operands[1]
    OBVIOUS
<1> HIDE DEF one, first
<1>3. IsSequence(one)
  <2>1. one \in Seq({op.operands[1]})
      BY DEF one
  <2> QED
      BY <2>1 DEF IsSequence
<1>4. first.operands = one /\ first.next = op.next /\ IsInstruction(first)
    BY <1>1, <1>2, <1>3 DEF IsInstruction
<1>5. StackOperands(one) = Asked(one, 0 + 1) /\ Asked(one, 0) = 0
  <2>1. DOMAIN one = 1..Len(one) /\ Len(one) = 0 + 1
      BY <1>2
  <2> QED
      BY <2>1, AskedOfAll, AskedIs
<1>6. Asked(one, 0 + 1) = Asked(one, 0) + IF FromStack(one[0 + 1]) THEN 1 ELSE 0
    BY AskedIs
<1> QED
    BY <1>2, <1>4, <1>5, <1>6 DEF one, first

\* Instructions that store a result.
LEMMA StoresWork ==
    ASSUME IsSequence(stack), NEW op, IsInstruction(op), NEW x,
           HasResult(op), ~Is(op, "VAR", {8, 9}), ~Is(op, "OP0", {9})
    PROVE  Works(op, Store(After(Now, op), x))
<1> DEFINE t == After(Now, op)
           k == StackOperands(op.operands)
<1>1. IsMachine(t) /\ t.memory = memory /\ t.pc = op.next /\ k \in Nat /\ Taken(t.stack, stack, k)
    BY AfterIs
<1>2. TakenBy(op) = k /\ GivenBy(op) = StorePushes(t)
    BY <1>1 DEF TakenBy, GivenBy, StorePushes, Is
<1> HIDE DEF t, k
<1>3. IsMachine(Store(t, x)) /\ Balanced(Store(t, x).stack, stack, k, StorePushes(t))
    BY <1>1, StoreIs
<1> QED
    BY <1>2, <1>3 DEF Works, t

\* Instructions that give nothing.
LEMMA OthersWork ==
    ASSUME IsSequence(stack), NEW op, IsInstruction(op),
           ~HasResult(op), ~Is(op, "VAR", {8, 9}), ~Is(op, "OP0", {9}),
           NEW w, IsMachine(w), Balanced(w.stack, stack, StackOperands(op.operands), 0)
    PROVE  Works(op, w)
<1>1. StackOperands(op.operands) \in Nat
    BY OperandsOf, StackOperandsAre
<1>2. TakenBy(op) = StackOperands(op.operands) /\ GivenBy(op) = 0
    BY <1>1 DEF TakenBy, GivenBy, Is
<1> QED
    BY <1>2 DEF Works

LEMMA SameStackWorks ==
    ASSUME IsSequence(stack), NEW op, IsInstruction(op),
           ~HasResult(op), ~Is(op, "VAR", {8, 9}), ~Is(op, "OP0", {9}),
           NEW w, IsMachine(w), w.stack = After(Now, op).stack
    PROVE  Works(op, w)
<1> DEFINE k == StackOperands(op.operands)
<1>1. k \in Nat /\ Taken(w.stack, stack, k)
    BY AfterIs
<1>2. Balanced(w.stack, stack, k, 0)
    BY <1>1, TakenOnly
<1> QED
    BY <1>2, OthersWork

LEMMA ComputeWorks ==
    ASSUME IsSequence(stack), NEW op, IsInstruction(op), IsBinary(op)
    PROVE  Works(op, Compute(Now, op))
<1> DEFINE v == Arguments(Now, op)
           t == After(Now, op)
           x == BinaryResult(op, v[1], v[2])
<1>1. HasResult(op) /\ ~Is(op, "VAR", {8, 9}) /\ ~Is(op, "OP0", {9})
    BY DEF IsBinary, HasResult, Is
<1>2. Works(op, Store(t, x))
    BY <1>1, StoresWork
<1>3. IsMachine(t)
    BY AfterIs
<1>4. Compute(Now, op) = IF ~HasValue(op, v[2]) THEN [t EXCEPT !.halted = TRUE]
                         ELSE Store(t, x)
    BY Zenon DEF Compute
<1> HIDE DEF t, x
<1> DEFINE w == [t EXCEPT !.halted = TRUE]
<1>5. IsMachine(w) /\ w.halted
    BY <1>3 DEF IsMachine, Fields
<1>6. Works(op, w)
    BY <1>5 DEF Works
<1> HIDE DEF w
<1>7. Compute(Now, op) = w \/ Compute(Now, op) = Store(t, x)
    BY <1>4 DEF w
<1> QED
    BY <1>2, <1>6, <1>7

LEMMA NotWorks ==
    ASSUME IsSequence(stack), NEW op, IsInstruction(op), IsNot(Now, op)
    PROVE  Works(op, Complement(Now, op))
<1>1. HasResult(op) /\ ~Is(op, "VAR", {8, 9}) /\ ~Is(op, "OP0", {9})
    BY DEF IsNot, Now, HasResult, Is
<1> QED
    BY <1>1, StoresWork DEF Complement

LEMMA LoadWorks ==
    ASSUME IsSequence(stack), NEW op, IsInstruction(op), Is(op, "OP1", {14})
    PROVE  Works(op, Load(Now, op))
<1>1. HasResult(op) /\ ~Is(op, "VAR", {8, 9}) /\ ~Is(op, "OP0", {9})
    BY DEF HasResult, Is
<1> QED
    BY <1>1, StoresWork DEF Load

\* These branch, jump or do nothing.
LEMMA BranchesWork ==
    ASSUME IsSequence(stack), NEW op, IsInstruction(op),
           IsTest(op) \/ Is(op, "OP1", {12}) \/ Is(op, "OP0", {4})
    PROVE  /\ Works(op, Test(Now, op)) /\ Works(op, Jump(Now, op)) /\ Works(op, After(Now, op))
           /\ Works(op, [After(Now, op) EXCEPT !.halted = TRUE])
<1>1. ~HasResult(op) /\ ~Is(op, "VAR", {8, 9}) /\ ~Is(op, "OP0", {9})
    BY DEF IsTest, HasResult, Is
<1> DEFINE t == After(Now, op)
           j == Jump(Now, op)
<1>2. IsMachine(t)
    BY AfterIs
<1>3. IsMachine(Test(Now, op)) /\ Test(Now, op).stack = t.stack
    BY <1>2, HandleBranchIs DEF Test
<1>4. IsMachine(j) /\ j.stack = t.stack
  <2>1. \E a : j = [t EXCEPT !.pc = a]
      BY DEF Jump
  <2> HIDE DEF j, t
  <2> QED
      BY <1>2, <2>1 DEF IsMachine, Fields
<1> DEFINE h == [t EXCEPT !.halted = TRUE]
<1>5. IsMachine(h) /\ h.halted
  <2> HIDE DEF t
  <2> QED
      BY <1>2 DEF IsMachine, Fields
<1>6. Works(op, h)
    BY <1>5 DEF Works
<1> QED
    BY <1>1, <1>2, <1>3, <1>4, <1>6, SameStackWorks

LEMMA AccessWorks ==
    ASSUME IsSequence(stack), NEW op, IsInstruction(op), IsAccess(op)
    PROVE  Works(op, Access(Now, op))
<1> DEFINE t == After(Now, op)
           w == Access(Now, op)
           v == Arguments(Now, op)
           a == Address(op, v)
           word == WriteHalfWord(t.memory, a, v[3])
           byte == WriteZByte(t.memory, a, v[3])
<1>1. IsMachine(t)
    BY AfterIs
<1>2. w = CASE a \notin DOMAIN Now.memory -> [t EXCEPT !.halted = TRUE]
            [] a \in DOMAIN Now.memory /\ Is(op, "OP2", {15}) ->
                 Store(t, ReadHalfWord(Now.memory, a))
            [] a \in DOMAIN Now.memory /\ Is(op, "OP2", {16}) -> Store(t, Now.memory[a])
            [] a \in DOMAIN Now.memory /\ Is(op, "VAR", {1}) -> [t EXCEPT !.memory = word]
            [] a \in DOMAIN Now.memory /\ Is(op, "VAR", {2}) -> [t EXCEPT !.memory = byte]
    BY Zenon DEF Access
<1> HIDE DEF w, a, word, byte, t
<1>3. CASE a \notin DOMAIN Now.memory
  <2>1. w = [t EXCEPT !.halted = TRUE]
      BY <1>2, <1>3
  <2> QED
      BY <1>1, <2>1 DEF w, Works, IsMachine, Fields
<1>4. CASE a \in DOMAIN Now.memory /\ Is(op, "OP2", {15, 16})
  <2>1. HasResult(op) /\ ~Is(op, "VAR", {8, 9}) /\ ~Is(op, "OP0", {9})
      BY <1>4 DEF HasResult, Is
  <2>2. \E x : w = Store(t, x)
      BY <1>2, <1>4 DEF Is
  <2> QED
      BY <2>1, <2>2, StoresWork DEF w, t
<1>5. CASE a \in DOMAIN Now.memory /\ Is(op, "VAR", {1, 2})
  <2>1. ~HasResult(op) /\ ~Is(op, "VAR", {8, 9}) /\ ~Is(op, "OP0", {9})
      BY <1>5 DEF HasResult, Is
  <2>2. w = [t EXCEPT !.memory = word] \/ w = [t EXCEPT !.memory = byte]
      BY <1>2, <1>5 DEF Is
  <2>3. IsMachine(w) /\ w.stack = t.stack
      BY <1>1, <2>2 DEF IsMachine, Fields
  <2> QED
      BY <2>1, <2>3, SameStackWorks DEF w, t
<1> QED
    BY <1>3, <1>4, <1>5 DEF IsAccess, Is, w

LEMMA AssignWorks ==
    ASSUME IsSequence(stack), NEW op, IsInstruction(op), Is(op, "OP2", {13})
    PROVE  Works(op, Assign(Now, op))
<1> DEFINE t == After(Now, op)
           k == StackOperands(op.operands)
           v == Arguments(Now, op)
<1>1. ~HasResult(op) /\ ~Is(op, "VAR", {8, 9}) /\ ~Is(op, "OP0", {9})
    BY DEF HasResult, Is
<1>2. IsMachine(t) /\ k \in Nat /\ Taken(t.stack, stack, k)
    BY AfterIs
<1>3. Assign(Now, op) = WriteVariable(t, v[1] % 256, v[2], TRUE)
    BY Zenon DEF Assign
<1> HIDE DEF t, v, k
<1>4. IsMachine(Assign(Now, op)) /\ Balanced(Assign(Now, op).stack, stack, k, 0)
    BY <1>2, <1>3, WriteIndirectIs, Zenon
<1> QED
    BY <1>1, <1>4, OthersWork DEF k

LEMMA PullWorks ==
    ASSUME IsSequence(stack), NEW op, IsInstruction(op), Is(op, "VAR", {9})
    PROVE  Works(op, Pull(Now, op))
<1> DEFINE t == After(Now, op)
           p == Pop(t)
           k == StackOperands(op.operands)
           v == Arguments(Now, op)
           top == [type |-> 2, value |-> 0]
<1>1. IsMachine(t) /\ k \in Nat /\ Taken(t.stack, stack, k)
    BY AfterIs
<1>2. Pull(Now, op) = WriteVariable(p, v[1] % 256, Peek(t), TRUE)
    BY Zenon DEF Pull
<1>3. TakenBy(op) = k + 1 /\ GivenBy(op) = 0
  <2>1. ~HasResult(op) /\ ~Is(op, "VAR", {8})
      BY DEF HasResult, Is
  <2> HIDE DEF k
  <2>2. TakenBy(op) = k + 1
      BY DEF TakenBy, k
  <2> QED
      BY <2>1, <2>2 DEF GivenBy
<1> HIDE DEF t, v, k
<1>4. FromStack(top) /\ p = AfterValue(t, top)
    BY DEF FromStack, AfterValue, AfterRead
<1> HIDE DEF top, p
<1>5. IsMachine(p) /\ Taken(p.stack, stack, k + 1)
    BY <1>1, <1>4, AfterValueIs, TakesOneMore
<1>6. k + 1 \in Nat
    BY <1>1
<1>7. IsMachine(Pull(Now, op)) /\ Balanced(Pull(Now, op).stack, stack, k + 1, 0)
    BY <1>2, <1>5, <1>6, WriteIndirectIs, Zenon
<1> QED
    BY <1>3, <1>7 DEF Works

LEMMA DiscardWorks ==
    ASSUME IsSequence(stack), NEW op, IsInstruction(op), Is(op, "OP0", {9})
    PROVE  Works(op, Discard(Now, op))
<1> DEFINE t == After(Now, op)
           p == Pop(t)
           k == StackOperands(op.operands)
           top == [type |-> 2, value |-> 0]
<1>1. IsMachine(t) /\ k \in Nat /\ Taken(t.stack, stack, k)
    BY AfterIs
<1>2. Discard(Now, op) = p
    BY DEF Discard
<1>3. TakenBy(op) = k + 1 /\ GivenBy(op) = 0
    BY DEF TakenBy, GivenBy, HasResult, Is
<1> HIDE DEF t, k
<1>4. FromStack(top) /\ p = AfterValue(t, top)
    BY DEF FromStack, AfterValue, AfterRead
<1> HIDE DEF top, p
<1>5. IsMachine(p) /\ Taken(p.stack, stack, k + 1)
    BY <1>1, <1>4, AfterValueIs, TakesOneMore
<1>6. Balanced(p.stack, stack, k + 1, 0)
    BY <1>1, <1>5, TakenOnly
<1> QED
    BY <1>2, <1>3, <1>5, <1>6 DEF Works

LEMMA PushWorks ==
    ASSUME IsSequence(stack), NEW op, IsInstruction(op), Is(op, "VAR", {8})
    PROVE  Works(op, PushValue(Now, op))
<1> DEFINE t == After(Now, op)
           k == StackOperands(op.operands)
           x == Arguments(Now, op)[1]
           w == Push(t, x)
<1>1. IsMachine(t) /\ k \in Nat /\ Taken(t.stack, stack, k)
    BY AfterIs
<1>2. PushValue(Now, op) = w
    BY DEF PushValue
<1>3. TakenBy(op) = k /\ GivenBy(op) = 1
    BY <1>1 DEF TakenBy, GivenBy, Is
<1> HIDE DEF t, k, x
<1>4. IsMachine(w) /\ w.stack = Append(t.stack, x)
    BY <1>1, PushIs
<1> HIDE DEF w
<1>5. /\ Len(w.stack) = Len(t.stack) + 1
      /\ \A i \in 1..Len(t.stack) : w.stack[i] = t.stack[i]
    BY <1>1, <1>4, Pushed DEF IsMachine
<1>6. Len(stack) \in Nat
    BY StackLength
<1>7. Balanced(w.stack, stack, k, 1)
    BY <1>1, <1>4, <1>5, <1>6 DEF Taken, Balanced, IsMachine
<1> QED
    BY <1>2, <1>3, <1>4, <1>7 DEF Works

\* The operand of a CHECK_UNICODE that says nothing.
CharacterZero == <<0>>

LEMMA CheckUnicodeWorks ==
    ASSUME IsSequence(stack), NEW op, IsInstruction(op), Is(op, "EXT", {12}),
           Len(op.operands) = 1
    PROVE  /\ IsMachine(CheckUnicode(Now, op))
           /\ Arguments(Now, op) # CharacterZero => Works(op, CheckUnicode(Now, op))
<1> DEFINE v == Arguments(Now, op)
<1>1. \E x : v = <<x>>
  <2>1. PICK f : Evaluation(f, Now, op.operands)
      BY EvaluatedUnfolds, OperandsOf
  <2>2. v = [k \in 1..1 |-> Value(f[k - 1], op.operands[k])]
      BY <2>1 DEF Evaluation, Arguments
  <2>3. v = <<v[1]>>
    <3>1. DOMAIN v = 1..1
        BY <2>2
    <3> QED
        BY <2>2, <3>1
  <2> QED
      BY <2>3
<1>2. v # CharacterZero => v[1] # 0
    BY <1>1 DEF CharacterZero
<1>3. HasResult(op) /\ ~Is(op, "VAR", {8, 9}) /\ ~Is(op, "OP0", {9})
    BY DEF HasResult, Is
<1>4. Works(op, Store(After(Now, op), 3))
    BY <1>3, StoresWork
<1>5. IsMachine(After(Now, op))
    BY AfterIs
<1> QED
    BY <1>2, <1>4, <1>5 DEF CheckUnicode, Works

LEMMA OneMoreOfBalanced ==
    ASSUME NEW w, IsMachine(w), NEW o, NEW s, IsSequence(s), NEW k \in Nat,
           Balanced(w.stack, s, k, 0)
    PROVE  Balanced(AfterValue(w, o).stack, s, k + IF FromStack(o) THEN 1 ELSE 0, 0)
<1> DEFINE u == AfterValue(w, o).stack
<1>1. /\ IsSequence(u)
      /\ u = IF FromStack(o) /\ w.stack # <<>> THEN Front(w.stack) ELSE w.stack
    BY AfterValueIs DEF IsMachine
<1> HIDE DEF u
<1>2. /\ IsSequence(w.stack) /\ Len(s) \in Nat /\ Len(w.stack) \in Nat
      /\ w.stack = <<>> <=> Len(w.stack) = 0
    BY StackLength DEF IsMachine
<1>3. CASE FromStack(o) /\ k + 1 < Len(s)
  <2>1. /\ Len(w.stack) = Len(s) - k
        /\ \A i \in 1..(Len(s) - k - 1) : w.stack[i] = s[i]
      BY <1>2, <1>3 DEF Balanced
  <2>2. w.stack # <<>>
      BY <1>2, <1>3, <2>1
  <2>3. Len(u) = Len(w.stack) - 1 /\ \A i \in 1..(Len(w.stack) - 1) : u[i] = w.stack[i]
      BY <1>1, <1>2, <1>3, <2>2, Popped
  <2>4. Len(u) = Len(s) - (k + 1) + 0
      BY <1>2, <2>1, <2>3
  <2>5. \A i \in 1..(Len(s) - (k + 1) - 1) :
           i \in 1..(Len(w.stack) - 1) /\ i \in 1..(Len(s) - k - 1)
      BY <1>2, <2>1
  <2>6. Balanced(u, s, k + 1, 0)
      BY <1>1, <2>1, <2>3, <2>4, <2>5 DEF Balanced
  <2> QED
      BY <1>3, <2>6 DEF u
<1>4. CASE FromStack(o) /\ ~(k + 1 < Len(s))
    BY <1>1, <1>4 DEF Balanced, u
<1>5. CASE ~FromStack(o)
  <2>1. u = w.stack /\ k + 0 = k
      BY <1>1, <1>5
  <2> QED
      BY <1>5, <2>1 DEF u
<1> QED
    BY <1>3, <1>4, <1>5

LEMMA FewOperands ==
    ASSUME NEW operands, DOMAIN operands = 1..Len(operands)
    PROVE  LET one == IF FromStack(operands[1]) THEN 1 ELSE 0
               two == IF FromStack(operands[2]) THEN 1 ELSE 0
           IN /\ Len(operands) = 1 => StackOperands(operands) = one
              /\ Len(operands) = 2 => StackOperands(operands) = one + two
<1>1. /\ Asked(operands, 0) = 0
      /\ Asked(operands, 0 + 1) = Asked(operands, 0) + IF FromStack(operands[0 + 1]) THEN 1 ELSE 0
      /\ Asked(operands, 1 + 1) = Asked(operands, 1) + IF FromStack(operands[1 + 1]) THEN 1 ELSE 0
    BY AskedIs
<1>2. StackOperands(operands) = Asked(operands, Len(operands))
    BY AskedOfAll
<1> QED
    BY <1>1, <1>2

LEMMA StepTakes ==
    ASSUME NEW op, IsStep(op), Len(op.operands) \in Takes(op)
    PROVE  /\ Is(op, "OP1", {5, 6}) => Len(op.operands) = 1
           /\ Is(op, "OP2", {4, 5}) => Len(op.operands) = 2
           /\ Len(op.operands) >= 1
<1>1. ASSUME Is(op, "OP1", {5, 6}) PROVE Takes(op) = {1}
    BY <1>1 DEF Is, Takes
<1>2. ASSUME Is(op, "OP2", {4, 5}) PROVE Takes(op) = {2}
  <2>1. op.count = "OP2" /\ op.number # 1
      BY <1>2 DEF Is
  <2> QED
      BY <2>1 DEF Takes
<1>3. /\ Is(op, "OP1", {5, 6}) => Len(op.operands) = 1
      /\ Is(op, "OP2", {4, 5}) => Len(op.operands) = 2
  <2>1. \A n : Takes(op) = {n} => Len(op.operands) = n
      OBVIOUS
  <2> QED
      BY <1>1, <1>2, <2>1
<1>4. Len(op.operands) = 1 \/ Len(op.operands) = 2
    BY <1>3, Zenon DEF IsStep
<1>5. \A n : n = 1 \/ n = 2 => n >= 1
    OBVIOUS
<1> QED
    BY <1>3, <1>4, <1>5, Zenon

LEMMA StepWorks ==
    ASSUME IsSequence(stack), NEW op, IsInstruction(op), IsStep(op), Len(op.operands) \in Takes(op)
    PROVE  Works(op, Step(Now, op))
<1> DEFINE first == [op EXCEPT !.operands = <<Head(@)>>]
           c == IF FromStack(op.operands[1]) THEN 1 ELSE 0
           d == IF FromStack(op.operands[2]) THEN 1 ELSE 0
           t == After(Now, first)
           z == op.operands[2]
<1>1. /\ Is(op, "OP1", {5, 6}) => Len(op.operands) = 1
      /\ Is(op, "OP2", {4, 5}) => Len(op.operands) = 2
      /\ Len(op.operands) >= 1
    BY StepTakes
<1>2. IsInstruction(first) /\ StackOperands(first.operands) = c /\ c \in Nat
    BY <1>1, FirstIs
<1>3. ~HasResult(op) /\ ~Is(op, "VAR", {8, 9}) /\ ~Is(op, "OP0", {9})
    BY DEF IsStep, HasResult, Is
<1>4. IsMachine(t) /\ Taken(t.stack, stack, c)
  <2> HIDE DEF first, c
  <2> QED
      BY <1>2, AfterIs
<1>5. \E v, new, result :
         Step(Now, op) = IF op.count = "OP1" THEN WriteVariable(t, v, new, TRUE)
                         ELSE HandleBranch(AfterValue(WriteVariable(t, v, new, TRUE), z), result)
  <2> DEFINE by == IF Is(op, "OP1", {5}) \/ Is(op, "OP2", {5}) THEN 1 ELSE -1
             v == Arguments(Now, first)[1] % 256
             new == Word(ReadVariable(t, v) + by)
             limit == Signed(Value(WriteVariable(t, v, new, TRUE), z))
             result == IF by = 1 THEN Signed(new) > limit ELSE Signed(new) < limit
  <2>1. Step(Now, op) = IF op.count = "OP1" THEN WriteVariable(t, v, new, TRUE)
                        ELSE HandleBranch(AfterValue(WriteVariable(t, v, new, TRUE), z), result)
      BY Zenon DEF Step
  <2> HIDE DEF by, v, new, limit, result, first, t, z
  <2> QED
      BY <2>1
<1>6. PICK v, new, result :
         Step(Now, op) = IF op.count = "OP1" THEN WriteVariable(t, v, new, TRUE)
                         ELSE HandleBranch(AfterValue(WriteVariable(t, v, new, TRUE), z), result)
    BY <1>5
<1> DEFINE w == WriteVariable(t, v, new, TRUE)
           u == AfterValue(w, z)
<1> HIDE DEF first, t
<1>7. IsMachine(w) /\ Balanced(w.stack, stack, c, 0)
    BY <1>2, <1>4, WriteIndirectIs
<1> HIDE DEF w
<1>8. DOMAIN op.operands = 1..Len(op.operands)
    BY OperandsOf
<1>9. CASE op.count = "OP1"
  <2>1. StackOperands(op.operands) = c
      BY <1>1, <1>8, <1>9, FewOperands DEF IsStep, Is
  <2>2. Step(Now, op) = w
      BY <1>6, <1>9 DEF w
  <2> QED
      BY <1>3, <1>7, <2>1, <2>2, OthersWork
<1>10. CASE op.count # "OP1"
  <2>1. StackOperands(op.operands) = c + d
      BY <1>1, <1>8, <1>10, FewOperands DEF IsStep, Is
  <2>2. Step(Now, op) = HandleBranch(u, result)
      BY <1>6, <1>10 DEF w
  <2>3. IsMachine(u) /\ Balanced(u.stack, stack, c + d, 0)
      BY <1>2, <1>7, AfterValueIs, OneMoreOfBalanced
  <2> HIDE DEF u
  <2>4. IsMachine(Step(Now, op)) /\ Step(Now, op).stack = u.stack
      BY <2>2, <2>3, HandleBranchIs
  <2> QED
      BY <1>3, <2>1, <2>3, <2>4, OthersWork
<1> QED
    BY <1>9, <1>10

\* Only the first operand asks for a value.
LEMMA NoneInTail ==
    ASSUME NEW operands, IsSequence(operands), Len(operands) >= 1,
           StackOperands(Tail(operands)) = 0
    PROVE  StackOperands(operands) = IF FromStack(operands[1]) THEN 1 ELSE 0
<1> DEFINE n == Len(operands)
           rest == Tail(operands)
           A == {i \in 1..n : FromStack(operands[i])}
           B == {i \in 1..(n - 1) : FromStack(rest[i])}
<1>1. /\ n \in Nat /\ DOMAIN operands = 1..n
      /\ DOMAIN rest = 1..(n - 1) /\ \A i \in 1..(n - 1) : rest[i] = operands[i + 1]
    BY DEF IsSequence
<1>2. Cardinality(B) = 0 /\ StackOperands(operands) = Cardinality(A)
    BY <1>1 DEF StackOperands, FromStack
<1>3. IsFiniteSet(B)
  <2>1. IsFiniteSet(1..(n - 1)) /\ B \subseteq 1..(n - 1)
      BY <1>1, FS_Interval
  <2> QED
      BY <2>1, FS_Subset
<1>4. B = {}
    BY <1>2, <1>3, FS_EmptySet
<1>5. ASSUME NEW i \in 2..n PROVE ~FromStack(operands[i])
  <2>1. i - 1 \in 1..(n - 1) /\ (i - 1) + 1 = i
      BY <1>1
  <2>2. rest[i - 1] = operands[i] /\ ~FromStack(rest[i - 1])
      BY <1>1, <1>4, <2>1
  <2> QED
      BY <2>2
<1>6. A = IF FromStack(operands[1]) THEN {1} ELSE {}
  <2>1. \A i \in 1..n : i = 1 \/ i \in 2..n
      BY <1>1
  <2>2. 1 \in 1..n
      BY <1>1
  <2> QED
      BY <1>5, <2>1, <2>2
<1> QED
    BY <1>2, <1>6, FS_EmptySet, FS_Singleton

LEMMA CallWorks ==
    ASSUME IsSequence(stack), NEW op, IsInstruction(op), IsCall(Now, op),
           Len(op.operands) \in Takes(op), version \in Int
    PROVE  /\ IsMachine(CallNothing(Now, op))
           /\ StackOperands(Tail(op.operands)) = 0 => Works(op, CallNothing(Now, op))
<1> DEFINE first == [op EXCEPT !.operands = <<Head(@)>>]
           c == IF FromStack(op.operands[1]) THEN 1 ELSE 0
           t == After(Now, first)
           procedure == Is(op, "VAR", {25, 26}) \/ Is(op, "OP2", {26}) \/ Is(op, "OP1", {15})
<1>1. Len(op.operands) >= 1
    BY DEF IsCall, Is, Takes
<1>2. /\ IsInstruction(first) /\ StackOperands(first.operands) = c /\ c \in Nat
      /\ first.next = op.next
    BY <1>1, FirstIs
<1>3. ~Is(op, "VAR", {8, 9}) /\ ~Is(op, "OP0", {9})
    BY DEF IsCall, Is
<1>4. procedure <=> ~HasResult(op)
    BY DEF IsCall, HasResult, Is, Now
<1>5. IsMachine(t) /\ t.memory = memory /\ t.pc = op.next /\ Taken(t.stack, stack, c)
  <2> HIDE DEF first, c
  <2> QED
      BY <1>2, AfterIs
<1>6. CallNothing(Now, op) = IF procedure THEN t ELSE Store(t, 0)
    BY Zenon DEF CallNothing
<1> HIDE DEF first, t
<1>7. ASSUME StackOperands(Tail(op.operands)) = 0
      PROVE  /\ TakenBy(op) = c
             /\ GivenBy(op) = IF procedure THEN 0 ELSE StorePushes(t)
  <2>1. StackOperands(op.operands) = c
      BY <1>1, <1>7, NoneInTail DEF IsInstruction
  <2>2. TakenBy(op) = c
      BY <1>2, <1>3, <2>1 DEF TakenBy, Is
  <2>3. GivenBy(op) = IF procedure THEN 0 ELSE StorePushes(t)
      BY <1>3, <1>4, <1>5 DEF GivenBy, StorePushes, Is
  <2> QED
      BY <2>2, <2>3
<1> HIDE DEF procedure, c
<1>8. CASE procedure
  <2>1. Balanced(t.stack, stack, c, 0)
      BY <1>2, <1>5, TakenOnly
  <2> QED
      BY <1>5, <1>6, <1>7, <1>8, <2>1 DEF Works
<1>9. CASE ~procedure
  <2>1. IsMachine(Store(t, 0)) /\ Balanced(Store(t, 0).stack, stack, c, StorePushes(t))
      BY <1>2, <1>5, StoreIs
  <2> QED
      BY <1>6, <1>7, <1>9, <2>1 DEF Works
<1> QED
    BY <1>8, <1>9

-----------------------------------------------------------------------------
(* The stack stays a stack, and balanced.                                   *)

StackInv == story.program = "code" => IsSequence(stack)

LEMMA SameBeginning ==
    ASSUME NEW u, IsSequence(u), NEW v, IsSequence(v), NEW n \in Nat, n <= Len(u), n <= Len(v),
           \A i \in 1..n : u[i] = v[i]
    PROVE  SubSeq(u, 1, n) = SubSeq(v, 1, n)
<1>1. /\ Len(SubSeq(u, 1, n)) = n /\ SubSeq(u, 1, n) \in Seq({u[i] : i \in 1..n})
      /\ \A i \in 1..n : SubSeq(u, 1, n)[i] = u[i]
  <2>1. PICK S : u \in Seq(S)
      BY DEF IsSequence
  <2> QED
      BY <2>1
<1>2. /\ Len(SubSeq(v, 1, n)) = n /\ SubSeq(v, 1, n) \in Seq({v[i] : i \in 1..n})
      /\ \A i \in 1..n : SubSeq(v, 1, n)[i] = v[i]
  <2>1. PICK S : v \in Seq(S)
      BY DEF IsSequence
  <2> QED
      BY <2>1
<1> DEFINE p == SubSeq(u, 1, n)
           q == SubSeq(v, 1, n)
<1> HIDE DEF p, q
<1>3. p = [i \in 1..n |-> p[i]] /\ q = [i \in 1..n |-> q[i]]
    BY <1>1, <1>2 DEF p, q
<1>4. \A i \in 1..n : p[i] = q[i]
    BY <1>1, <1>2 DEF p, q
<1>5. p = q
    BY <1>3, <1>4
<1> QED
    BY <1>5 DEF p, q

\* An instruction that works balances the stack.
LEMMA WorksBalances ==
    ASSUME IsSequence(stack), NEW op, IsInstruction(op), last'.args = op,
           NEW w, stack' = w.stack, halted' = w.halted, IsMachine(w),
           /\ Said(op)
           /\ IsCall(Now, op) => StackOperands(Tail(op.operands)) = 0
           => Works(op, w)
    PROVE  IsSequence(stack') /\ BalancesTheStack
<1> DEFINE taken == TakenBy(op)
           given == GivenBy(op)
           left == Len(stack) - taken
<1>1. IsSequence(stack')
    BY DEF IsMachine
<1>2. ASSUME ~halted', left >= 1, Said(op), IsCall(Now, op) => StackOperands(Tail(op.operands)) = 0
      PROVE  /\ Len(stack') = left + given
             /\ SubSeq(stack', 1, left - 1) = SubSeq(stack, 1, left - 1)
  <2>1. taken \in Nat /\ given \in {0, 1} /\ Len(stack) \in Nat
    <3>1. StackOperands(op.operands) \in Nat
        BY OperandsOf, StackOperandsAre
    <3> QED
        BY <3>1, StackLength DEF TakenBy, GivenBy
  <2>2. Balanced(stack', stack, taken, given)
      BY <1>2 DEF Works
  <2> HIDE DEF taken, given
  <2>3. taken < Len(stack) /\ left - 1 = Len(stack) - taken - 1
      BY <1>2, <2>1
  <2>4. Len(stack') = left + given /\ \A i \in 1..(left - 1) : stack'[i] = stack[i]
      BY <2>2, <2>3 DEF Balanced
  <2>5. left - 1 \in Nat /\ left - 1 <= Len(stack) /\ left - 1 <= Len(stack')
      BY <1>2, <2>1, <2>4
  <2> QED
      BY <1>1, <2>4, <2>5, SameBeginning
<1>3. BalancesTheStack
    BY <1>2, Zenon DEF BalancesTheStack, TakenBy, GivenBy
<1> QED
    BY <1>1, <1>3

LEMMA ExecutesBalances ==
    ASSUME IsSequence(stack), NEW w, NEW result, Executes(w, result), IsMachine(w),
           /\ Is(Fetched, "EXT", {12}) => result # CharacterZero
           /\ IsCall(Now, Fetched) => StackOperands(Tail(Fetched.operands)) = 0
           => Works(Fetched, w)
    PROVE  IsSequence(stack') /\ BalancesTheStack
<1>1. /\ last' = [name |-> Fetched.count, args |-> Fetched, result |-> result]
      /\ stack' = w.stack /\ halted' = w.halted
    BY Counts DEF Executes
<1>2. last'.args = Fetched /\ last'.result = result
    BY <1>1
<1>3. IsInstruction(Fetched)
    BY ParseOpcodeIs DEF Fetched
<1>4. Said(Fetched) => (Is(Fetched, "EXT", {12}) => result # CharacterZero)
    BY <1>2 DEF Said, CharacterZero
<1> QED
    BY <1>1, <1>2, <1>3, <1>4, WorksBalances

LEMMA LiteralBalances ==
    ASSUME IsSequence(stack), LiteralOp
    PROVE  IsSequence(stack') /\ BalancesTheStack
<1>1. last' = [name |-> Fetched.count, args |-> Fetched, result |-> NoResult] /\ stack' = stack
    BY Counts DEF LiteralOp
<1>2. IsInstruction(Fetched)
    BY ParseOpcodeIs DEF Fetched
<1>3. Is(Fetched, "OP0", {2}) /\ Len(Fetched.operands) = 0
  <2>1. Is(Fetched, "OP0", {2}) /\ Len(Fetched.operands) \in Takes(Fetched)
      BY DEF LiteralOp, Running
  <2>2. Takes(Fetched) = {0}
      BY <2>1 DEF Takes, Is
  <2> QED
      BY <2>1, <2>2
<1>4. StackOperands(Fetched.operands) = 0
    BY <1>2, <1>3, OperandsOf, AskedOfAll, AskedIs
<1>5. TakenBy(Fetched) = 0 /\ GivenBy(Fetched) = 0
    BY <1>3, <1>4 DEF TakenBy, GivenBy, HasResult, Is
<1> DEFINE w == [Now EXCEPT !.pc = Now.pc, !.halted = halted']
<1>6. IsMachine(w) /\ w.stack = stack /\ w.halted = halted'
    BY DEF Now, IsMachine, Fields
<1> HIDE DEF w
<1>7. Balanced(w.stack, stack, 0, 0)
    BY <1>6 DEF Balanced
<1>8. Works(Fetched, w)
    BY <1>5, <1>6, <1>7 DEF Works
<1>9. last'.args = Fetched
    BY <1>1
<1> QED
    BY <1>1, <1>2, <1>6, <1>8, <1>9, WorksBalances

LEMMA CodeBalances ==
    ASSUME IsSequence(stack), CodeNext, version \in Int
    PROVE  IsSequence(stack') /\ BalancesTheStack
<1> DEFINE op == Fetched
           Told == IsSequence(stack') /\ BalancesTheStack
<1>1. IsInstruction(op)
    BY ParseOpcodeIs DEF Fetched
<1>2. ASSUME NEW w, NEW result, Executes(w, result), Works(op, w) PROVE Told
    BY <1>2, ExecutesBalances DEF Works
<1> HIDE DEF op
<1>3. CASE ComputeOp
  <2>1. IsBinary(op) /\ \E result : Executes(Compute(Now, op), result)
      BY <1>3, Zenon DEF ComputeOp, op
  <2> QED
      BY <1>1, <1>2, <2>1, ComputeWorks
<1>4. CASE NotOp \/ LoadOp \/ StoreOp
  <2>1. \/ IsNot(Now, op) /\ Executes(Complement(Now, op), NoResult)
        \/ Is(op, "OP1", {14}) /\ Executes(Load(Now, op), NoResult)
        \/ Is(op, "OP2", {13}) /\ Executes(Assign(Now, op), NoResult)
      BY <1>4, Zenon DEF NotOp, LoadOp, StoreOp, op
  <2> QED
      BY <1>1, <1>2, <2>1, NotWorks, LoadWorks, AssignWorks
<1>5. CASE TestOp \/ JumpOp \/ NopOp
  <2>1. \/ IsTest(op) /\ Executes(Test(Now, op), NoResult)
        \/ IsTest(op) /\ Executes([After(Now, op) EXCEPT !.halted = TRUE], NoResult)
        \/ Is(op, "OP1", {12}) /\ Executes(Jump(Now, op), NoResult)
        \/ Is(op, "OP0", {4}) /\ Executes(After(Now, op), NoResult)
      BY <1>5, Zenon DEF TestOp, JumpOp, NopOp, op
  <2> QED
      BY <1>1, <1>2, <2>1, BranchesWork
<1>6. CASE StepOp
  <2>1. IsStep(op) /\ Len(op.operands) \in Takes(op) /\ Executes(Step(Now, op), NoResult)
      BY <1>6, Zenon DEF StepOp, Running, op
  <2> QED
      BY <1>1, <1>2, <2>1, StepWorks
<1>7. CASE PullOp \/ PushOp \/ PopOp
  <2>1. \/ Is(op, "VAR", {9}) /\ Executes(Pull(Now, op), NoResult)
        \/ Is(op, "VAR", {8}) /\ Executes(PushValue(Now, op), NoResult)
        \/ Is(op, "OP0", {9}) /\ Executes(Discard(Now, op), NoResult)
      BY <1>7, Zenon DEF PullOp, PushOp, PopOp, op
  <2> QED
      BY <1>1, <1>2, <2>1, PullWorks, PushWorks, DiscardWorks
<1>8. CASE AccessOp
  <2>1. IsAccess(op) /\ Executes(Access(Now, op), NoResult)
      BY <1>8, Zenon DEF AccessOp, op
  <2> QED
      BY <1>1, <1>2, <2>1, AccessWorks
<1>9. CASE CallOp
  <2>1. /\ IsCall(Now, op) /\ Len(op.operands) \in Takes(op)
        /\ Executes(CallNothing(Now, op), NoResult)
      BY <1>9, Zenon DEF CallOp, Running, op
  <2>2. /\ IsMachine(CallNothing(Now, op))
        /\ StackOperands(Tail(op.operands)) = 0 => Works(op, CallNothing(Now, op))
      BY <1>1, <2>1, CallWorks
  <2> QED
      BY <2>1, <2>2, ExecutesBalances DEF op
<1>10. CASE CheckUnicodeOp
  <2>1. /\ Is(op, "EXT", {12}) /\ Len(op.operands) \in Takes(op)
        /\ Executes(CheckUnicode(Now, op), Arguments(Now, op))
      BY <1>10, Zenon DEF CheckUnicodeOp, Running, op
  <2>2. Len(op.operands) = 1
    <3>1. Takes(op) = {1}
        BY <2>1 DEF Takes, Is
    <3> QED
        BY <2>1, <3>1
  <2>3. /\ IsMachine(CheckUnicode(Now, op))
        /\ Arguments(Now, op) # CharacterZero => Works(op, CheckUnicode(Now, op))
      BY <1>1, <2>1, <2>2, CheckUnicodeWorks
  <2> QED
      BY <2>1, <2>3, ExecutesBalances DEF op
<1>11. CASE LiteralOp
    BY <1>11, LiteralBalances
<1> QED
    BY <1>3, <1>4, <1>5, <1>6, <1>7, <1>8, <1>9, <1>10, <1>11, Zenon DEF CodeNext

LEMMA InitStack == Init => StackInv
<1> SUFFICES ASSUME Init, story.program = "code" PROVE IsSequence(stack)
    BY DEF StackInv
<1>1. story \in Stories /\ stack \in Initially("stacks", <<>>)
    BY DEF Init
<1>2. stack = <<>> \/ stack \in story.stacks
    BY <1>1 DEF Initially
<1>3. <<>> \in Seq(Word16)
    BY EmptySeq
<1>4. stack \in Seq(Word16)
    BY <1>1, <1>2, <1>3, CodeAssumption
<1> QED
    BY <1>4, Zenon DEF IsSequence

LEMMA StackInductive ==
    ASSUME StepsInv, StackInv, [Next]_vars
    PROVE  StackInv' /\ [BalancesTheStack]_vars
<1>1. CASE Next /\ story.program = "code"
  <2>1. CodeNext /\ IsSequence(stack)
      BY <1>1, CodeStep, TextStep, ObjectsStep, TablesStep, SaveStep, StreamsStep
         DEF Next, Counted, StackInv
  <2>2. version \in Int
      BY InstructionsAssumption DEF StepsInv, version, header
  <2> QED
      BY <2>1, <2>2, CodeBalances DEF StackInv
<1>2. CASE Next /\ story.program # "code"
  <2>1. story' = story
      BY <1>2, OneStep
  <2> QED
      BY <1>2, <2>1 DEF StackInv, BalancesTheStack
<1>3. CASE UNCHANGED vars
  <2>1. story' = story /\ stack' = stack
      BY <1>3 DEF vars, machineVars
  <2> QED
      BY <1>3, <2>1 DEF StackInv
<1> QED
    BY <1>1, <1>2, <1>3

\* Every instruction of a program takes from the stack what its operands ask for, pushes
\* its result if it goes there, and leaves alone what lies below: for every program,
\* version, stack and memory, any operands and any order of instructions.
THEOREM StackIsAlwaysBalanced == Spec => StackIsBalanced
<1> DEFINE Inv == StepsInv /\ StackInv
<1>1. Init => Inv
    BY InitHolds, InitStack
<1>2. Inv /\ [Next]_vars => Inv'
    BY StepsInductive, StackInductive
<1>3. Inv /\ [Next]_vars => [BalancesTheStack]_vars
    BY StackInductive
<1> QED
    BY <1>1, <1>2, <1>3, PTL DEF Spec, StackIsBalanced

-----------------------------------------------------------------------------
(* Arithmetic on words: words and their sixteen binary digits, in fours.    *)

Digit == {0, 1}
Numerals == [0..15 -> Digit]
Places == {0, 4, 8, 12}

\* The digits of a word, and the number with these digits.
Digits(a) == [k \in 0..15 |-> (a \div 2^k) % 2]
Four(c, k) == c[k] + 2 * c[k + 1] + 4 * c[k + 2] + 8 * c[k + 3]
Number(c) == Four(c, 0) + 16 * Four(c, 4) + 256 * Four(c, 8) + 4096 * Four(c, 12)

\* The last four digits of n, and what is before them.
EndsWith(n, a, b, c, d, rest) ==
    /\ n \in Nat /\ n % 2 = a /\ (n \div 2) % 2 = b /\ (n \div 4) % 2 = c /\ (n \div 8) % 2 = d
    /\ n \div 16 = rest

\* Binary digits, taken four at a time.
LEMMA DividedTwice ==
    ASSUME NEW n \in Nat, NEW p \in Nat \ {0}, NEW q \in {2, 4, 8, 16}
    PROVE  (n \div p) \div q = n \div (q * p)
<1> DEFINE m == n \div p
           h == m \div q
           b == m % q
           r == n % p
<1>1. n = p * m + r /\ m \in Nat /\ r \in Nat /\ r < p
    BY DividedBy
<1>2. m = q * h + b /\ h \in Nat /\ b \in Nat /\ b < q
    BY <1>1, DividedBy
<1> HIDE DEF m, h, b, r
<1>3. q * p \in Nat \ {0} /\ p * b + r \in Nat /\ n = (q * p) * h + (p * b + r)
  <2>1. p * b \in Nat
      BY <1>2
  <2>2. p * (q * h + b) = (q * p) * h + p * b
      BY <1>2
  <2> QED
      BY <1>1, <1>2, <2>1, <2>2
<1>4. p * b + r < q * p
  <2>1. (b + 1) * p <= q * p
      BY <1>2
  <2>2. p * b + r < (b + 1) * p
      BY <1>1, <1>2
  <2>3. p * b \in Int /\ (b + 1) * p \in Int /\ q * p \in Int
      BY <1>2
  <2> QED
      BY <1>1, <2>1, <2>2, <2>3
<1>5. n \div (q * p) = h
    BY <1>2, <1>3, <1>4, DivisionIs
<1> QED
    BY <1>5 DEF h, m

LEMMA Fours ==
    ASSUME NEW a \in Nat
    PROVE  /\ a \div 32 = (a \div 16) \div 2 /\ a \div 64 = (a \div 16) \div 4
           /\ a \div 128 = (a \div 16) \div 8 /\ a \div 256 = (a \div 16) \div 16
           /\ a \div 512 = (a \div 256) \div 2 /\ a \div 1024 = (a \div 256) \div 4
           /\ a \div 2048 = (a \div 256) \div 8 /\ a \div 4096 = (a \div 256) \div 16
           /\ a \div 8192 = (a \div 4096) \div 2 /\ a \div 16384 = (a \div 4096) \div 4
           /\ a \div 32768 = (a \div 4096) \div 8 /\ a \div 65536 = (a \div 4096) \div 16
<1>1. 16 \in Nat \ {0} /\ 256 \in Nat \ {0} /\ 4096 \in Nat \ {0}
    OBVIOUS
<1>2. /\ a \div (2 * 16) = (a \div 16) \div 2 /\ a \div (4 * 16) = (a \div 16) \div 4
      /\ a \div (8 * 16) = (a \div 16) \div 8 /\ a \div (16 * 16) = (a \div 16) \div 16
    BY <1>1, DividedTwice
<1>3. /\ a \div (2 * 256) = (a \div 256) \div 2 /\ a \div (4 * 256) = (a \div 256) \div 4
      /\ a \div (8 * 256) = (a \div 256) \div 8 /\ a \div (16 * 256) = (a \div 256) \div 16
    BY <1>1, DividedTwice
<1>4. /\ a \div (2 * 4096) = (a \div 4096) \div 2 /\ a \div (4 * 4096) = (a \div 4096) \div 4
      /\ a \div (8 * 4096) = (a \div 4096) \div 8 /\ a \div (16 * 4096) = (a \div 4096) \div 16
    BY <1>1, DividedTwice
<1> QED
    BY <1>2, <1>3, <1>4

LEMMA Doubled ==
    ASSUME NEW b \in Digit, NEW h \in Nat
    PROVE  b + 2 * h \in Nat /\ (b + 2 * h) \div 2 = h /\ (b + 2 * h) % 2 = b
<1>1. b \in Nat /\ b < 2 /\ b + 2 * h = 2 * h + b
    BY DEF Digit
<1> QED
    BY <1>1, DivisionIs

LEMMA Eighths ==
    ASSUME NEW n \in Nat
    PROVE  /\ n \div 4 = (n \div 2) \div 2 /\ n \div 8 = ((n \div 2) \div 2) \div 2
           /\ n \div 16 = (((n \div 2) \div 2) \div 2) \div 2
<1>1. n \div (2 * 2) = (n \div 2) \div 2 /\ n \div (4 * 2) = (n \div 2) \div 4
    BY DividedTwice
<1>2. n \div (2 * 4) = (n \div 4) \div 2 /\ n \div (2 * 8) = (n \div 8) \div 2
    BY DividedTwice
<1> QED
    BY <1>1, <1>2

\* Four digits are put before others.
LEMMA FourArePut ==
    ASSUME NEW a \in Digit, NEW b \in Digit, NEW c \in Digit, NEW d \in Digit,
           NEW rest \in Nat, NEW n, n = a + 2 * b + 4 * c + 8 * d + 16 * rest
    PROVE  EndsWith(n, a, b, c, d, rest)
<1> DEFINE n3 == d + 2 * rest
           n2 == c + 2 * n3
           n1 == b + 2 * n2
<1>1. n3 \in Nat /\ n2 \in Nat /\ n1 \in Nat /\ n = a + 2 * n1
    BY DEF Digit
<1>2. n3 \div 2 = rest /\ n3 % 2 = d
    BY Doubled
<1> HIDE DEF n3
<1>3. n2 \div 2 = n3 /\ n2 % 2 = c
    BY <1>1, Doubled
<1> HIDE DEF n2
<1>4. n1 \div 2 = n2 /\ n1 % 2 = b
    BY <1>1, Doubled
<1> HIDE DEF n1
<1>5. n \in Nat /\ n \div 2 = n1 /\ n % 2 = a
    BY <1>1, Doubled DEF Digit
<1>6. n \div 4 = n2 /\ n \div 8 = n3 /\ n \div 16 = rest
    BY <1>2, <1>3, <1>4, <1>5, Eighths DEF Digit
<1> QED
    BY <1>2, <1>3, <1>4, <1>5, <1>6 DEF EndsWith

\* A number is what its last four digits and the others make.
LEMMA FourAreFound ==
    ASSUME NEW n, NEW a, NEW b, NEW c, NEW d, NEW rest, EndsWith(n, a, b, c, d, rest)
    PROVE  /\ n = a + 2 * b + 4 * c + 8 * d + 16 * rest /\ n \in Nat
           /\ a \in Digit /\ b \in Digit /\ c \in Digit /\ d \in Digit /\ rest \in Nat
<1>1. \A m \in Nat : m \div 2 \in Nat /\ m % 2 \in Digit /\ m = (m % 2) + 2 * (m \div 2)
    BY DEF Digit
<1> DEFINE n1 == n \div 2
           n2 == n1 \div 2
           n3 == n2 \div 2
<1>2. n \in Nat /\ n % 2 = a /\ n1 % 2 = b /\ n2 % 2 = c /\ n3 % 2 = d /\ n3 \div 2 = rest
    BY Eighths DEF EndsWith
<1>3. n = a + 2 * n1 /\ n1 \in Nat /\ a \in Digit
    BY <1>1, <1>2
<1>4. n1 = b + 2 * n2 /\ n2 \in Nat /\ b \in Digit
    BY <1>1, <1>2, <1>3
<1>5. n2 = c + 2 * n3 /\ n3 \in Nat /\ c \in Digit
    BY <1>1, <1>2, <1>4
<1>6. n3 = d + 2 * rest /\ rest \in Nat /\ d \in Digit
    BY <1>1, <1>2, <1>5
<1> HIDE DEF n1, n2, n3
<1> QED
    BY <1>2, <1>3, <1>4, <1>5, <1>6

\* The digits of a, in fours.
DigitsEnd(a, c) ==
    /\ EndsWith(a, c[0], c[1], c[2], c[3], a \div 16)
    /\ EndsWith(a \div 16, c[4], c[5], c[6], c[7], a \div 256)
    /\ EndsWith(a \div 256, c[8], c[9], c[10], c[11], a \div 4096)
    /\ EndsWith(a \div 4096, c[12], c[13], c[14], c[15], a \div 65536)

LEMMA DigitsAre ==
    ASSUME NEW a \in Nat, NEW c
    PROVE  DigitsEnd(a, c) <=> \A k \in 0..15 : c[k] = Digits(a)[k]
<1> DEFINE d == Digits(a)
<1>1. a \div 16 \in Nat /\ a \div 256 \in Nat /\ a \div 4096 \in Nat /\ a \div 1 = a
    OBVIOUS
<1>2. /\ d[0] = (a \div 1) % 2 /\ d[1] = (a \div 2) % 2 /\ d[2] = (a \div 4) % 2
      /\ d[3] = (a \div 8) % 2
    BY DEF Digits
<1>3. /\ d[4] = (a \div 16) % 2 /\ d[5] = (a \div 32) % 2 /\ d[6] = (a \div 64) % 2
      /\ d[7] = (a \div 128) % 2
    BY DEF Digits
<1>4. /\ d[8] = (a \div 256) % 2 /\ d[9] = (a \div 512) % 2 /\ d[10] = (a \div 1024) % 2
      /\ d[11] = (a \div 2048) % 2
    BY DEF Digits
<1>5. /\ d[12] = (a \div 4096) % 2 /\ d[13] = (a \div 8192) % 2 /\ d[14] = (a \div 16384) % 2
      /\ d[15] = (a \div 32768) % 2
    BY DEF Digits
<1> HIDE DEF d
<1>6. EndsWith(a, c[0], c[1], c[2], c[3], a \div 16) <=>
        c[0] = d[0] /\ c[1] = d[1] /\ c[2] = d[2] /\ c[3] = d[3]
    BY <1>1, <1>2 DEF EndsWith
<1>7. EndsWith(a \div 16, c[4], c[5], c[6], c[7], a \div 256) <=>
        c[4] = d[4] /\ c[5] = d[5] /\ c[6] = d[6] /\ c[7] = d[7]
    BY <1>1, <1>3, Fours DEF EndsWith
<1>8. EndsWith(a \div 256, c[8], c[9], c[10], c[11], a \div 4096) <=>
        c[8] = d[8] /\ c[9] = d[9] /\ c[10] = d[10] /\ c[11] = d[11]
    BY <1>1, <1>4, Fours DEF EndsWith
<1>9. EndsWith(a \div 4096, c[12], c[13], c[14], c[15], a \div 65536) <=>
        c[12] = d[12] /\ c[13] = d[13] /\ c[14] = d[14] /\ c[15] = d[15]
    BY <1>1, <1>5, Fours DEF EndsWith
<1>10. (\A k \in 0..15 : c[k] = d[k]) <=>
         /\ c[0] = d[0] /\ c[1] = d[1] /\ c[2] = d[2] /\ c[3] = d[3]
         /\ c[4] = d[4] /\ c[5] = d[5] /\ c[6] = d[6] /\ c[7] = d[7]
         /\ c[8] = d[8] /\ c[9] = d[9] /\ c[10] = d[10] /\ c[11] = d[11]
         /\ c[12] = d[12] /\ c[13] = d[13] /\ c[14] = d[14] /\ c[15] = d[15]
    OBVIOUS
<1>11. DigitsEnd(a, c) <=> \A k \in 0..15 : c[k] = d[k]
    BY <1>6, <1>7, <1>8, <1>9, <1>10 DEF DigitsEnd
<1> QED
    BY <1>11 DEF d

LEMMA Powers == \A k \in 0..15 : 2^k \in Nat \ {0}
<1>1. \A k \in 0..15 : \/ k = 0 \/ k = 1 \/ k = 2 \/ k = 3 \/ k = 4 \/ k = 5 \/ k = 6 \/ k = 7
                       \/ k = 8 \/ k = 9 \/ k = 10 \/ k = 11 \/ k = 12 \/ k = 13 \/ k = 14 \/ k = 15
    OBVIOUS
<1>2. /\ 2^0 \in Nat \ {0} /\ 2^1 \in Nat \ {0} /\ 2^2 \in Nat \ {0} /\ 2^3 \in Nat \ {0}
      /\ 2^4 \in Nat \ {0} /\ 2^5 \in Nat \ {0} /\ 2^6 \in Nat \ {0} /\ 2^7 \in Nat \ {0}
    OBVIOUS
<1>3. /\ 2^8 \in Nat \ {0} /\ 2^9 \in Nat \ {0} /\ 2^10 \in Nat \ {0} /\ 2^11 \in Nat \ {0}
      /\ 2^12 \in Nat \ {0} /\ 2^13 \in Nat \ {0} /\ 2^14 \in Nat \ {0} /\ 2^15 \in Nat \ {0}
    OBVIOUS
<1> QED
    BY <1>1, <1>2, <1>3, Zenon

LEMMA BitsAre ==
    ASSUME NEW c \in Numerals, NEW k \in Places
    PROVE  /\ c[k] \in Digit /\ c[k + 1] \in Digit /\ c[k + 2] \in Digit /\ c[k + 3] \in Digit
           /\ Four(c, k) \in Nat /\ Four(c, k) < 16
<1>1. c[k] \in Digit /\ c[k + 1] \in Digit /\ c[k + 2] \in Digit /\ c[k + 3] \in Digit
    BY DEF Numerals, Places
<1>2. Four(c, k) = c[k] + 2 * c[k + 1] + 4 * c[k + 2] + 8 * c[k + 3]
    BY Zenon DEF Four
<1> QED
    BY <1>1, <1>2 DEF Digit

LEMMA FourEnd ==
    ASSUME NEW c \in Numerals, NEW k \in Places, NEW rest \in Nat
    PROVE  EndsWith(Four(c, k) + 16 * rest, c[k], c[k + 1], c[k + 2], c[k + 3], rest)
<1>1. Four(c, k) = c[k] + 2 * c[k + 1] + 4 * c[k + 2] + 8 * c[k + 3]
    BY Zenon DEF Four
<1> DEFINE n == Four(c, k) + 16 * rest
<1>2. n = c[k] + 2 * c[k + 1] + 4 * c[k + 2] + 8 * c[k + 3] + 16 * rest
    BY <1>1
<1>3. c[k] \in Digit /\ c[k + 1] \in Digit /\ c[k + 2] \in Digit /\ c[k + 3] \in Digit
    BY BitsAre
<1> HIDE DEF n
<1>4. EndsWith(n, c[k], c[k + 1], c[k + 2], c[k + 3], rest)
  <2>1. \A x, y, z, w \in Digit : \A m :
          m = x + 2 * y + 4 * z + 8 * w + 16 * rest => EndsWith(m, x, y, z, w, rest)
      BY FourArePut
  <2> QED
      BY <1>2, <1>3, <2>1, Zenon
<1> QED
    BY <1>4 DEF n

\* A word has the digits of its number, and a number those it was made of.
LEMMA WordHasDigits ==
    ASSUME NEW a \in Word16
    PROVE  Number(Digits(a)) = a /\ Digits(a) \in Numerals
<1> DEFINE c == Digits(a)
<1>1. a \in Nat /\ a < 65536
    BY WordsAreNumbers
<1>2. DigitsEnd(a, c)
    BY <1>1, DigitsAre
<1>3. c \in Numerals
  <2>1. \A x \in Nat : x % 2 \in Digit
      BY DEF Digit
  <2>2. \A n \in Nat \ {0} : a \div n \in Nat
      BY <1>1, DividedBy
  <2> QED
      BY <2>1, <2>2, Powers DEF Digits, Numerals
<1> HIDE DEF c
<1>4. a = Four(c, 0) + 16 * (a \div 16)
    BY <1>2, FourAreFound DEF DigitsEnd, Four
<1>5. a \div 16 = Four(c, 4) + 16 * (a \div 256)
    BY <1>2, FourAreFound DEF DigitsEnd, Four
<1>6. a \div 256 = Four(c, 8) + 16 * (a \div 4096)
    BY <1>2, FourAreFound DEF DigitsEnd, Four
<1>7. a \div 4096 = Four(c, 12) + 16 * (a \div 65536)
    BY <1>2, FourAreFound DEF DigitsEnd, Four
<1>8. a \div 65536 = 0
    BY <1>1
<1>9. Four(c, 0) \in Nat /\ Four(c, 4) \in Nat /\ Four(c, 8) \in Nat /\ Four(c, 12) \in Nat
    BY <1>3, BitsAre DEF Places
<1>10. Number(c) = a
    BY <1>4, <1>5, <1>6, <1>7, <1>8, <1>9 DEF Number
<1> QED
    BY <1>3, <1>10 DEF c

LEMMA NumberHasDigits ==
    ASSUME NEW c \in Numerals
    PROVE  Number(c) \in Word16 /\ Digits(Number(c)) = c
<1> DEFINE n4 == Four(c, 12) + 16 * 0
           n3 == Four(c, 8) + 16 * n4
           n2 == Four(c, 4) + 16 * n3
           n1 == Four(c, 0) + 16 * n2
<1>1. /\ Four(c, 0) \in Nat /\ Four(c, 0) < 16 /\ Four(c, 4) \in Nat /\ Four(c, 4) < 16
      /\ Four(c, 8) \in Nat /\ Four(c, 8) < 16 /\ Four(c, 12) \in Nat /\ Four(c, 12) < 16
    BY BitsAre DEF Places
<1>2. Number(c) = n1 /\ n1 < 65536
    BY <1>1 DEF Number
<1>3. n4 \in Nat /\ EndsWith(n4, c[12], c[12 + 1], c[12 + 2], c[12 + 3], 0)
    BY <1>1, FourEnd DEF Places
<1> HIDE DEF n4
<1>4. n3 \in Nat /\ EndsWith(n3, c[8], c[8 + 1], c[8 + 2], c[8 + 3], n4)
    BY <1>1, <1>3, FourEnd DEF Places
<1> HIDE DEF n3
<1>5. n2 \in Nat /\ EndsWith(n2, c[4], c[4 + 1], c[4 + 2], c[4 + 3], n3)
    BY <1>1, <1>4, FourEnd DEF Places
<1> HIDE DEF n2
<1>6. n1 \in Nat /\ EndsWith(n1, c[0], c[0 + 1], c[0 + 2], c[0 + 3], n2)
    BY <1>1, <1>5, FourEnd DEF Places
<1> HIDE DEF n1
<1>10. n1 \div 16 = n2 /\ n2 \div 16 = n3 /\ n3 \div 16 = n4 /\ n4 \div 16 = 0
    BY <1>3, <1>4, <1>5, <1>6 DEF EndsWith
<1>11. n1 \div 256 = n3 /\ n1 \div 4096 = n4 /\ n1 \div 65536 = 0
  <2>1. n1 \div 256 = n3
      BY <1>6, <1>10, Fours
  <2>2. 256 \in Nat \ {0} /\ 4096 \in Nat \ {0}
      OBVIOUS
  <2>3. n1 \div (16 * 256) = (n1 \div 256) \div 16 /\ n1 \div (16 * 4096) = (n1 \div 4096) \div 16
      BY <1>6, <2>2, DividedTwice
  <2> QED
      BY <1>10, <2>1, <2>3
<1>12. DigitsEnd(n1, c)
    BY <1>3, <1>4, <1>5, <1>6, <1>10, <1>11 DEF DigitsEnd
<1>13. \A k \in 0..15 : c[k] = Digits(n1)[k]
    BY <1>6, <1>12, DigitsAre
<1>14. Digits(n1) = c
    BY <1>13 DEF Digits, Numerals
<1> QED
    BY <1>2, <1>6, <1>14, WordIs

LEMMA BitAndIs ==
    ASSUME NEW a \in Word16, NEW b \in Word16
    PROVE  LET c == [k \in 0..15 |-> Digits(a)[k] * Digits(b)[k]]
           IN BitAnd(a, b) = Number(c) /\ c \in Numerals
<1> DEFINE p == Digits(a)
           q == Digits(b)
           c == [k \in 0..15 |-> p[k] * q[k]]
           Shared(k) == 2^k * ((a \div 2^k) % 2) * ((b \div 2^k) % 2)
           Sum(k) == Shared(k) + Shared(k + 1) + Shared(k + 2) + Shared(k + 3)
<1>1. p \in Numerals /\ q \in Numerals
    BY WordHasDigits
<1>2. \A k \in 0..15 : Shared(k) = 2^k * p[k] * q[k]
    BY DEF Digits
<1>3. BitAnd(a, b) = Sum(0) + Sum(4) + Sum(8) + Sum(12)
    BY DEF BitAnd
<1> HIDE DEF p, q, Shared
<1>4. c \in Numerals /\ \A k \in 0..15 : c[k] \in Digit /\ c[k] = p[k] * q[k]
  <2>1. \A x, y \in Digit : x * y \in Digit
      BY DEF Digit
  <2> QED
      BY <1>1, <2>1 DEF Numerals
<1>5. \A k \in 0..15 : 2^k * p[k] * q[k] = 2^k * c[k]
  <2>1. \A x, y \in Digit, n \in Nat : n * x * y = n * (x * y)
      BY DEF Digit
  <2> QED
      BY <1>1, <1>4, <2>1, Powers DEF Numerals
<1>6. \A k \in 0..15 : Shared(k) = 2^k * c[k]
    BY <1>2, <1>5
<1> HIDE DEF c
<1>7. Sum(0) = Four(c, 0)
    BY <1>4, <1>6 DEF Four, Digit
<1>8. Sum(4) = 16 * Four(c, 4)
    BY <1>4, <1>6 DEF Four, Digit
<1>9. Sum(8) = 256 * Four(c, 8)
    BY <1>4, <1>6 DEF Four, Digit
<1>10. Sum(12) = 4096 * Four(c, 12)
    BY <1>4, <1>6 DEF Four, Digit
<1> QED
    BY <1>3, <1>4, <1>7, <1>8, <1>9, <1>10 DEF Number, c, p, q

\* Where digits add up, so do the numbers.
LEMMA SumOfNumbers ==
    ASSUME NEW p \in Numerals, NEW q \in Numerals, NEW r \in Numerals,
           NEW o \in Numerals, \A k \in 0..15 : p[k] + q[k] = r[k] + o[k]
    PROVE  Number(p) + Number(q) = Number(r) + Number(o)
<1>1. \A k \in Places : Four(p, k) + Four(q, k) = Four(r, k) + Four(o, k)
  <2> TAKE k \in Places
  <2>1. /\ p[k] + q[k] = r[k] + o[k] /\ p[k + 1] + q[k + 1] = r[k + 1] + o[k + 1]
        /\ p[k + 2] + q[k + 2] = r[k + 2] + o[k + 2] /\ p[k + 3] + q[k + 3] = r[k + 3] + o[k + 3]
      BY DEF Places
  <2>2. PICK p0 \in Int, p1 \in Int, p2 \in Int, p3 \in Int :
          p0 = p[k] /\ p1 = p[k + 1] /\ p2 = p[k + 2] /\ p3 = p[k + 3]
      BY BitsAre DEF Digit
  <2>3. PICK q0 \in Int, q1 \in Int, q2 \in Int, q3 \in Int :
          q0 = q[k] /\ q1 = q[k + 1] /\ q2 = q[k + 2] /\ q3 = q[k + 3]
      BY BitsAre DEF Digit
  <2>4. PICK r0 \in Int, r1 \in Int, r2 \in Int, r3 \in Int :
          r0 = r[k] /\ r1 = r[k + 1] /\ r2 = r[k + 2] /\ r3 = r[k + 3]
      BY BitsAre DEF Digit
  <2>5. PICK o0 \in Int, o1 \in Int, o2 \in Int, o3 \in Int :
          o0 = o[k] /\ o1 = o[k + 1] /\ o2 = o[k + 2] /\ o3 = o[k + 3]
      BY BitsAre DEF Digit
  <2>6. /\ Four(p, k) = p0 + 2 * p1 + 4 * p2 + 8 * p3 /\ Four(q, k) = q0 + 2 * q1 + 4 * q2 + 8 * q3
        /\ Four(r, k) = r0 + 2 * r1 + 4 * r2 + 8 * r3 /\ Four(o, k) = o0 + 2 * o1 + 4 * o2 + 8 * o3
      BY <2>2, <2>3, <2>4, <2>5, Zenon DEF Four
  <2>7. p0 + q0 = r0 + o0 /\ p1 + q1 = r1 + o1 /\ p2 + q2 = r2 + o2 /\ p3 + q3 = r3 + o3
      BY <2>1, <2>2, <2>3, <2>4, <2>5, Zenon
  <2> QED
      BY <2>6, <2>7
<1>2. \A k \in Places : /\ Four(p, k) \in Int /\ Four(q, k) \in Int
                               /\ Four(r, k) \in Int /\ Four(o, k) \in Int
    BY BitsAre
<1> QED
    BY <1>1, <1>2 DEF Number, Places

LEMMA BitAndOfDigits ==
    ASSUME NEW p \in Numerals, NEW q \in Numerals
    PROVE  LET c == [k \in 0..15 |-> p[k] * q[k]]
           IN BitAnd(Number(p), Number(q)) = Number(c) /\ c \in Numerals
<1>1. Number(p) \in Word16 /\ Digits(Number(p)) = p /\ Number(q) \in Word16 /\ Digits(Number(q)) = q
    BY NumberHasDigits
<1> QED
    BY <1>1, BitAndIs

\* What AND keeps and what OR keeps, told by the sums of what their operands share.
LEMMA BitsAreDigits == \A w, k : k \in 0..15 => (IsSet(w, k) <=> Digits(w)[k] = 1)
BY DEF IsSet, Digits

LEMMA BitAndIsExact ==
    ASSUME NEW a \in Word16, NEW b \in Word16
    PROVE  LET r == BitAnd(a, b)
           IN r \in Word16 /\ \A k \in 0..15 : IsSet(r, k) <=> IsSet(a, k) /\ IsSet(b, k)
<1> DEFINE p == Digits(a)
           q == Digits(b)
           c == [k \in 0..15 |-> p[k] * q[k]]
<1>1. p \in Numerals /\ q \in Numerals /\ Number(p) = a /\ Number(q) = b
    BY WordHasDigits
<1> HIDE DEF p, q
<1>2. BitAnd(a, b) = Number(c) /\ c \in Numerals /\ \A k \in 0..15 : c[k] = p[k] * q[k]
    BY <1>1, BitAndOfDigits
<1> HIDE DEF c
<1>3. Number(c) \in Word16 /\ Digits(Number(c)) = c
    BY <1>2, NumberHasDigits
<1>4. \A k \in 0..15 : c[k] = 1 <=> p[k] = 1 /\ q[k] = 1
  <2>1. \A x, y \in Digit : x * y = 1 <=> x = 1 /\ y = 1
      BY DEF Digit
  <2> QED
      BY <1>1, <1>2, <2>1 DEF Numerals
<1> QED
    BY <1>2, <1>3, <1>4, BitsAreDigits DEF p, q

LEMMA BitOrIsExact ==
    ASSUME NEW a \in Word16, NEW b \in Word16
    PROVE  LET r == a + b - BitAnd(a, b)
           IN r \in Word16 /\ \A k \in 0..15 : IsSet(r, k) <=> IsSet(a, k) \/ IsSet(b, k)
<1> DEFINE p == Digits(a)
           q == Digits(b)
           c == [k \in 0..15 |-> p[k] * q[k]]
           o == [k \in 0..15 |-> p[k] + q[k] - p[k] * q[k]]
<1>1. p \in Numerals /\ q \in Numerals /\ Number(p) = a /\ Number(q) = b
    BY WordHasDigits
<1> HIDE DEF p, q
<1>2. BitAnd(a, b) = Number(c) /\ c \in Numerals /\ \A k \in 0..15 : c[k] = p[k] * q[k]
    BY <1>1, BitAndOfDigits
<1> HIDE DEF c
<1>3. /\ o \in Numerals /\ \A k \in 0..15 : o[k] = 1 <=> p[k] = 1 \/ q[k] = 1
      /\ \A k \in 0..15 : p[k] + q[k] = o[k] + c[k]
  <2>1. ASSUME NEW x \in Digit, NEW y \in Digit
        PROVE  LET s == x + y - x * y
               IN s \in Digit /\ x + y = s + x * y /\ (s = 1 <=> x = 1 \/ y = 1)
    <3>1. (x = 0 \/ x = 1) /\ (y = 0 \/ y = 1)
        BY DEF Digit
    <3> QED
        BY <3>1 DEF Digit
  <2>2. ASSUME NEW k \in 0..15
        PROVE  /\ o[k] \in Digit /\ (o[k] = 1 <=> p[k] = 1 \/ q[k] = 1)
               /\ p[k] + q[k] = o[k] + c[k]
    <3>1. p[k] \in Digit /\ q[k] \in Digit
        BY <1>1 DEF Numerals
    <3>2. o[k] = p[k] + q[k] - p[k] * q[k] /\ c[k] = p[k] * q[k]
        BY <1>2
    <3>3. LET s == p[k] + q[k] - p[k] * q[k]
          IN /\ s \in Digit /\ (s = 1 <=> p[k] = 1 \/ q[k] = 1)
             /\ p[k] + q[k] = s + p[k] * q[k]
        BY <2>1, <3>1, Zenon
    <3> HIDE DEF o
    <3> QED
        BY <3>2, <3>3, Zenon
  <2>3. o \in Numerals
      BY <2>2 DEF Numerals
  <2> HIDE DEF o
  <2> QED
      BY <1>1, <2>2, <2>3 DEF Numerals
<1> HIDE DEF o
<1>5. Number(o) \in Word16 /\ Digits(Number(o)) = o /\ Number(c) \in Word16
    BY <1>2, <1>3, NumberHasDigits
<1>6. a + b = Number(o) + Number(c)
    BY <1>1, <1>2, <1>3, SumOfNumbers
<1>7. a + b - Number(c) = Number(o)
    BY <1>5, <1>6, WordsAreNumbers
<1> QED
    BY <1>2, <1>3, <1>5, <1>7, BitsAreDigits DEF p, q

-----------------------------------------------------------------------------
(* Words and the numbers they stand for, with a sign and without.           *)

LEMMA IntDivided ==
    ASSUME NEW w \in Nat \ {0}, NEW v \in Int
    PROVE  /\ v = w * (v \div w) + (v % w)
           /\ v \div w \in Int /\ v % w \in Nat /\ v % w < w
BY SMT

\* A word differs from its number by a multiple of 65536.
LEMMA WordOf ==
    ASSUME NEW x \in Int
    PROVE  /\ Word(x) \in Nat /\ Word(x) < 65536 /\ Word(x) \in Word16
           /\ \E k \in Int : x = Word(x) + 65536 * k
<1>1. Word(x) \in Nat /\ Word(x) < 65536 /\ x = 65536 * (x \div 65536) + Word(x) /\ x \div 65536 \in Int
    BY IntDivided DEF Word
<1>2. Word(x) \in Word16
    BY <1>1, WordIs
<1> QED
    BY <1>1, <1>2

LEMMA SameWord ==
    ASSUME NEW x \in Int, NEW y \in Int, NEW k \in Int, y = x + 65536 * k
    PROVE  Word(y) = Word(x)
BY DEF Word

LEMMA WordsStay ==
    ASSUME NEW a \in Word16
    PROVE  Word(a) = a
<1>1. a \in Nat /\ a < 65536
    BY WordsAreNumbers
<1> QED
    BY <1>1, SmallRemainder DEF Word

LEMMA SignedIs ==
    ASSUME NEW a \in Word16
    PROVE  /\ Signed(a) \in Int /\ -32768 <= Signed(a) /\ Signed(a) <= 32767
           /\ a = Signed(a) \/ a = Signed(a) + 65536
           /\ a = 0 <=> Signed(a) = 0
<1>1. a \in Nat /\ a < 65536
    BY WordsAreNumbers
<1> QED
    BY <1>1 DEF Signed

\* A number that fits a signed word is what the word stands for.
LEMMA SignedBack ==
    ASSUME NEW n \in Int, -32768 <= n, n <= 32767
    PROVE  Signed(Word(n)) = n
<1>1. CASE n >= 0
  <2>1. Word(n) = n
      BY <1>1, SmallRemainder DEF Word
  <2> QED
      BY <1>1, <2>1 DEF Signed
<1>2. CASE n < 0
  <2>1. Word(n + 65536) = Word(n)
    <3>1. n + 65536 \in Int /\ 1 \in Int /\ n + 65536 = n + 65536 * 1
        OBVIOUS
    <3> QED
        BY <3>1, SameWord
  <2>2. Word(n + 65536) = n + 65536
      BY <1>2, SmallRemainder DEF Word
  <2>3. Word(n) = n + 65536
      BY <2>1, <2>2
  <2> QED
      BY <1>2, <2>3 DEF Signed
<1> QED
    BY <1>1, <1>2

\* By the subsets of a set with k elements.
LEMMA PowersOfTwo == \A k \in Nat : 2^k \in Nat \ {0}
<1> SUFFICES ASSUME NEW k \in Nat PROVE 2^k \in Nat \ {0}
    OBVIOUS
<1>1. IsFiniteSet(1..k) /\ Cardinality(1..k) = k
  <2>1. 1 \in Int /\ k \in Int
      OBVIOUS
  <2>2. IsFiniteSet(1..k) /\ Cardinality(1..k) = IF 1 > k THEN 0 ELSE k - 1 + 1
      BY <2>1, FS_Interval
  <2> QED
      BY <2>2
<1>2. IsFiniteSet(SUBSET (1..k)) /\ Cardinality(SUBSET (1..k)) = 2^k
    BY <1>1, FS_SUBSET, Zenon
<1>3. Cardinality(SUBSET (1..k)) \in Nat /\ (Cardinality(SUBSET (1..k)) = 0 <=> SUBSET (1..k) = {})
    BY <1>2, FS_CardinalityType, FS_EmptySet
<1>4. SUBSET (1..k) # {}
    OBVIOUS
<1> QED
    BY <1>2, <1>3, <1>4

\* Truncated quotients: what is left is less than the divisor and has the dividend's sign.
LEMMA QuotientIs ==
    ASSUME NEW n \in Int, NEW d \in Int \ {0}
    PROVE  LET q == Quotient(n, d)
               m == n - d * q
           IN /\ q \in Int /\ m \in Int /\ Magnitude(m) < Magnitude(d)
              /\ m # 0 => (m < 0 <=> n < 0)
              /\ Magnitude(q) * Magnitude(d) <= Magnitude(n)
<1> DEFINE N == Magnitude(n)
           D == Magnitude(d)
           Q == N \div D
           R == N % D
<1>1. N \in Nat /\ D \in Nat \ {0}
    BY DEF Magnitude
<1>2. N = D * Q + R /\ Q \in Nat /\ R \in Nat /\ R < D
    BY <1>1, DividedBy
<1>3. Quotient(n, d) = IF (n < 0) = (d < 0) THEN Q ELSE -Q
    BY DEF Quotient
<1> HIDE DEF Q, R
<1>4. (n < 0 => n = -N) /\ (~(n < 0) => n = N) /\ (d < 0 => d = -D) /\ (~(d < 0) => d = D)
    BY DEF Magnitude
<1> HIDE DEF N, D
<1>5. d * Quotient(n, d) = IF n < 0 THEN -(D * Q) ELSE D * Q
  <2>1. D * Q \in Int /\ (-D) * Q = -(D * Q) /\ (-D) * (-Q) = D * Q /\ D * (-Q) = -(D * Q)
      BY <1>1, <1>2
  <2> QED
      BY <1>3, <1>4, <2>1
<1>6. D * Q \in Int
    BY <1>1, <1>2
<1>7. n - d * Quotient(n, d) = IF n < 0 THEN -R ELSE R
    BY <1>1, <1>2, <1>4, <1>5, <1>6
<1>8. Quotient(n, d) \in Int /\ Magnitude(Quotient(n, d)) = Q
    BY <1>2, <1>3 DEF Magnitude
<1>9. Magnitude(n - d * Quotient(n, d)) = R
    BY <1>2, <1>7 DEF Magnitude
<1>10. Q * D <= N
    BY <1>1, <1>2, <1>6
<1> QED
    BY <1>2, <1>7, <1>8, <1>9, <1>10 DEF N, D

LEMMA AdditionIsExact ==
    ASSUME NEW a \in Word16, NEW b \in Word16
    PROVE  a = Word(Word(a - b) + b) 
<1>1. a \in Nat /\ a < 65536 /\ b \in Nat /\ a \in Int
    BY WordsAreNumbers
<1> DEFINE s == Word(a - b)
<1>2. a - b \in Int /\ s \in Int /\ \E k \in Int : a - b = s + 65536 * k
    BY <1>1, WordOf
<1> HIDE DEF s
<1>3. PICK k \in Int : a - b = s + 65536 * k
    BY <1>2
<1> DEFINE j == -k
<1>4. j \in Int /\ s + b = a + 65536 * j
    BY <1>1, <1>2, <1>3
<1> DEFINE y == s + b
<1>6. y \in Int /\ y = a + 65536 * j
    BY <1>1, <1>2, <1>4
<1> HIDE DEF j, y
<1>5. Word(y) = Word(a)
    BY <1>1, <1>4, <1>6, SMT DEF Word
<1> QED
    BY <1>4, <1>5, WordsStay, SMT DEF s, y

LEMMA DivisionIsExact ==
    ASSUME NEW n \in Int, -32768 <= n, n <= 32767, NEW d \in Int \ {0}, -32768 <= d, d <= 32767
    PROVE  LET q == Signed(Word(Quotient(n, d)))
               m == n - q * d
           IN \/ /\ Magnitude(m) < Magnitude(d)
                 /\ m # 0 => (m < 0) = (n < 0)
              \/ n = -32768 /\ d = -1 /\ q = n
<1> DEFINE q0 == Quotient(n, d)
<1>1. /\ q0 \in Int /\ n - d * q0 \in Int /\ Magnitude(n - d * q0) < Magnitude(d)
      /\ n - d * q0 # 0 => (n - d * q0 < 0 <=> n < 0)
      /\ Magnitude(q0) * Magnitude(d) <= Magnitude(n)
    BY QuotientIs
<1> HIDE DEF q0
<1>2. Magnitude(q0) \in Nat /\ Magnitude(d) \in Nat \ {0} /\ Magnitude(n) \in Nat
    BY <1>1 DEF Magnitude
<1>3. Magnitude(q0) <= Magnitude(n)
  <2>1. \A x \in Nat, y \in Nat \ {0} : x <= x * y
      OBVIOUS
  <2>2. Magnitude(q0) * Magnitude(d) \in Int /\ Magnitude(q0) <= Magnitude(q0) * Magnitude(d)
      BY <1>2, <2>1
  <2> QED
      BY <1>1, <1>2, <2>2
<1>4. -32768 <= q0 /\ q0 <= 32768
    BY <1>1, <1>3 DEF Magnitude
<1>5. CASE q0 # 32768
  <2>1. Signed(Word(q0)) = q0
      BY <1>1, <1>4, <1>5, SignedBack
  <2>2. d * q0 = q0 * d
      BY <1>1
  <2> QED
      BY <1>1, <2>1, <2>2 DEF q0
<1>6. CASE q0 = 32768
  <2>1. Magnitude(n) = 32768 /\ n = -32768
      BY <1>3, <1>6 DEF Magnitude
  <2>2. Magnitude(d) = 1
    <3>1. 32768 * Magnitude(d) <= 32768
        BY <1>1, <1>6, <2>1 DEF Magnitude
    <3> QED
        BY <1>2, <3>1
  <2>3. d = -1 \/ d = 1
      BY <2>2 DEF Magnitude
  <2>4. d # 1
    <3>2. /\ \A x \in Int : x = -65536 => Magnitude(x) = 65536
          /\ \A x \in Int : x = 1 => Magnitude(x) = 1
        BY DEF Magnitude
    <3> SUFFICES ASSUME d = 1 PROVE FALSE
        OBVIOUS
    <3>3. n - d * q0 = -65536 /\ n - d * q0 \in Int
        BY <1>6, <2>1
    <3>4. Magnitude(n - d * q0) = 65536 /\ Magnitude(d) = 1
        BY <3>2, <3>3
    <3> QED
        BY <1>1, <3>4
  <2>5. Signed(Word(32768)) = -32768
      BY SmallRemainder DEF Signed, Word
  <2> QED
      BY <1>6, <2>1, <2>3, <2>4, <2>5 DEF q0
<1> QED
    BY <1>5, <1>6

LEMMA RemainderIsExact ==
    ASSUME NEW n \in Int, -32768 <= n, n <= 32767, NEW d \in Int \ {0}, -32768 <= d, d <= 32767
    PROVE  LET q == Signed(Word(n - d * Quotient(n, d)))
           IN /\ Magnitude(q) < Magnitude(d)
              /\ q # 0 => (q < 0) = (n < 0)
              /\ (n - q) % Magnitude(d) = 0
<1> DEFINE q0 == Quotient(n, d)
           m == n - d * q0
           D == Magnitude(d)
<1>1. /\ q0 \in Int /\ m \in Int /\ Magnitude(m) < D
      /\ m # 0 => (m < 0 <=> n < 0)
    BY QuotientIs
<1>2. D \in Nat \ {0} /\ D <= 32768 /\ (d = D \/ d = -D)
    BY DEF Magnitude
<1> HIDE DEF q0
<1>3. n - m = d * q0
  <2>1. d * q0 \in Int
      BY <1>1
  <2> QED
      BY <1>1, <2>1
<1> HIDE DEF m, D
<1>4. -32768 <= m /\ m <= 32767
    BY <1>1, <1>2 DEF Magnitude
<1>5. Signed(Word(m)) = m
    BY <1>1, <1>4, SignedBack
<1>6. (n - m) % D = 0
  <2>1. d * q0 = D * q0 \/ d * q0 = D * (-q0)
      BY <1>1, <1>2
  <2>2. \A x \in Int : (D * x) % D = 0
    <3> SUFFICES ASSUME NEW x \in Int PROVE (D * x) % D = 0
        OBVIOUS
    <3> DEFINE y == (D * x) \div D
               r == (D * x) % D
    <3>1. D * x \in Int
        BY <1>2
    <3>2. D * x = D * y + r /\ y \in Int /\ r \in Nat /\ r < D
        BY <1>2, <3>1, IntDivided
    <3> HIDE DEF y, r
    <3>3. D * (x - y) = r
      <4>1. D * (x - y) = D * x - D * y
          BY <1>2, <3>2
      <4>2. D * x \in Int /\ D * y \in Int
          BY <1>2, <3>2
      <4> QED
          BY <3>2, <4>1, <4>2
    <3>4. x - y >= 1 => D * (x - y) >= D
        BY <1>2, <3>2
    <3>5. x - y <= -1 => D * (x - y) <= -D
        BY <1>2, <3>2
    <3>6. x - y = 0
        BY <1>2, <3>2, <3>3, <3>4, <3>5
    <3> QED
        BY <1>2, <3>3, <3>6 DEF r
  <2> QED
      BY <1>1, <1>3, <2>1, <2>2
<1> QED
    BY <1>1, <1>5, <1>6 DEF m, D, q0

LEMMA ShiftLeftIsExact ==
    ASSUME NEW a \in Word16, NEW p \in Nat
    PROVE  Word(Signed(a) * p) = Word(a * p)
<1>1. a \in Nat /\ Signed(a) \in Int /\ (a = Signed(a) \/ a = Signed(a) + 65536)
    BY WordsAreNumbers, SignedIs
<1> DEFINE n == Signed(a)
           x == n * p
           y == a * p
<1>2. x \in Int /\ y \in Int /\ p \in Int
    BY <1>1
<1>3. CASE a = n + 65536
  <2>3. \A m \in Int : (m + 65536) * p = m * p + 65536 * p
      OBVIOUS
  <2>1. y = x + 65536 * p
    <3>1. (n + 65536) * p = n * p + 65536 * p
        BY <1>1, <2>3
    <3> HIDE DEF n
    <3> QED
        BY <1>3, <3>1
  <2> HIDE DEF x, y
  <2>2. Word(y) = Word(x)
      BY <1>2, <2>1, SMT DEF Word
  <2> QED
      BY <2>2 DEF x, y
<1> QED
    BY <1>1, <1>3

\* A shift to the right rounds down.
LEMMA ShiftRightIsExact ==
    ASSUME NEW n \in Int, NEW p \in Nat \ {0}
    PROVE  LET q == n \div p
           IN /\ q \in Int /\ q * p <= n /\ n < (q + 1) * p
              /\ n >= 0 => q >= 0
              /\ Magnitude(q) <= Magnitude(n)
<1> DEFINE q == n \div p
           r == n % p
<1>1. n = p * q + r /\ q \in Int /\ r \in Nat /\ r < p
    BY IntDivided
<1> HIDE DEF q, r
<1>2. p * q = q * p /\ (q + 1) * p = q * p + p /\ q * p \in Int
    BY <1>1
<1>3. q * p <= n /\ n < (q + 1) * p
    BY <1>1, <1>2
<1>4. q >= 0 => q * p >= q
    BY <1>1
<1>5. q <= -1 => (q + 1) * p <= q + 1
    BY <1>1
<1>6. (n >= 0 => q >= 0) /\ Magnitude(q) <= Magnitude(n)
    BY <1>1, <1>2, <1>3, <1>4, <1>5 DEF Magnitude
<1> QED
    BY <1>1, <1>3, <1>6 DEF q

LEMMA ShiftsRightAreExact ==
    ASSUME NEW a \in Word16, NEW d \in Int, d < 0
    PROVE  LET p == 2^(-d)
               n == Signed(a)
               r == Word(a \div p)
               q == Signed(Word(n \div p))
           IN r * p <= a /\ a < (r + 1) * p /\ q * p <= n /\ n < (q + 1) * p
<1> DEFINE p == 2^(-d)
           n == Signed(a)
           u == a \div p
           v == n \div p
<1>1. p \in Nat \ {0}
  <2>1. -d \in Nat
      OBVIOUS
  <2> QED
      BY <2>1, PowersOfTwo
<1>2. /\ a \in Int /\ 0 <= a /\ a < 65536 /\ -32768 <= a
      /\ n \in Int /\ -32768 <= n /\ n <= 32767 /\ n < 65536
    BY WordsAreNumbers, SignedIs
<1>7. a \in Int /\ n \in Int /\ a >= 0
    BY <1>2
<1> HIDE DEF p, n
<1>3. u \in Int /\ u * p <= a /\ a < (u + 1) * p /\ u >= 0 /\ Magnitude(u) <= Magnitude(a)
    BY <1>1, <1>7, ShiftRightIsExact
<1>4. v \in Int /\ v * p <= n /\ n < (v + 1) * p /\ Magnitude(v) <= Magnitude(n) /\ (n >= 0 => v >= 0)
    BY <1>1, <1>7, ShiftRightIsExact
<1> HIDE DEF u, v
<1>5. Word(u) = u
  <2>1. Magnitude(u) = u /\ Magnitude(a) = a
      BY <1>2, <1>3 DEF Magnitude
  <2>2. u \in Int /\ 0 <= u /\ u < 65536
      BY <1>2, <1>3, <2>1
  <2>3. u % 65536 = u
      BY <2>2, SmallRemainder, SMT
  <2> QED
      BY <2>3 DEF Word
<1>6. Signed(Word(v)) = v
  <2>1. -32768 <= v /\ v <= 32767
    <3>1. n >= 0 => v >= 0 /\ v <= n
        BY <1>2, <1>4 DEF Magnitude
    <3>2. n < 0 => v <= -1 \/ v >= 0
        BY <1>4
    <3>3. v >= 0 => v * p >= 0
        BY <1>1, <1>4
    <3>4. n < 0 => v < 0
        BY <1>1, <1>2, <1>4, <3>3
    <3>5. n < 0 => -v <= -n
        BY <1>2, <1>4, <3>4 DEF Magnitude
    <3> QED
        BY <1>2, <1>4, <3>1, <3>4, <3>5
  <2> QED
      BY <1>4, <2>1, SignedBack
<1> QED
    BY <1>3, <1>4, <1>5, <1>6 DEF u, v, n, p

\* A result is a number.
LEMMA BinaryIsInteger ==
    ASSUME NEW op, NEW a \in Word16, NEW b \in Word16, IsBinary(op), HasValue(op, b)
    PROVE  BinaryResult(op, a, b) \in Int
<1> DEFINE n == Signed(a)
           d == Signed(b)
           x == BinaryResult(op, a, b)
<1>1. a \in Int /\ b \in Int /\ n \in Int /\ d \in Int /\ BitAnd(a, b) \in Word16
    BY WordsAreNumbers, SignedIs, BitAndIsExact
<1>2. BitAnd(a, b) \in Int
  <2>1. \A w \in Word16 : w \in Int
      BY WordsAreNumbers
  <2> QED
      BY <1>1, <2>1
<1>3. b # 0 => d # 0
    BY SignedIs
<1> HIDE DEF n, d
<1>4. CASE op.count = "OP2" /\ op.number \in {8, 9}
  <2>1. x = a + b - BitAnd(a, b) \/ x = BitAnd(a, b)
      BY <1>4 DEF BinaryResult, Is
  <2> HIDE DEF x
  <2> QED
      BY <1>1, <1>2, <2>1 DEF x
<1>5. CASE op.count = "OP2" /\ op.number \in {20, 21, 22}
  <2>1. x = a + b \/ x = a - b \/ x = n * d
      BY <1>5 DEF BinaryResult, Is, n, d
  <2> HIDE DEF x
  <2> QED
      BY <1>1, <2>1 DEF x
<1>6. CASE op.count = "OP2" /\ op.number \in {23, 24}
  <2>1. d # 0
      BY <1>3, <1>6 DEF Is, HasValue
  <2>2. Quotient(n, d) \in Int /\ n - d * Quotient(n, d) \in Int
      BY <1>1, <2>1, QuotientIs
  <2>3. x = Quotient(n, d) \/ x = n - d * Quotient(n, d)
      BY <1>6 DEF BinaryResult, Is, n, d
  <2> HIDE DEF x
  <2> QED
      BY <2>2, <2>3 DEF x
<1>7. CASE op.count = "EXT" /\ op.number \in {2, 3} /\ d >= 0
  <2> DEFINE p == 2^d
  <2>1. p \in Nat
      BY <1>1, <1>7, PowersOfTwo
  <2>2. x = a * p \/ x = n * p
      BY <1>7 DEF BinaryResult, Is, LogShift, ArtShift, n, d
  <2> HIDE DEF p, x
  <2> QED
      BY <1>1, <2>1, <2>2 DEF x
<1>8. CASE op.count = "EXT" /\ op.number \in {2, 3} /\ d < 0
  <2> DEFINE p == 2^(-d)
  <2>1. p \in Nat \ {0}
      BY <1>1, <1>8, PowersOfTwo
  <2>2. x = a \div p \/ x = n \div p
      BY <1>1, <1>8 DEF BinaryResult, Is, LogShift, ArtShift, n, d
  <2> HIDE DEF p, x
  <2> QED
      BY <1>1, <2>1, <2>2, IntDivided DEF x
<1> QED
    BY <1>1, <1>4, <1>5, <1>6, <1>7, <1>8 DEF IsBinary, Is

\* ADD, SUB, MUL, DIV, MOD, AND, OR, LOG_SHIFT and ART_SHIFT of any two words that have a
\* result (a divisor is not 0, and a shift not by -32768) store the exact one modulo 2^16:
\* quotients truncate, remainders have the sign of the dividend, shifts to the right lose the
\* bits below, and each bit of an AND or OR is that of the operands' bits.
THEOREM BinaryIsExact ==
    ASSUME NEW op, NEW a \in Word16, NEW b \in Word16, IsBinary(op), HasValue(op, b)
    PROVE  Exact(op, a, b, Word(BinaryResult(op, a, b)))
<1> DEFINE n == Signed(a)
           d == Signed(b)
           r == Word(BinaryResult(op, a, b))
           q == Signed(r)
           Near(x) == /\ Magnitude(x) < Magnitude(d)
                      /\ x # 0 => (x < 0) = (n < 0)
           Within(x, y) == x * 2^(-d) <= y /\ y < (x + 1) * 2^(-d)
<1>1. a \in Int /\ b \in Int /\ n \in Int /\ d \in Int
    BY WordsAreNumbers, SignedIs
<1>2. /\ -32768 <= n /\ n <= 32767 /\ -32768 <= d /\ d <= 32767
      /\ b # 0 => d # 0
    BY SignedIs
<1>3. r \in Word16
    BY BinaryIsInteger, WordOf
<1>4. ASSUME Is(op, "OP2", {20}) PROVE r = Word(a + b)
    BY <1>4 DEF BinaryResult, Is
<1>5. ASSUME Is(op, "OP2", {21}) PROVE a = Word(r + b)
  <2>1. r = Word(a - b)
      BY <1>5 DEF BinaryResult, Is
  <2> HIDE DEF r
  <2> QED
      BY <2>1, AdditionIsExact
<1>6. ASSUME Is(op, "OP2", {22}) PROVE r = Word(n * d)
    BY <1>6 DEF BinaryResult, Is
<1>7. ASSUME Is(op, "OP2", {23}) PROVE Near(n - q * d) \/ (n = -32768 /\ d = -1 /\ q = n)
  <2>1. r = Word(Quotient(n, d)) /\ d # 0
      BY <1>2, <1>7 DEF BinaryResult, Is, HasValue
  <2> QED
      BY <1>1, <1>2, <2>1, DivisionIsExact
<1>8. ASSUME Is(op, "OP2", {24}) PROVE Near(q) /\ (n - q) % Magnitude(d) = 0
  <2>1. r = Word(n - d * Quotient(n, d)) /\ d # 0
      BY <1>2, <1>8 DEF BinaryResult, Is, HasValue
  <2> QED
      BY <1>1, <1>2, <2>1, RemainderIsExact
<1>9. ASSUME Is(op, "EXT", {2, 3}), d >= 0 PROVE r = Word(a * 2^d)
  <2> DEFINE p == 2^d
  <2>1. p \in Nat
      BY <1>1, <1>9, PowersOfTwo
  <2>2. r = Word(a * p) \/ r = Word(n * p)
      BY <1>9 DEF BinaryResult, Is, LogShift, ArtShift
  <2> HIDE DEF p
  <2>3. Word(n * p) = Word(a * p)
      BY <2>1, ShiftLeftIsExact
  <2> QED
      BY <2>2, <2>3 DEF p
<1>10. ASSUME Is(op, "EXT", {2}), d < 0 PROVE Within(r, a)
  <2>1. r = Word(a \div 2^(-d))
      BY <1>1, <1>10 DEF BinaryResult, Is, LogShift
  <2> QED
      BY <1>1, <1>10, <2>1, ShiftsRightAreExact
<1>11. ASSUME Is(op, "EXT", {3}), d < 0 PROVE Within(q, n)
  <2>1. r = Word(n \div 2^(-d))
      BY <1>1, <1>11 DEF BinaryResult, Is, ArtShift
  <2> QED
      BY <1>1, <1>11, <2>1, ShiftsRightAreExact
<1>12. ASSUME Is(op, "OP2", {8})
       PROVE  \A k \in 0..15 : IsSet(r, k) <=> IsSet(a, k) \/ IsSet(b, k)
  <2> DEFINE o == a + b - BitAnd(a, b)
  <2>1. r = Word(o)
      BY <1>12 DEF BinaryResult, Is
  <2>2. o \in Word16 /\ \A k \in 0..15 : IsSet(o, k) <=> IsSet(a, k) \/ IsSet(b, k)
      BY BitOrIsExact
  <2> HIDE DEF r, o
  <2>3. r = o
      BY <2>1, <2>2, WordsStay
  <2> QED
      BY <2>2, <2>3
<1>13. ASSUME Is(op, "OP2", {9})
       PROVE  \A k \in 0..15 : IsSet(r, k) <=> IsSet(a, k) /\ IsSet(b, k)
  <2> DEFINE o == BitAnd(a, b)
  <2>1. r = Word(o)
      BY <1>13 DEF BinaryResult, Is
  <2>2. o \in Word16 /\ \A k \in 0..15 : IsSet(o, k) <=> IsSet(a, k) /\ IsSet(b, k)
      BY BitAndIsExact
  <2> HIDE DEF r, o
  <2>3. r = o
      BY <2>1, <2>2, WordsStay
  <2> QED
      BY <2>2, <2>3
<1> DEFINE
      IsSum == Is(op, "OP2", {20}) => r = Word(a + b)
      IsDifference == Is(op, "OP2", {21}) => a = Word(r + b)
      IsProduct == Is(op, "OP2", {22}) => r = Word(n * d)
      IsRatio == Is(op, "OP2", {23}) => Near(n - q * d) \/ (n = -32768 /\ d = -1 /\ q = n)
      IsRest == Is(op, "OP2", {24}) => Near(q) /\ (n - q) % Magnitude(d) = 0
      IsLeftward == Is(op, "EXT", {2, 3}) /\ d >= 0 => r = Word(a * 2^d)
      IsLogRight == Is(op, "EXT", {2}) /\ d < 0 => Within(r, a)
      IsArtRight == Is(op, "EXT", {3}) /\ d < 0 => Within(q, n)
      IsEither == Is(op, "OP2", {8}) => \A k \in 0..15 : IsSet(r, k) <=> IsSet(a, k) \/ IsSet(b, k)
      IsBoth == Is(op, "OP2", {9}) => \A k \in 0..15 : IsSet(r, k) <=> IsSet(a, k) /\ IsSet(b, k)
<1>14. /\ IsSum /\ IsDifference /\ IsProduct /\ IsRatio /\ IsRest
       /\ IsLeftward /\ IsLogRight /\ IsArtRight /\ IsEither /\ IsBoth
  <2>1. IsSum
      BY <1>4
  <2>2. IsDifference
      BY <1>5
  <2>3. IsProduct
      BY <1>6
  <2>4. IsRatio
      BY <1>7
  <2>5. IsRest
      BY <1>8
  <2>6. IsLeftward
      BY <1>9
  <2>7. IsLogRight
      BY <1>10
  <2>8. IsArtRight
      BY <1>11
  <2>9. IsEither
      BY <1>12
  <2>10. IsBoth
      BY <1>13
  <2> HIDE DEF IsSum, IsDifference, IsProduct, IsRatio, IsRest, IsLeftward,
        IsLogRight, IsArtRight, IsEither, IsBoth
  <2> QED
      BY <2>1, <2>2, <2>3, <2>4, <2>5, <2>6, <2>7, <2>8, <2>9, <2>10
<1>15. Exact(op, a, b, r) <=>
         /\ r \in Word16 /\ IsSum /\ IsDifference /\ IsProduct /\ IsRatio
         /\ IsRest /\ IsLeftward /\ IsLogRight /\ IsArtRight /\ IsEither /\ IsBoth
    BY DEF Exact
<1> HIDE DEF IsSum, IsDifference, IsProduct, IsRatio, IsRest, IsLeftward,
      IsLogRight, IsArtRight, IsEither, IsBoth
<1> QED
    BY <1>3, <1>14, <1>15

-----------------------------------------------------------------------------
(* A machine of words.                                                      *)

IsTyped(t) ==
    /\ Fields \subseteq DOMAIN t /\ "globals" \in DOMAIN t
    /\ t.memory \in Image /\ t.stack \in Seq(Word16) /\ t.locals \in Seq(Word16)
    /\ t.globals = header.globals

\* An operand is a word, and one that names a variable is a byte.
IsOperand(o) == o.value \in Word16 /\ (o.type = 2 => o.value \in Byte)

CodeStory == story \in Stories /\ story.program = "code"

LEMMA BytesAreNumbers == \A b \in Byte : b \in Nat /\ b < 256 /\ b \in Word16
<1> SUFFICES ASSUME NEW b \in Byte PROVE b \in Nat /\ b < 256 /\ b \in Word16
    OBVIOUS
<1>1. b \in Nat /\ b < 256
    BY DEF Byte
<1>2. b \in Int /\ 0 <= b /\ b < 65536
    BY <1>1
<1> QED
    BY <1>1, <1>2, WordIs

LEMMA ByteIs == \A n \in Nat : n < 256 => n \in Byte
BY DEF Byte

LEMMA HalfWordRead ==
    ASSUME NEW D, NEW m \in [D -> Byte], NEW a, a \in D, a + 1 \in D
    PROVE  ReadHalfWord(m, a) \in Word16
<1>1. m[a] \in Byte /\ m[a + 1] \in Byte
    OBVIOUS
<1>2. m[a] \in Nat /\ m[a] < 256 /\ m[a + 1] \in Nat /\ m[a + 1] < 256
    BY <1>1, BytesAreNumbers
<1>3. /\ ReadHalfWord(m, a) \in Int /\ 0 <= ReadHalfWord(m, a)
      /\ ReadHalfWord(m, a) < 65536
    BY <1>2 DEF ReadHalfWord
<1> QED
    BY <1>3, WordIs

LEMMA PopTyped ==
    ASSUME NEW t, IsTyped(t)
    PROVE  IsTyped(Pop(t)) /\ Pop(t).memory = t.memory /\ Pop(t).pc = t.pc
<1>1. CASE t.stack = <<>>
    BY <1>1 DEF Pop
<1>2. CASE t.stack # <<>>
  <2>1. Len(t.stack) > 0
      BY <1>2, StackLength DEF IsTyped, IsSequence
  <2>2. Front(t.stack) \in Seq(Word16)
      BY <2>1, FrontIs DEF IsTyped
  <2>3. Pop(t) = [t EXCEPT !.stack = Front(t.stack)]
      BY <1>2 DEF Pop
  <2> QED
      BY <2>2, <2>3 DEF IsTyped, Fields
<1> QED
    BY <1>1, <1>2

LEMMA PushTyped ==
    ASSUME NEW t, IsTyped(t), NEW x \in Word16
    PROVE  IsTyped(Push(t, x)) /\ Push(t, x).memory = t.memory /\ Push(t, x).pc = t.pc
<1>1. Append(t.stack, x) \in Seq(Word16)
    BY DEF IsTyped
<1>2. Push(t, x) = [t EXCEPT !.stack = Append(t.stack, x)]
    BY DEF Push
<1> QED
    BY <1>1, <1>2 DEF IsTyped, Fields

LEMMA PeekTyped ==
    ASSUME NEW t, IsTyped(t)
    PROVE  Peek(t) \in Word16
<1>1. 0 \in Word16
    BY WordIs
<1>2. ASSUME t.stack # <<>> PROVE Last(t.stack) \in Word16
  <2>1. t.stack \in Seq(Word16) /\ Len(t.stack) \in Nat /\ Len(t.stack) # 0
      BY <1>2, StackLength DEF IsTyped, IsSequence
  <2> QED
      BY <2>1 DEF Last
<1> QED
    BY <1>1, <1>2 DEF Peek

\* The globals are in memory.
LEMMA GlobalsAre ==
    ASSUME CodeStory, NEW t, IsTyped(t), NEW v \in Byte, v >= 16
    PROVE  LET a == Global(t, v)
           IN a \in Int /\ a \in DOMAIN story.memory /\ a + 1 \in DOMAIN story.memory
<1>1. /\ header.globals \in Nat
      /\ (header.globals)..(header.globals + 479) \subseteq DOMAIN story.memory
      /\ (header.globals)..(header.globals + 479) \subseteq Word16
    BY CodeAssumption DEF CodeStory, header, Addressable
<1>2. v \in Nat /\ v < 256
    BY BytesAreNumbers
<1> DEFINE a == header.globals + 2 * (v - 16)
<1>3. /\ a \in Nat /\ a \in (header.globals)..(header.globals + 479)
      /\ a + 1 \in (header.globals)..(header.globals + 479)
    BY <1>1, <1>2
<1>4. Global(t, v) = Word(a)
    BY DEF Global, IsTyped
<1> HIDE DEF a
<1>5. Word(a) = a
    BY <1>1, <1>3, WordsStay
<1> QED
    BY <1>1, <1>3, <1>4, <1>5

LEMMA ReadVariableTyped ==
    ASSUME CodeStory, NEW t, IsTyped(t), NEW v \in Byte
    PROVE  ReadVariable(t, v) \in Word16
<1>1. v \in Nat /\ v < 256
    BY BytesAreNumbers
<1>2. CASE v = 0
    BY <1>2, PeekTyped DEF ReadVariable
<1>3. CASE v \in 1..15
  <2>1. 0 \in Word16
      BY WordIs
  <2>2. ReadVariable(t, v) = IF v <= Len(t.locals) THEN t.locals[v] ELSE 0
      BY <1>3 DEF ReadVariable
  <2>3. v <= Len(t.locals) => t.locals[v] \in Word16
      BY <1>3 DEF IsTyped
  <2> QED
      BY <2>1, <2>2, <2>3
<1>4. CASE v >= 16
  <2>1. ReadVariable(t, v) = ReadHalfWord(t.memory, Global(t, v))
      BY <1>1, <1>4 DEF ReadVariable
  <2> QED
      BY <1>4, <2>1, GlobalsAre, HalfWordRead DEF IsTyped, Image
<1> QED
    BY <1>1, <1>2, <1>3, <1>4

LEMMA WriteVariableTyped ==
    ASSUME CodeStory, NEW t, IsTyped(t), NEW v \in Byte, NEW x \in Int, NEW indirect \in BOOLEAN
    PROVE  IsTyped(WriteVariable(t, v, x, indirect))
<1> DEFINE w == WriteVariable(t, v, x, indirect)
           a == Global(t, v)
           m == WriteHalfWord(t.memory, a, x)
<1>1. v \in Nat /\ v < 256
    BY BytesAreNumbers
<1>2. Word(x) \in Word16
    BY WordOf
<1>3. CASE v = 0
  <2>1. w = Push(IF indirect THEN Pop(t) ELSE t, Word(x))
      BY <1>3 DEF WriteVariable
  <2> QED
      BY <1>2, <2>1, PopTyped, PushTyped
<1>4. CASE v \in 1..15
  <2>1. w = t \/ (v <= Len(t.locals) /\ w = [t EXCEPT !.locals[v] = Word(x)])
      BY <1>4 DEF WriteVariable
  <2> DEFINE l == [t.locals EXCEPT ![v] = Word(x)]
  <2>2. l \in Seq(Word16)
    <3>1. t.locals \in [1..Len(t.locals) -> Word16] /\ Len(t.locals) \in Nat
        BY DEF IsTyped
    <3>2. l \in [1..Len(t.locals) -> Word16]
        BY <1>2, <3>1
    <3> QED
        BY <3>1, <3>2
  <2>3. w = t \/ w = [t EXCEPT !.locals = l]
      BY <2>1
  <2> HIDE DEF l, w
  <2> QED
      BY <2>2, <2>3 DEF IsTyped, Fields, w
<1>5. CASE v >= 16
  <2>1. a \in Int
      BY <1>5, GlobalsAre
  <2>2. m \in Image
    <3>1. t.memory \in [DOMAIN story.memory -> Byte]
        BY DEF IsTyped, Image
    <3> HIDE DEF a
    <3>2. WriteHalfWord(t.memory, a, x) \in [DOMAIN story.memory -> Byte]
        BY <2>1, <3>1, HalfWordWritten
    <3> QED
        BY <3>2 DEF Image
  <2>3. w = [t EXCEPT !.memory = m]
      BY <1>1, <1>5 DEF WriteVariable
  <2> HIDE DEF w, m
  <2> QED
      BY <2>2, <2>3 DEF IsTyped, Fields, w
<1> QED
    BY <1>1, <1>3, <1>4, <1>5

LEMMA OperandTyped ==
    ASSUME CodeStory, NEW t, IsTyped(t), NEW o, IsOperand(o)
    PROVE  /\ Value(t, o) \in Word16 /\ IsTyped(AfterValue(t, o))
           /\ AfterValue(t, o).memory = t.memory /\ AfterValue(t, o).pc = t.pc
<1>1. Value(t, o) \in Word16
    BY ReadVariableTyped DEF Value, IsOperand
<1>2. AfterValue(t, o) = t \/ AfterValue(t, o) = Pop(t)
    BY DEF AfterValue, AfterRead
<1> QED
    BY <1>1, <1>2, PopTyped

LEMMA EvaluatedTyped ==
    ASSUME CodeStory, NEW s, IsTyped(s), NEW operands, Len(operands) \in Nat,
           \A k \in 1..Len(operands) : IsOperand(operands[k])
    PROVE  LET e == Evaluated(s, operands)
           IN /\ IsTyped(e.s) /\ e.s.memory = s.memory /\ e.s.pc = s.pc
              /\ e.values \in Seq(Word16) /\ Len(e.values) = Len(operands)
              /\ \A k \in 1..Len(operands) : e.values[k] \in Word16
<1> DEFINE n == Len(operands)
<1>1. PICK f : Evaluation(f, s, operands)
    BY EvaluatedUnfolds
<1> DEFINE Told(k) == IsTyped(f[k]) /\ f[k].memory = s.memory /\ f[k].pc = s.pc
           T == {k \in 0..n : ~Told(k)}
<1>2. f[0] = s /\ \A k \in 1..n : f[k] = AfterValue(f[k - 1], operands[k])
    BY <1>1 DEF Evaluation
<1>3. Evaluated(s, operands) = [values |-> [k \in 1..n |-> Value(f[k - 1], operands[k])], s |-> f[n]]
    BY <1>1 DEF Evaluation
<1>4. Told(0)
    BY <1>2
<1>5. ASSUME NEW k \in 1..n, Told(k - 1) PROVE Told(k)
  <2>1. f[k] = AfterValue(f[k - 1], operands[k]) /\ IsOperand(operands[k])
      BY <1>2
  <2> QED
      BY <1>5, <2>1, OperandTyped
<1>6. n \in Nat
    OBVIOUS
<1> HIDE DEF Told, n
<1>7. ASSUME T # {} PROVE FALSE
  <2>1. T \subseteq Nat
      BY <1>6
  <2>2. PICK k \in T : \A j \in T : k <= j
      BY <1>7, <2>1, LeastElement
  <2>3. k \in 0..n /\ ~Told(k) /\ k # 0
      BY <1>4, <2>2
  <2>4. k \in 1..n /\ k - 1 \in 0..n /\ ~(k <= k - 1)
      BY <1>6, <2>3
  <2>5. Told(k - 1)
      BY <2>2, <2>4
  <2> QED
      BY <1>5, <2>3, <2>4, <2>5
<1>8. \A k \in 0..n : Told(k)
    BY <1>7
<1>9. Told(n) /\ \A k \in 1..n : Told(k - 1) /\ IsOperand(operands[k])
    BY <1>6, <1>8 DEF n
<1>10. \A k \in 1..n : Value(f[k - 1], operands[k]) \in Word16
    BY <1>9, OperandTyped DEF Told
<1> DEFINE values == [k \in 1..n |-> Value(f[k - 1], operands[k])]
<1>11. Len(values) = n /\ values \in Seq(Word16)
  <2>1. values \in [1..n -> Word16]
      BY <1>10
  <2> HIDE DEF values
  <2> QED
      BY <1>6, <2>1
<1> QED
    BY <1>3, <1>9, <1>10, <1>11 DEF Told, n

-----------------------------------------------------------------------------
(* What is parsed.                                                          *)

OperandTypes == {0, 1, 2}

\* What is parsed has operands, and ends in memory, where one more byte may be read.
ParsedTyped(parsed, D) ==
    /\ \A k \in 1..Len(parsed.operands) : IsOperand(parsed.operands[k])
    /\ parsed.next \in D

\* Operands found in memory are words, and the byte after them is in memory too.
LEMMA OperandsTyped ==
    ASSUME NEW D, NEW m \in [D -> Byte], NEW a \in Nat, a..(a + 17) \subseteq D,
           NEW types, Len(types) \in Nat, Len(types) <= 8,
           \A k \in 1..Len(types) : types[k] \in OperandTypes
    PROVE  ParsedTyped(Operands(m, a, types), D)
<1> DEFINE n == Len(types)
           C(j) == Cardinality({i \in 1..j : types[i] = 0})
           at(k) == a + (k - 1) + C(k - 1)
           Operand(k) == [type |-> types[k],
                          value |-> IF types[k] = 0 THEN ReadHalfWord(m, at(k)) ELSE m[at(k)]]
<1>1. Operands(m, a, types) = [operands |-> [k \in 1..n |-> Operand(k)], next |-> at(n + 1)]
    BY Zenon DEF Operands
<1>2. \A j \in Nat : C(j) \in Nat /\ C(j) <= j
  <2> TAKE j \in Nat
  <2> DEFINE S == {i \in 1..j : types[i] = 0}
  <2>1. IsFiniteSet(1..j) /\ Cardinality(1..j) = j
    <3>1. 1 \in Int /\ j \in Int
        OBVIOUS
    <3>2. IsFiniteSet(1..j) /\ Cardinality(1..j) = IF 1 > j THEN 0 ELSE j - 1 + 1
        BY <3>1, FS_Interval
    <3> QED
        BY <3>2
  <2>2. S \in SUBSET (1..j)
      OBVIOUS
  <2> HIDE DEF S
  <2>3. IsFiniteSet(S) /\ Cardinality(S) <= Cardinality(1..j)
      BY <2>1, <2>2, FS_Subset
  <2>4. Cardinality(S) \in Nat
      BY <2>3, FS_CardinalityType
  <2> QED
      BY <2>1, <2>3, <2>4 DEF S
<1> HIDE DEF C
<1>3. ASSUME NEW k \in 1..(n + 1) PROVE at(k) \in a..(a + 16)
  <2>1. PICK j \in Nat : j = k - 1 /\ j <= 8
      OBVIOUS
  <2>2. C(j) \in Nat /\ C(j) <= j
      BY <1>2, Zenon
  <2>3. a + j + C(j) \in a..(a + 16)
      BY <2>1, <2>2
  <2> QED
      BY <2>1, <2>3
<1>4. ASSUME NEW k \in 1..n PROVE IsOperand(Operand(k))
  <2>1. at(k) \in a..(a + 16)
      BY <1>3
  <2>2. at(k) \in D /\ at(k) + 1 \in D
      BY <2>1
  <2> HIDE DEF at
  <2>3. ReadHalfWord(m, at(k)) \in Word16 /\ m[at(k)] \in Byte
      BY <2>2, HalfWordRead
  <2>4. m[at(k)] \in Word16
      BY <2>3, BytesAreNumbers
  <2> QED
      BY <2>3, <2>4 DEF IsOperand
<1>5. at(n + 1) \in D
  <2>1. at(n + 1) \in a..(a + 16)
      BY <1>3
  <2> QED
      BY <2>1
<1> HIDE DEF Operand, at
<1>6. Len([k \in 1..n |-> Operand(k)]) = n
    OBVIOUS
<1> QED
    BY <1>1, <1>4, <1>5, <1>6 DEF ParsedTyped

AllTypes == {0, 1, 2, 3}

LEMMA GivenTyped ==
    ASSUME NEW types \in Seq(AllTypes)
    PROVE  /\ Len(Given(types)) \in Nat /\ Len(Given(types)) <= Len(types)
           /\ \A k \in 1..Len(Given(types)) : Given(types)[k] \in OperandTypes
<1> DEFINE omitted == {i \in DOMAIN types : types[i] = 3}
           n == Min(omitted) - 1
<1>1. Given(types) = IF omitted = {} THEN types ELSE SubSeq(types, 1, n)
    BY DEF Given
<1>2. /\ omitted \subseteq Nat /\ omitted \subseteq 1..Len(types) /\ Len(types) \in Nat
      /\ \A i \in 1..Len(types) : i \notin omitted => types[i] \in OperandTypes
    BY DEF AllTypes, OperandTypes
<1> HIDE DEF omitted
<1>3. ASSUME omitted # {} PROVE n \in 0..Len(types) /\ \A i \in omitted : i > n
  <2>1. Min(omitted) \in omitted /\ \A i \in omitted : Min(omitted) <= i
      BY <1>2, <1>3, LeastElement DEF Min
  <2>2. Min(omitted) \in 1..Len(types)
      BY <1>2, <2>1
  <2> QED
      BY <1>2, <2>1, <2>2
<1>4. CASE omitted = {}
    BY <1>1, <1>2, <1>4
<1>5. CASE omitted # {}
  <2>1. n \in 0..Len(types) /\ \A i \in omitted : i > n
      BY <1>3, <1>5
  <2> HIDE DEF n
  <2>2. \A i \in 1..n : i \in 1..Len(types) /\ i \notin omitted
      BY <1>2, <2>1
  <2>3. /\ Len(SubSeq(types, 1, n)) = n
        /\ \A i \in 1..n : SubSeq(types, 1, n)[i] = types[i]
      BY <1>2, <2>1
  <2> QED
      BY <1>1, <1>2, <1>5, <2>1, <2>2, <2>3
<1> QED
    BY <1>4, <1>5

LEMMA TypesTyped ==
    ASSUME NEW b \in Byte
    PROVE  Types(b) \in Seq(AllTypes) /\ Len(Types(b)) = 4
<1>1. b \in Nat /\ b < 256
    BY BytesAreNumbers
<1>2. b \div 64 \in AllTypes
    BY <1>1 DEF AllTypes
<1>3. (b \div 16) % 4 \in AllTypes /\ (b \div 4) % 4 \in AllTypes /\ b % 4 \in AllTypes
  <2>1. \A x \in Nat : x % 4 \in AllTypes
      BY DEF AllTypes
  <2>2. b \div 16 \in Nat /\ b \div 4 \in Nat
      BY <1>1
  <2> QED
      BY <1>1, <2>1, <2>2
<1> HIDE DEF AllTypes
<1> QED
    BY <1>2, <1>3 DEF Types

LEMMA VariableOperandsTyped ==
    ASSUME NEW D, NEW m \in [D -> Byte], NEW a \in Nat, a..(a + 19) \subseteq D,
           NEW count, NEW number
    PROVE  ParsedTyped(VariableOperands(m, a, count, number), D)
<1> DEFINE one == Types(m[a])
           two == Types(m[a + 1])
<1>1. m[a] \in Byte /\ m[a + 1] \in Byte
  <2>1. a \in D /\ a + 1 \in D
      OBVIOUS
  <2> QED
      BY <2>1
<1>2. one \in Seq(AllTypes) /\ Len(one) = 4 /\ two \in Seq(AllTypes) /\ Len(two) = 4
    BY <1>1, TypesTyped
<1> HIDE DEF one, two
<1>3. one \o two \in Seq(AllTypes) /\ Len(one \o two) = 8
  <2>1. one \o two \in Seq(AllTypes) /\ Len(one \o two) = Len(one) + Len(two)
      BY <1>2, ConcatProperties, Zenon
  <2> QED
      BY <1>2, <2>1
<1>4. ParsedTyped(Operands(m, a + 2, Given(one \o two)), D)
  <2> DEFINE both == one \o two
  <2>3. both \in Seq(AllTypes) /\ Len(both) = 8
      BY <1>3
  <2> HIDE DEF both
  <2>1. /\ Len(Given(both)) \in Nat /\ Len(Given(both)) <= 8
        /\ \A k \in 1..Len(Given(both)) : Given(both)[k] \in OperandTypes
      BY <2>3, GivenTyped
  <2>2. a + 2 \in Nat /\ (a + 2)..((a + 2) + 17) \subseteq D
      OBVIOUS
  <2> HIDE DEF both
  <2>4. ParsedTyped(Operands(m, a + 2, Given(both)), D)
      BY <2>1, <2>2, OperandsTyped
  <2> QED
      BY <2>4 DEF both
<1>5. ParsedTyped(Operands(m, a + 1, Given(one)), D)
  <2>1. /\ Len(Given(one)) \in Nat /\ Len(Given(one)) <= Len(one)
        /\ \A k \in 1..Len(Given(one)) : Given(one)[k] \in OperandTypes
      BY <1>2, GivenTyped
  <2>3. Len(Given(one)) <= 8
      BY <1>2, <2>1
  <2>2. a + 1 \in Nat /\ (a + 1)..((a + 1) + 17) \subseteq D
      OBVIOUS
  <2> QED
      BY <2>1, <2>2, <2>3, OperandsTyped
<1> QED
    BY <1>4, <1>5 DEF VariableOperands, one, two

LEMMA ParseOpcodeTyped ==
    ASSUME NEW D, NEW m \in [D -> Byte], NEW a \in Nat, a..(a + 21) \subseteq D, NEW v \in Int
    PROVE  ParsedTyped(ParseOpcode(v, m, a), D)
<1> DEFINE Opcode(count, number, parsed) ==
               [count |-> count, number |-> number, operands |-> parsed.operands,
                next |-> parsed.next]
           byte == m[a]
           Long(bit) == IF (byte \div bit) % 2 = 1 THEN 2 ELSE 1
           count2 == IF (byte \div 32) % 2 = 0 THEN "OP2" ELSE "VAR"
           type == (byte \div 16) % 4
           ext == Opcode("EXT", m[a + 1], VariableOperands(m, a + 2, "EXT", m[a + 1]))
           var == Opcode(count2, byte % 32, VariableOperands(m, a + 1, count2, byte % 32))
           short == Opcode(IF type = 3 THEN "OP0" ELSE "OP1", byte % 16,
                           Operands(m, a + 1, IF type = 3 THEN <<>> ELSE <<type>>))
           long == Opcode("OP2", byte % 32, Operands(m, a + 1, <<Long(64), Long(32)>>))
<1>1. ParseOpcode(v, m, a) \in {ext, var, short, long}
  <2>1. ParseOpcode(v, m, a) =
          CASE byte = 190 /\ v >= 5 -> ext
            [] byte >= 192 -> var
            [] byte \in 128..191 /\ ~(byte = 190 /\ v >= 5) -> short
            [] OTHER -> long
      BY Zenon DEF ParseOpcode
  <2> HIDE DEF ext, var, short, long
  <2> QED
      BY <2>1
<1>2. \A count, number, parsed : ParsedTyped(parsed, D) => ParsedTyped(Opcode(count, number, parsed), D)
    BY DEF ParsedTyped
<1>3. byte \in Nat /\ byte < 256
  <2>1. a \in D
      OBVIOUS
  <2> QED
      BY <2>1, BytesAreNumbers
<1>4. /\ a + 1 \in Nat /\ (a + 1)..((a + 1) + 19) \subseteq D /\ (a + 1)..((a + 1) + 17) \subseteq D
      /\ a + 2 \in Nat /\ (a + 2)..((a + 2) + 19) \subseteq D
    OBVIOUS
<1> HIDE DEF byte, Opcode
<1>5. ParsedTyped(ext, D) /\ ParsedTyped(var, D)
    BY <1>2, <1>4, VariableOperandsTyped
<1>6. ParsedTyped(long, D)
  <2> DEFINE types == <<Long(64), Long(32)>>
  <2>1. Len(types) = 2 /\ types[1] \in OperandTypes /\ types[2] \in OperandTypes
      BY DEF OperandTypes
  <2>2. Len(types) \in Nat /\ Len(types) <= 8 /\ \A k \in 1..Len(types) : types[k] \in OperandTypes
      BY <2>1
  <2> HIDE DEF types
  <2>3. ParsedTyped(Operands(m, a + 1, types), D)
      BY <1>4, <2>2, OperandsTyped
  <2> QED
      BY <1>2, <2>3 DEF types
<1>7. ParsedTyped(short, D)
  <2> DEFINE types == IF type = 3 THEN <<>> ELSE <<type>>
  <2>1. type \in AllTypes
    <3>1. \A x \in Nat : x % 4 \in AllTypes
        BY DEF AllTypes
    <3>2. byte \div 16 \in Nat
        BY <1>3
    <3> QED
        BY <3>1, <3>2
  <2> HIDE DEF type
  <2>2. Len(types) \in Nat /\ Len(types) <= 8 /\ \A k \in 1..Len(types) : types[k] \in OperandTypes
    <3>1. CASE type = 3
        BY <3>1
    <3>2. CASE type # 3
      <4>1. Len(types) = 1 /\ types[1] = type
          BY <3>2
      <4>2. type \in OperandTypes
          BY <2>1, <3>2 DEF AllTypes, OperandTypes
      <4> QED
          BY <4>1, <4>2
    <3> QED
        BY <3>1, <3>2
  <2> HIDE DEF types
  <2>3. ParsedTyped(Operands(m, a + 1, types), D)
      BY <1>4, <2>2, OperandsTyped
  <2> QED
      BY <1>2, <2>3 DEF types
<1> QED
    BY <1>1, <1>5, <1>6, <1>7

-----------------------------------------------------------------------------
(* Instructions on a machine of words leave one.                            *)

LEMMA PlaceTyped ==
    ASSUME NEW t, IsTyped(t), NEW a
    PROVE  LET w == [t EXCEPT !.pc = a]
           IN /\ IsTyped(w) /\ IsTyped([t EXCEPT !.halted = TRUE])
              /\ w.memory = t.memory /\ w.pc = a
BY DEF IsTyped, Fields

LEMMA StoreTyped ==
    ASSUME CodeStory, NEW t, IsTyped(t), t.pc \in DOMAIN story.memory, NEW x \in Int
    PROVE  IsTyped(Store(t, x))
<1> DEFINE n == [t EXCEPT !.pc = @ + 1]
           v == t.memory[t.pc]
<1>1. IsTyped(n)
    BY PlaceTyped
<1>2. v \in Byte
    BY DEF IsTyped, Image
<1> HIDE DEF n, v
<1>3. IsTyped(WriteVariable(n, v, x, FALSE))
    BY <1>1, <1>2, WriteVariableTyped
<1> QED
    BY <1>3 DEF Store, n, v

LEMMA HandleBranchTyped ==
    ASSUME NEW t, IsTyped(t), NEW result
    PROVE  IsTyped(HandleBranch(t, result))
<1> DEFINE w == HandleBranch(t, result)
           after == AfterBranch(t.memory, t.pc)
           offset == BranchOffset(t.memory, t.pc)
<1> HIDE DEF after, offset
<1>1. \/ w = [t EXCEPT !.pc = after]
      \/ w = [t EXCEPT !.halted = TRUE]
      \/ w = [t EXCEPT !.pc = after + offset - 2]
    BY DEF HandleBranch, after, offset
<1> HIDE DEF w
<1> QED
    BY <1>1, PlaceTyped DEF w

WordsHold ==
    /\ memory \in Image /\ stack \in Seq(Word16) /\ locals \in Seq(Word16)
    /\ streams.MemoryStreamData = <<>>

\* An instruction as it is found in memory.
IsReady(op) ==
    /\ IsInstruction(op) /\ op.next \in DOMAIN story.memory
    /\ \A k \in 1..Len(op.operands) : IsOperand(op.operands[k])

LEMMA NowTyped ==
    ASSUME WordsHold
    PROVE  IsTyped(Now) /\ Now.memory = memory
BY DEF WordsHold, IsTyped, Fields, Now

LEMMA FetchedIsReady ==
    ASSUME CodeStory, WordsHold, Running
    PROVE  IsReady(Fetched)
<1> DEFINE D == DOMAIN story.memory
<1>1. story.size \in Nat /\ 0..(story.size + LongestInstruction) \subseteq D /\ version \in Int
    BY CodeAssumption, InstructionsAssumption DEF CodeStory, version, header
<1>2. pc \in Nat /\ pc <= story.size - 1
    BY <1>1 DEF Running
<1>3. pc..(pc + 21) \subseteq 0..(story.size + 20)
    BY <1>1, <1>2
<1>4. memory \in [D -> Byte] /\ pc..(pc + 21) \subseteq D
    BY <1>1, <1>3 DEF WordsHold, Image, LongestInstruction
<1>5. ParsedTyped(ParseOpcode(version, memory, pc), D)
    BY <1>1, <1>2, <1>4, ParseOpcodeTyped
<1>6. IsInstruction(Fetched)
    BY ParseOpcodeIs DEF Fetched
<1> QED
    BY <1>5, <1>6 DEF IsReady, ParsedTyped, Fetched

LEMMA AfterTyped ==
    ASSUME CodeStory, WordsHold, NEW op, IsReady(op)
    PROVE  LET t == After(Now, op)
               v == Arguments(Now, op)
           IN /\ IsTyped(t) /\ t.memory = memory /\ t.pc = op.next /\ t.pc \in DOMAIN story.memory
              /\ v \in Seq(Word16) /\ Len(v) = Len(op.operands)
              /\ \A k \in 1..Len(op.operands) : v[k] \in Word16
<1> DEFINE s == [Now EXCEPT !.pc = op.next]
           e == Evaluated(s, op.operands)
           f == Evaluated(Now, op.operands)
<1>1. IsTyped(Now) /\ IsTyped(s) /\ s.memory = memory /\ s.pc = op.next
    BY NowTyped, PlaceTyped
<1> HIDE DEF s
<1>2. Len(op.operands) \in Nat /\ \A k \in 1..Len(op.operands) : IsOperand(op.operands[k])
    BY OperandsOf DEF IsReady
<1>3. IsTyped(e.s) /\ e.s.memory = memory /\ e.s.pc = op.next
    BY <1>1, <1>2, EvaluatedTyped
<1>4. /\ f.values \in Seq(Word16) /\ Len(f.values) = Len(op.operands)
      /\ \A k \in 1..Len(op.operands) : f.values[k] \in Word16
    BY <1>1, <1>2, EvaluatedTyped
<1> QED
    BY <1>3, <1>4 DEF After, Arguments, s, IsReady

LEMMA LowBytes == \A w \in Word16 : w % 256 \in Byte
<1> SUFFICES ASSUME NEW w \in Word16 PROVE w % 256 \in Byte
    OBVIOUS
<1>1. w \in Nat
    BY WordsAreNumbers
<1>2. w % 256 \in Nat /\ w % 256 < 256
    BY <1>1
<1> QED
    BY <1>2, ByteIs

LEMMA FirstTyped ==
    ASSUME NEW op, IsReady(op), Len(op.operands) >= 1
    PROVE  LET first == [op EXCEPT !.operands = <<Head(@)>>]
           IN IsReady(first) /\ Len(first.operands) = 1
<1> DEFINE first == [op EXCEPT !.operands = <<Head(@)>>]
<1>1. IsInstruction(first) /\ first.next = op.next /\ first.operands = <<op.operands[1]>>
    BY FirstIs DEF IsReady
<1> HIDE DEF first
<1>2. Len(op.operands) \in Nat
    BY OperandsOf DEF IsReady
<1>3. IsOperand(op.operands[1])
    BY <1>2 DEF IsReady
<1>4. Len(first.operands) = 1 /\ \A k \in 1..1 : first.operands[k] = op.operands[1]
    BY <1>1
<1> QED
    BY <1>1, <1>3, <1>4 DEF IsReady, first

\* What is known of a machine about to execute op.
Executing(op) == CodeStory /\ WordsHold /\ IsReady(op)

LEMMA ComputeTyped ==
    ASSUME NEW op, Executing(op), IsBinary(op), Len(op.operands) = 2
    PROVE  LET v == Arguments(Now, op)
               w == Compute(Now, op)
           IN /\ IsTyped(w) /\ v \in Seq(Word16) /\ Len(v) = 2 /\ v[1] \in Word16 /\ v[2] \in Word16
              /\ ~w.halted => HasValue(op, v[2])
<1> DEFINE v == Arguments(Now, op)
           t == After(Now, op)
           w == Compute(Now, op)
           x == BinaryResult(op, v[1], v[2])
           h == [t EXCEPT !.halted = TRUE]
<1>1. /\ IsTyped(t) /\ t.pc \in DOMAIN story.memory
      /\ v \in Seq(Word16) /\ Len(v) = 2 /\ v[1] \in Word16 /\ v[2] \in Word16
    BY AfterTyped DEF Executing
<1>2. w = IF ~HasValue(op, v[2]) THEN h ELSE Store(t, x)
    BY Zenon DEF Compute
<1>3. IsTyped(h) /\ h.halted
    BY <1>1, PlaceTyped DEF IsTyped, Fields
<1> HIDE DEF v, t, w, x, h
<1>4. CASE ~HasValue(op, v[2])
    BY <1>1, <1>2, <1>3, <1>4 DEF v, w
<1>5. CASE HasValue(op, v[2])
  <2>1. x \in Int
      BY <1>1, <1>5, BinaryIsInteger DEF x
  <2>2. IsTyped(Store(t, x))
      BY <1>1, <2>1, StoreTyped DEF Executing
  <2> QED
      BY <1>1, <1>2, <1>5, <2>2 DEF v, w
<1> QED
    BY <1>4, <1>5

LEMMA PlainTyped ==
    ASSUME NEW op, Executing(op)
    PROVE  /\ IsTyped(Test(Now, op)) /\ IsTyped(Jump(Now, op)) /\ IsTyped(After(Now, op))
           /\ IsTyped(Discard(Now, op)) /\ IsTyped([After(Now, op) EXCEPT !.halted = TRUE])
<1> DEFINE t == After(Now, op)
<1>1. IsTyped(t)
    BY AfterTyped DEF Executing
<1>2. Test(Now, op) = HandleBranch(t, Passes(op, Arguments(Now, op)))
    BY DEF Test
<1>3. \E a : Jump(Now, op) = [t EXCEPT !.pc = a]
    BY DEF Jump
<1>4. Discard(Now, op) = Pop(t)
    BY DEF Discard
<1> HIDE DEF t
<1>5. IsTyped(Test(Now, op))
    BY <1>1, <1>2, HandleBranchTyped
<1>6. IsTyped(Jump(Now, op))
    BY <1>1, <1>3, PlaceTyped
<1>7. IsTyped(Discard(Now, op))
    BY <1>1, <1>4, PopTyped
<1>8. IsTyped([t EXCEPT !.halted = TRUE])
    BY <1>1, PlaceTyped
<1> QED
    BY <1>1, <1>5, <1>6, <1>7, <1>8 DEF t

\* Instructions of one operand.
LEMMA OneTyped ==
    ASSUME NEW op, Executing(op), Len(op.operands) = 1
    PROVE  /\ IsTyped(Complement(Now, op)) /\ IsTyped(Load(Now, op)) /\ IsTyped(Pull(Now, op))
           /\ IsTyped(PushValue(Now, op)) /\ IsTyped(CheckUnicode(Now, op))
<1> DEFINE t == After(Now, op)
           v == Arguments(Now, op)
           y == v[1] % 256
<1>1. IsTyped(t) /\ t.pc \in DOMAIN story.memory /\ v[1] \in Word16
    BY AfterTyped DEF Executing
<1>2. y \in Byte /\ v[1] \in Int
    BY <1>1, LowBytes, WordsAreNumbers
<1>3. /\ Complement(Now, op) = Store(t, 65535 - v[1])
      /\ Load(Now, op) = Store(t, ReadVariable(t, y))
      /\ Pull(Now, op) = WriteVariable(Pop(t), y, Peek(t), TRUE)
      /\ PushValue(Now, op) = Push(t, v[1])
      /\ CheckUnicode(Now, op) = t \/ CheckUnicode(Now, op) = Store(t, 3)
    BY DEF Complement, Load, Pull, PushValue, CheckUnicode
<1> HIDE DEF t, v, y
<1>4. 65535 - v[1] \in Int /\ 3 \in Int /\ TRUE \in BOOLEAN
    BY <1>2
<1>5. ReadVariable(t, y) \in Word16 /\ Peek(t) \in Word16
    BY <1>1, <1>2, ReadVariableTyped, PeekTyped DEF Executing
<1>6. ReadVariable(t, y) \in Int /\ Peek(t) \in Int
    BY <1>5, WordsAreNumbers
<1>7. CodeStory
    BY DEF Executing
<1>8. IsTyped(Complement(Now, op))
    BY <1>1, <1>3, <1>4, <1>7, StoreTyped
<1>9. IsTyped(Load(Now, op))
    BY <1>1, <1>3, <1>6, <1>7, StoreTyped
<1>10. IsTyped(Pull(Now, op))
  <2> DEFINE p == Pop(t)
             x == Peek(t)
  <2>1. IsTyped(p) /\ x \in Int /\ Pull(Now, op) = WriteVariable(p, y, x, TRUE)
      BY <1>1, <1>3, <1>6, PopTyped
  <2> HIDE DEF p, x
  <2>2. y \in Byte
      BY <1>2
  <2> QED
      BY <1>7, <2>1, <2>2, WriteVariableTyped
<1>11. IsTyped(PushValue(Now, op))
    BY <1>1, <1>3, PushTyped
<1>12. IsTyped(CheckUnicode(Now, op))
    BY <1>1, <1>3, <1>4, <1>7, StoreTyped
<1> QED
    BY <1>8, <1>9, <1>10, <1>11, <1>12

LEMMA AssignTyped ==
    ASSUME NEW op, Executing(op), Len(op.operands) = 2
    PROVE  IsTyped(Assign(Now, op))
<1> DEFINE t == After(Now, op)
           v == Arguments(Now, op)
           y == v[1] % 256
<1>1. IsTyped(t) /\ v[1] \in Word16 /\ v[2] \in Word16
    BY AfterTyped DEF Executing
<1>2. y \in Byte /\ v[2] \in Int
    BY <1>1, LowBytes, WordsAreNumbers
<1>3. Assign(Now, op) = WriteVariable(t, y, v[2], TRUE)
    BY Zenon DEF Assign
<1> HIDE DEF t, v, y
<1> QED
    BY <1>1, <1>2, <1>3, WriteVariableTyped DEF Executing

LEMMA AccessTakes ==
    ASSUME NEW op, IsAccess(op), Len(op.operands) \in Takes(op)
    PROVE  /\ Is(op, "OP2", {15, 16}) => Len(op.operands) = 2
           /\ Is(op, "VAR", {1, 2}) => Len(op.operands) = 3
           /\ Len(op.operands) >= 2
<1>1. ASSUME Is(op, "OP2", {15, 16}) PROVE Takes(op) = {2}
  <2>1. op.count = "OP2" /\ op.number # 1
      BY <1>1 DEF Is
  <2> QED
      BY <2>1 DEF Takes
<1>2. ASSUME Is(op, "VAR", {1, 2}) PROVE Takes(op) = {3}
    BY <1>2 DEF Is, Takes
<1>3. /\ Is(op, "OP2", {15, 16}) => Len(op.operands) = 2
      /\ Is(op, "VAR", {1, 2}) => Len(op.operands) = 3
  <2>1. \A n : Takes(op) = {n} => Len(op.operands) = n
      OBVIOUS
  <2> QED
      BY <1>1, <1>2, <2>1
<1>4. Len(op.operands) = 2 \/ Len(op.operands) = 3
    BY <1>3 DEF IsAccess, Is
<1>5. \A n : n = 2 \/ n = 3 => n >= 2
    OBVIOUS
<1> QED
    BY <1>3, <1>4, <1>5, Zenon

LEMMA StepTyped ==
    ASSUME NEW op, Executing(op), IsStep(op), Len(op.operands) \in Takes(op)
    PROVE  IsTyped(Step(Now, op))
<1> DEFINE by == IF Is(op, "OP1", {5}) \/ Is(op, "OP2", {5}) THEN 1 ELSE -1
           first == [op EXCEPT !.operands = <<Head(@)>>]
           y == Arguments(Now, first)[1] % 256
           t == After(Now, first)
           new == Word(ReadVariable(t, y) + by)
           w == WriteVariable(t, y, new, TRUE)
           z == op.operands[2]
           limit == Signed(Value(w, z))
           result == IF by = 1 THEN Signed(new) > limit ELSE Signed(new) < limit
<1>1. /\ op.count = "OP1" => Len(op.operands) = 1
      /\ op.count # "OP1" => Len(op.operands) = 2
      /\ Len(op.operands) >= 1
    BY StepTakes DEF IsStep, Is
<1>2. Step(Now, op) = IF op.count = "OP1" THEN w ELSE HandleBranch(AfterValue(w, z), result)
    BY Zenon DEF Step
<1>3. IsReady(first) /\ Len(first.operands) = 1
    BY <1>1, FirstTyped DEF Executing
<1>4. by \in Int
    OBVIOUS
<1> HIDE DEF by, first, result
<1>5. IsTyped(t) /\ Arguments(Now, first)[1] \in Word16
    BY <1>3, AfterTyped DEF Executing
<1>6. y \in Byte
    BY <1>5, LowBytes
<1> HIDE DEF t, y
<1>7. ReadVariable(t, y) + by \in Int
  <2>1. ReadVariable(t, y) \in Word16
      BY <1>5, <1>6, ReadVariableTyped DEF Executing
  <2>2. ReadVariable(t, y) \in Int
      BY <2>1, WordsAreNumbers
  <2> QED
      BY <1>4, <2>2
<1>8. new \in Int
    BY <1>7, WordOf
<1> HIDE DEF new
<1>9. IsTyped(w)
    BY <1>5, <1>6, <1>8, WriteVariableTyped DEF Executing
<1> HIDE DEF w
<1>10. CASE op.count = "OP1"
    BY <1>2, <1>9, <1>10
<1>11. CASE op.count # "OP1"
  <2>1. IsOperand(z)
      BY <1>1, <1>11 DEF Executing, IsReady
  <2>2. IsTyped(AfterValue(w, z))
      BY <1>9, <2>1, OperandTyped DEF Executing
  <2> QED
      BY <1>2, <1>11, <2>2, HandleBranchTyped
<1> QED
    BY <1>10, <1>11

LEMMA AccessTyped ==
    ASSUME NEW op, Executing(op), IsAccess(op), Len(op.operands) \in Takes(op),
           LET a == Address(op, Arguments(Now, op))
           IN OfWord(op) => a \in DOMAIN memory /\ a + 1 \in DOMAIN memory
    PROVE  IsTyped(Access(Now, op))
<1> DEFINE t == After(Now, op)
           w == Access(Now, op)
           v == Arguments(Now, op)
           a == Address(op, v)
           D == DOMAIN story.memory
           word == WriteHalfWord(t.memory, a, v[3])
           byte == WriteZByte(t.memory, a, v[3])
<1>1. /\ IsTyped(t) /\ t.memory = memory /\ t.pc \in D
      /\ Len(v) = Len(op.operands) /\ \A k \in 1..Len(op.operands) : v[k] \in Word16
    BY AfterTyped DEF Executing
<1>2. w = CASE a \notin DOMAIN Now.memory -> [t EXCEPT !.halted = TRUE]
            [] a \in DOMAIN Now.memory /\ Is(op, "OP2", {15}) ->
                 Store(t, ReadHalfWord(Now.memory, a))
            [] a \in DOMAIN Now.memory /\ Is(op, "OP2", {16}) -> Store(t, Now.memory[a])
            [] a \in DOMAIN Now.memory /\ Is(op, "VAR", {1}) -> [t EXCEPT !.memory = word]
            [] a \in DOMAIN Now.memory /\ Is(op, "VAR", {2}) -> [t EXCEPT !.memory = byte]
    BY Zenon DEF Access
<1>3. Now.memory = memory /\ DOMAIN memory = D /\ memory \in [D -> Byte] /\ CodeStory
    BY NowTyped DEF Executing, WordsHold, Image
<1>4. OfWord(op) => a \in D /\ a + 1 \in D
    BY <1>3
<1>5. (Is(op, "VAR", {1, 2}) => Len(op.operands) = 3) /\ Len(op.operands) >= 2
    BY AccessTakes
<1>6. Len(op.operands) \in Nat
    BY OperandsOf DEF Executing, IsReady
<1>7. 1 \in 1..Len(op.operands) /\ 2 \in 1..Len(op.operands)
    BY <1>5, <1>6
<1>8. a \in Nat
  <2>1. v[1] \in Int /\ v[2] \in Int
      BY <1>1, <1>7, WordsAreNumbers
  <2>2. v[1] + 2 * v[2] \in Int /\ v[1] + v[2] \in Int
      BY <2>1
  <2> HIDE DEF v
  <2>3. Word(v[1] + 2 * v[2]) \in Nat /\ Word(v[1] + v[2]) \in Nat
      BY <2>2, WordOf
  <2>4. a = Word(v[1] + 2 * v[2]) \/ a = Word(v[1] + v[2])
      BY DEF Address
  <2> QED
      BY <2>3, <2>4
<1> HIDE DEF w, a, word, byte, t, v, D
<1>9. CASE a \notin D
  <2>1. w = [t EXCEPT !.halted = TRUE]
      BY <1>2, <1>3, <1>9
  <2> QED
      BY <1>1, <2>1, PlaceTyped DEF w
<1>10. CASE a \in D /\ Is(op, "OP2", {15})
  <2>1. w = Store(t, ReadHalfWord(memory, a))
      BY <1>2, <1>3, <1>10 DEF Is
  <2>2. ReadHalfWord(memory, a) \in Word16
      BY <1>3, <1>4, <1>10, HalfWordRead DEF OfWord
  <2>3. ReadHalfWord(memory, a) \in Int
      BY <2>2, WordsAreNumbers
  <2> QED
      BY <1>1, <1>3, <2>1, <2>3, StoreTyped DEF w, D
<1>11. CASE a \in D /\ Is(op, "OP2", {16})
  <2>1. w = Store(t, memory[a])
      BY <1>2, <1>3, <1>11 DEF Is
  <2>2. memory[a] \in Int
      BY <1>3, <1>11, BytesAreNumbers
  <2> QED
      BY <1>1, <1>3, <2>1, <2>2, StoreTyped DEF w, D
<1>12. CASE a \in D /\ Is(op, "VAR", {1, 2})
  <2>1. w = [t EXCEPT !.memory = word] \/ w = [t EXCEPT !.memory = byte]
      BY <1>2, <1>3, <1>12 DEF Is
  <2>2. v[3] \in Int
      BY <1>1, <1>5, <1>12, WordsAreNumbers DEF Is
  <2>3. word \in [D -> Byte]
      BY <1>1, <1>3, <1>8, <2>2, HalfWordWritten DEF word
  <2>4. byte \in [D -> Byte]
    <3>1. v[3] % 256 \in Byte
        BY <1>1, <1>5, <1>12, LowBytes DEF Is
    <3> QED
        BY <1>1, <1>3, <3>1 DEF byte, WriteZByte
  <2>5. \E m \in Image : w = [t EXCEPT !.memory = m]
      BY <2>1, <2>3, <2>4 DEF Image, D
  <2> QED
      BY <1>1, <2>5 DEF IsTyped, Fields, w
<1> QED
    BY <1>9, <1>10, <1>11, <1>12 DEF IsAccess, Is, w

LEMMA CallTyped ==
    ASSUME NEW op, Executing(op), IsCall(Now, op), Len(op.operands) \in Takes(op)
    PROVE  IsTyped(CallNothing(Now, op))
<1> DEFINE first == [op EXCEPT !.operands = <<Head(@)>>]
           t == After(Now, first)
<1>1. Len(op.operands) >= 1
    BY DEF IsCall, Is, Takes
<1>2. IsReady(first)
    BY <1>1, FirstTyped DEF Executing
<1>3. CallNothing(Now, op) = t \/ CallNothing(Now, op) = Store(t, 0)
    BY DEF CallNothing
<1> HIDE DEF first
<1>4. IsTyped(t) /\ t.pc \in DOMAIN story.memory
    BY <1>2, AfterTyped DEF Executing
<1> HIDE DEF t
<1> QED
    BY <1>3, <1>4, StoreTyped DEF Executing

-----------------------------------------------------------------------------
(* Results are exact, and everything stays words.                           *)

WordsInv == story.program = "code" => WordsHold

\* No instruction but the nine computes.
LEMMA OthersComputeNothing ==
    ASSUME NEW op,
           \/ IsNot(Now, op) \/ IsTest(op) \/ IsStep(op) \/ IsAccess(op) \/ IsCall(Now, op)
           \/ Is(op, "OP1", {12, 14}) \/ Is(op, "OP2", {13}) \/ Is(op, "VAR", {8, 9})
           \/ Is(op, "OP0", {2, 4, 9}) \/ Is(op, "EXT", {12})
    PROVE  ~IsBinary(op)
BY DEF IsNot, IsTest, IsStep, IsAccess, IsCall, IsBinary, Is

LEMMA BinaryTakes ==
    ASSUME NEW op, IsBinary(op), Len(op.operands) \in Takes(op)
    PROVE  Len(op.operands) = 2
<1>1. CASE op.count = "OP2"
  <2>1. op.number # 1
      BY <1>1 DEF IsBinary, Is
  <2>2. Takes(op) = {2}
      BY <1>1, <2>1 DEF Takes
  <2> QED
      BY <2>2
<1>2. CASE op.count = "EXT" /\ op.number \in {2, 3}
  <2>1. Takes(op) = {2}
      BY <1>2 DEF Takes
  <2> QED
      BY <2>1
<1> QED
    BY <1>1, <1>2 DEF IsBinary, Is

LEMMA ExecutesTyped ==
    ASSUME WordsHold, CodeStory, NEW w, NEW result, IsTyped(w), Executes(w, result)
    PROVE  WordsHold' /\ last'.args = Fetched /\ last'.result = result /\ halted' = w.halted
<1>1. /\ story' = story /\ memory' = w.memory /\ stack' = w.stack /\ locals' = w.locals
      /\ halted' = w.halted /\ streams' = streams
      /\ last' = [name |-> Fetched.count, args |-> Fetched, result |-> result]
    BY DEF Executes, Instruction, streamVars
<1>2. WordsHold'
    BY <1>1 DEF WordsHold, Image, IsTyped
<1> QED
    BY <1>1, <1>2

\* A ComputeOp is exact, and leaves words.
LEMMA ComputeIsExact ==
    ASSUME WordsHold, CodeStory, ComputeOp
    PROVE  WordsHold' /\ ArithmeticIsExact'
<1> DEFINE op == Fetched
           v == Arguments(Now, op)
           w == Compute(Now, op)
           x == Word(BinaryResult(op, v[1], v[2]))
           result == IF w.halted THEN v ELSE Append(v, x)
<1>1. Executes(w, result) /\ Running /\ IsBinary(op) /\ Len(op.operands) \in Takes(op)
    BY Zenon DEF ComputeOp, Running
<1>2. IsReady(op) /\ Len(op.operands) = 2
    BY <1>1, FetchedIsReady, BinaryTakes
<1> HIDE DEF op
<1>3. /\ IsTyped(w) /\ v \in Seq(Word16) /\ Len(v) = 2 /\ v[1] \in Word16 /\ v[2] \in Word16
      /\ ~w.halted => HasValue(op, v[2])
    BY <1>1, <1>2, ComputeTyped DEF Executing
<1> HIDE DEF w, v, x, result
<1>4. WordsHold' /\ last'.args = op /\ last'.result = result /\ halted' = w.halted
    BY <1>1, <1>3, ExecutesTyped DEF op
<1>5. ASSUME ~halted' PROVE Exact(op, last'.result[1], last'.result[2], last'.result[3])
  <2>1. Exact(op, v[1], v[2], x)
      BY <1>1, <1>3, <1>4, <1>5, BinaryIsExact DEF x
  <2>2. last'.result = Append(v, x)
      BY <1>4, <1>5 DEF result
  <2>3. x \in Word16
    <3>1. BinaryResult(op, v[1], v[2]) \in Int
        BY <1>1, <1>3, <1>4, <1>5, BinaryIsInteger
    <3> QED
        BY <3>1, WordOf DEF x
  <2>4. Append(v, x)[1] = v[1] /\ Append(v, x)[2] = v[2] /\ Append(v, x)[3] = x
    <3>1. /\ \A i \in 1..Len(v) : Append(v, x)[i] = v[i]
          /\ Append(v, x)[Len(v) + 1] = x
      <4>1. v \in Seq(Word16)
          BY <1>3
      <4> QED
          BY <2>3, <4>1, AppendProperties
    <3>2. Len(v) = 2
        BY <1>3
    <3>3. 1 \in 1..Len(v) /\ 2 \in 1..Len(v) /\ Len(v) + 1 = 3
        BY <3>2
    <3> QED
        BY <3>1, <3>3, Zenon
  <2> QED
      BY <2>1, <2>2, <2>4
<1> QED
    BY <1>4, <1>5 DEF ArithmeticIsExact

\* Every other instruction leaves words.
LEMMA LiteralTyped ==
    ASSUME WordsHold, LiteralOp
    PROVE  WordsHold' /\ last'.args = Fetched
<1>1. /\ story' = story /\ stack' = stack /\ locals' = locals
      /\ last' = [name |-> Fetched.count, args |-> Fetched, result |-> NoResult]
    BY DEF LiteralOp, Instruction
<1>2. \E text : Prints(text)
    BY DEF LiteralOp
<1>3. memory' = memory /\ streams' = streams
  <2>1. ~(Len(streams.MemoryStreamData) > 0)
      BY DEF WordsHold
  <2> QED
      BY <1>2, <2>1 DEF Prints
<1> QED
    BY <1>1, <1>3 DEF WordsHold, Image

LEMMA CodeIsExact ==
    ASSUME WordsHold, CodeStory, CodeNext
    PROVE  WordsHold' /\ ArithmeticIsExact'
<1> DEFINE op == Fetched
           Told == WordsHold' /\ ArithmeticIsExact'
<1>1. ASSUME NEW w, NEW result, IsTyped(w), Executes(w, result), ~IsBinary(op) PROVE Told
    BY <1>1, ExecutesTyped DEF ArithmeticIsExact
<1>2. ASSUME Running PROVE Executing(op)
    BY <1>2, FetchedIsReady DEF Executing
<1> HIDE DEF op
<1>3. CASE ComputeOp
    BY <1>3, ComputeIsExact
<1>4. CASE NotOp \/ LoadOp \/ PullOp \/ PushOp \/ CheckUnicodeOp
  <2>1. /\ Running /\ Len(op.operands) \in Takes(op)
        /\ \/ IsNot(Now, op) /\ Executes(Complement(Now, op), NoResult)
           \/ Is(op, "OP1", {14}) /\ Executes(Load(Now, op), NoResult)
           \/ Is(op, "VAR", {9}) /\ Executes(Pull(Now, op), NoResult)
           \/ Is(op, "VAR", {8}) /\ Executes(PushValue(Now, op), NoResult)
           \/ Is(op, "EXT", {12}) /\ Executes(CheckUnicode(Now, op), Arguments(Now, op))
      BY <1>4, Zenon DEF NotOp, LoadOp, PullOp, PushOp, CheckUnicodeOp, Running, op
  <2>2. Len(op.operands) = 1
    <3>1. Takes(op) = {1}
        BY <2>1 DEF Takes, Is, IsNot
    <3> QED
        BY <2>1, <3>1
  <2>3. ~IsBinary(op)
      BY <2>1, OthersComputeNothing DEF Is
  <2> QED
      BY <1>1, <1>2, <2>1, <2>2, <2>3, OneTyped
<1>5. CASE TestOp \/ JumpOp \/ NopOp \/ PopOp
  <2>1. /\ Running
        /\ \/ IsTest(op) /\ Executes(Test(Now, op), NoResult)
           \/ IsTest(op) /\ Executes([After(Now, op) EXCEPT !.halted = TRUE], NoResult)
           \/ Is(op, "OP1", {12}) /\ Executes(Jump(Now, op), NoResult)
           \/ Is(op, "OP0", {4}) /\ Executes(After(Now, op), NoResult)
           \/ Is(op, "OP0", {9}) /\ Executes(Discard(Now, op), NoResult)
      BY <1>5, Zenon DEF TestOp, JumpOp, NopOp, PopOp, op
  <2>2. ~IsBinary(op)
      BY <2>1, OthersComputeNothing DEF Is
  <2> QED
      BY <1>1, <1>2, <2>1, <2>2, PlainTyped
<1>6. CASE StepOp
  <2>1. /\ Running /\ IsStep(op) /\ Len(op.operands) \in Takes(op)
        /\ Executes(Step(Now, op), NoResult)
      BY <1>6, Zenon DEF StepOp, Running, op
  <2> QED
      BY <1>1, <1>2, <2>1, StepTyped, OthersComputeNothing
<1>7. CASE StoreOp
  <2>1. /\ Running /\ Is(op, "OP2", {13}) /\ Len(op.operands) \in Takes(op)
        /\ Executes(Assign(Now, op), NoResult)
      BY <1>7, Zenon DEF StoreOp, Running, op
  <2>2. Len(op.operands) = 2
    <3>1. Takes(op) = {2}
        BY <2>1 DEF Takes, Is
    <3> QED
        BY <2>1, <3>1
  <2> QED
      BY <1>1, <1>2, <2>1, <2>2, AssignTyped, OthersComputeNothing
<1>8. CASE AccessOp
  <2>1. /\ Running /\ IsAccess(op) /\ Len(op.operands) \in Takes(op)
        /\ LET a == Address(op, Arguments(Now, op))
           IN OfWord(op) => a \in DOMAIN memory /\ a + 1 \in DOMAIN memory
        /\ Executes(Access(Now, op), NoResult)
      BY <1>8, Zenon DEF AccessOp, Running, op
  <2>2. IsTyped(Access(Now, op)) /\ ~IsBinary(op)
      BY <1>2, <2>1, AccessTyped, OthersComputeNothing
  <2> QED
      BY <1>1, <2>1, <2>2
<1>9. CASE CallOp
  <2>1. /\ Running /\ IsCall(Now, op) /\ Len(op.operands) \in Takes(op)
        /\ Executes(CallNothing(Now, op), NoResult)
      BY <1>9, Zenon DEF CallOp, Running, op
  <2> QED
      BY <1>1, <1>2, <2>1, CallTyped, OthersComputeNothing
<1>10. CASE LiteralOp
  <2>1. Is(op, "OP0", {2})
      BY <1>10 DEF LiteralOp, op
  <2>2. WordsHold' /\ last'.args = op
      BY <1>10, LiteralTyped DEF op
  <2>3. ~IsBinary(op)
      BY <2>1, OthersComputeNothing DEF Is
  <2> QED
      BY <2>2, <2>3 DEF ArithmeticIsExact
<1> QED
    BY <1>3, <1>4, <1>5, <1>6, <1>7, <1>8, <1>9, <1>10, Zenon DEF CodeNext

LEMMA InitWords == Init => WordsInv /\ ArithmeticIsExact
<1> SUFFICES ASSUME Init PROVE WordsInv /\ ArithmeticIsExact
    OBVIOUS
<1>1. /\ story \in Stories /\ memory = story.memory
      /\ stack \in Initially("stacks", <<>>) /\ locals \in Initially("locals", <<>>)
      /\ streams.MemoryStreamData = <<>> /\ last.name = "NONE"
    BY DEF Init
<1>2. ArithmeticIsExact
    BY <1>1 DEF ArithmeticIsExact
<1>3. ASSUME story.program = "code" PROVE WordsHold
  <2>1. /\ stack = <<>> \/ stack \in story.stacks
        /\ locals = <<>> \/ locals \in story.locals
      BY <1>1 DEF Initially
  <2>2. <<>> \in Seq(Word16)
      BY EmptySeq
  <2>3. stack \in Seq(Word16) /\ locals \in Seq(Word16)
      BY <1>1, <1>3, <2>1, <2>2, CodeAssumption
  <2>4. memory \in Image
      BY <1>1, InstructionsAssumption DEF Image
  <2> QED
      BY <1>1, <2>3, <2>4 DEF WordsHold
<1> QED
    BY <1>2, <1>3 DEF WordsInv

LEMMA WordsInductive ==
    ASSUME StepsInv, WordsInv, ArithmeticIsExact, [Next]_vars
    PROVE  WordsInv' /\ ArithmeticIsExact'
<1>1. CASE Next /\ story.program = "code"
  <2>1. CodeNext /\ WordsHold /\ CodeStory
      BY <1>1, CodeStep, TextStep, ObjectsStep, TablesStep, SaveStep, StreamsStep
         DEF Next, Counted, WordsInv, StepsInv, CodeStory
  <2> QED
      BY <2>1, CodeIsExact DEF WordsInv
<1>2. CASE Next /\ story.program # "code"
  <2>1. story' = story
      BY <1>2, OneStep
  <2> QED
      BY <1>2, <2>1 DEF WordsInv, ArithmeticIsExact
<1>3. CASE UNCHANGED vars
  <2>1. /\ story' = story /\ stack' = stack /\ memory' = memory /\ locals' = locals
        /\ streams' = streams /\ last' = last /\ halted' = halted
      BY <1>3 DEF vars, machineVars, streamVars
  <2> QED
      BY <2>1 DEF WordsInv, WordsHold, Image, ArithmeticIsExact
<1> QED
    BY <1>1, <1>2, <1>3

\* What ADD, SUB, MUL, DIV, MOD, AND, OR and the shifts store is exact modulo 2^16, bit by
\* bit for AND and OR, unless the machine stops, of every program: for any memory, stack
\* and locals of words, and any order of instructions.
THEOREM ArithmeticIsAlwaysExact == Spec => []ArithmeticIsExact
<1> DEFINE Inv == StepsInv /\ WordsInv /\ ArithmeticIsExact
<1>1. Init => Inv
    BY InitHolds, InitWords
<1>2. Inv /\ [Next]_vars => Inv'
    BY StepsInductive, WordsInductive
<1> QED
    BY <1>1, <1>2, PTL DEF Spec

-----------------------------------------------------------------------------
(* Walks over the properties of an object.                                  *)

\* The walk from property to property: the first, and each from the one before.
Advance(m, h, a) == LET p == GetPropertyByAddress(m, h, a) IN a + p.header + p.length

IsWalk(at, m, h, o) ==
    /\ at[0] = FirstProperty(m, h, o)
    /\ \A k \in Nat \ {0} : at[k] = Advance(m, h, at[k - 1])

\* Walk, a recursive function, is what its definition says of it.
LEMMA WalkUnfolds ==
    ASSUME NEW m, NEW h, NEW o
    PROVE  IsWalk(Walk(m, h, o), m, h, o)
<1> DEFINE first == FirstProperty(m, h, o)
           More(a) == Advance(m, h, a)
           Whole(f) == f = [k \in Nat |-> IF k = 0 THEN first ELSE More(f[k - 1])]
           UpTo(f, n) == f = [k \in 0..n |-> IF k = 0 THEN first ELSE More(f[k - 1])]
           g == CHOOSE f : Whole(f)
           T == {n \in Nat : ~\E f : UpTo(f, n)}
           F(n) == CHOOSE f : UpTo(f, n)
           w == [n \in Nat |-> F(n)[n]]
<1>1. Walk(m, h, o) = g
    BY Zenon DEF Walk, Advance
<1> HIDE DEF first, More, g
<1>2. T = {}
  <2>1. SUFFICES ASSUME T # {} PROVE FALSE
      OBVIOUS
  <2>2. PICK k \in T : \A j \in T : k <= j
      BY <2>1, LeastElement
  <2>3. k \in Nat /\ ~\E f : UpTo(f, k)
      BY <2>2
  <2>4. CASE k = 0
    <3> DEFINE f == [i \in 0..0 |-> first]
    <3>1. \A i \in 0..0 : i = 0
        OBVIOUS
    <3>2. f = [i \in 0..0 |-> IF i = 0 THEN first ELSE More(f[i - 1])]
        BY <3>1
    <3> HIDE DEF f
    <3> QED
        BY <2>3, <2>4, <3>2
  <2>5. CASE k # 0
    <3>1. k - 1 \in Nat /\ ~(k <= k - 1)
        BY <2>3, <2>5
    <3>2. k - 1 \notin T
        BY <2>2, <3>1
    <3>3. PICK f : UpTo(f, k - 1)
        BY <3>1, <3>2
    <3> DEFINE e == [i \in 0..k |-> IF i = k THEN More(f[k - 1]) ELSE f[i]]
    <3>4. \A i \in 0..k : e[i] = IF i = 0 THEN first ELSE More(e[i - 1])
      <4> SUFFICES ASSUME NEW i \in 0..k
                   PROVE  e[i] = IF i = 0 THEN first ELSE More(e[i - 1])
          OBVIOUS
      <4>1. CASE i = k
        <5>1. k - 1 \in 0..k /\ k - 1 # k /\ k # 0
            BY <2>3, <2>5, <3>1
        <5>2. e[k - 1] = f[k - 1] /\ e[i] = More(f[k - 1])
            BY <4>1, <5>1
        <5> QED
            BY <4>1, <5>1, <5>2, Zenon
      <4>2. CASE i # k
        <5>1. i \in 0..(k - 1) /\ (i # 0 => i - 1 \in 0..k /\ i - 1 # k)
            BY <2>3, <3>1, <4>2
        <5>2. e[i] = f[i] /\ (i # 0 => e[i - 1] = f[i - 1])
            BY <4>2, <5>1
        <5>3. f[i] = IF i = 0 THEN first ELSE More(f[i - 1])
            BY <3>3, <5>1
        <5> QED
            BY <5>2, <5>3, Zenon
      <4> QED
          BY <4>1, <4>2
    <3>5. e = [i \in 0..k |-> e[i]]
        OBVIOUS
    <3> HIDE DEF e
    <3>6. UpTo(e, k)
        BY <3>4, <3>5, Zenon
    <3> QED
        BY <2>3, <3>6
  <2> QED
      BY <2>4, <2>5
<1>3. \A n \in Nat : UpTo(F(n), n)
  <2> SUFFICES ASSUME NEW n \in Nat PROVE UpTo(F(n), n)
      OBVIOUS
  <2>1. \E f : UpTo(f, n)
      BY <1>2
  <2> QED
      BY <2>1, Zenon
<1> HIDE DEF F
<1>4. \A n \in Nat : \A k \in 0..n : F(n)[k] = IF k = 0 THEN first ELSE More(F(n)[k - 1])
  <2> SUFFICES ASSUME NEW n \in Nat, NEW k \in 0..n
               PROVE  F(n)[k] = IF k = 0 THEN first ELSE More(F(n)[k - 1])
      OBVIOUS
  <2>1. F(n) = [i \in 0..n |-> IF i = 0 THEN first ELSE More(F(n)[i - 1])]
      BY <1>3
  <2> QED
      BY <2>1
<1>5. \A n \in Nat : F(n + 1)[n] = F(n)[n]
  <2> SUFFICES ASSUME NEW n \in Nat PROVE F(n + 1)[n] = F(n)[n]
      OBVIOUS
  <2> DEFINE D == {k \in 0..n : F(n + 1)[k] # F(n)[k]}
  <2>1. SUFFICES ASSUME D # {} PROVE FALSE
    <3>1. n \in 0..n
        OBVIOUS
    <3> QED
        BY <2>1, <3>1
  <2> HIDE DEF w
  <2>8. D \subseteq Nat
      OBVIOUS
  <2>2. PICK k \in D : \A j \in D : k <= j
      BY <2>1, <2>8, LeastElement
  <2>3. k \in 0..n /\ k \in 0..(n + 1) /\ n + 1 \in Nat /\ F(n + 1)[k] # F(n)[k]
      BY <2>2
  <2>4. /\ F(n)[k] = IF k = 0 THEN first ELSE More(F(n)[k - 1])
        /\ F(n + 1)[k] = IF k = 0 THEN first ELSE More(F(n + 1)[k - 1])
      BY <1>4, <2>3
  <2>5. k # 0
      BY <2>3, <2>4
  <2>6. k - 1 \in 0..n /\ ~(k <= k - 1)
      BY <2>3, <2>5
  <2>7. F(n + 1)[k - 1] = F(n)[k - 1]
      BY <2>2, <2>6
  <2> QED
      BY <2>3, <2>4, <2>5, <2>7
<1>6. \A k \in Nat : w[k] = IF k = 0 THEN first ELSE More(w[k - 1])
  <2> SUFFICES ASSUME NEW k \in Nat PROVE w[k] = IF k = 0 THEN first ELSE More(w[k - 1])
      OBVIOUS
  <2>1. k \in 0..k
      OBVIOUS
  <2>2. F(k)[k] = IF k = 0 THEN first ELSE More(F(k)[k - 1])
      BY <1>4, <2>1
  <2>3. CASE k = 0
      BY <2>2, <2>3
  <2>4. CASE k # 0
    <3>1. k - 1 \in Nat /\ (k - 1) + 1 = k
        BY <2>4
    <3>2. F(k)[k - 1] = F(k - 1)[k - 1]
        BY <1>5, <3>1
    <3> QED
        BY <2>2, <2>4, <3>1, <3>2
  <2> QED
      BY <2>3, <2>4
<1>7. w = [k \in Nat |-> w[k]]
    OBVIOUS
<1> HIDE DEF w
<1>8. Whole(w)
    BY <1>6, <1>7, Zenon
<1>9. Whole(g)
    BY <1>8, Zenon DEF g
<1>10. g[0] = first
    BY <1>9
<1>11. \A k \in Nat \ {0} : g[k] = More(g[k - 1])
    BY <1>9
<1> QED
    BY <1>1, <1>10, <1>11, Zenon DEF IsWalk, More, first

\* The data of a property are behind its one or two size bytes.
LEMMA PropertyIs ==
    ASSUME NEW m, NEW h, NEW a
    PROVE  /\ GetPropertyByAddress(m, h, a).dataAddress = a + GetPropertyByAddress(m, h, a).header
           /\ GetPropertyByAddress(m, h, a).header \in {1, 2}
BY DEF GetPropertyByAddress

\* What the property table of a layout holds where a property of the layout begins.
LEMMA PropertyOfList ==
    ASSUME NEW m, NEW h, NEW o, NEW properties \in Seq(Properties), Lists(m, h, o, properties),
           NEW i \in DOMAIN properties
    PROVE  LET a == Begins(m, h, o, properties, i)
               p == properties[i]
               found == GetPropertyByAddress(m, h, a)
           IN /\ m[a] # 0 /\ p \in Properties
              /\ found.id = p.id /\ found.length = p.length /\ found.header = p.header
              /\ found.address = a /\ found.dataAddress = p.data
              /\ p.data = a + p.header
              /\ p.header = 2 => m[p.data - 1] >= 128
              /\ \A j \in DOMAIN properties : properties[j].id = p.id => j = i
<1> DEFINE a == Begins(m, h, o, properties, i)
           p == properties[i]
           found == GetPropertyByAddress(m, h, a)
<1>1. /\ m[a] # 0
      /\ found = [id |-> p.id, length |-> p.length, header |-> p.header, address |-> a,
                  dataAddress |-> p.data]
      /\ p.header = 2 => m[p.data - 1] >= 128
      /\ \A j \in DOMAIN properties : properties[j].id = p.id => j = i
    BY Zenon DEF Lists
<1>2. found.dataAddress = a + found.header
    BY PropertyIs, Zenon
<1>3. p \in Properties
    OBVIOUS
<1> HIDE DEF a, p, found
<1>4. /\ found.id = p.id /\ found.length = p.length /\ found.header = p.header
      /\ found.address = a /\ found.dataAddress = p.data
    BY <1>1
<1>5. p.data = a + p.header
    BY <1>2, <1>4
<1> QED
    BY <1>1, <1>3, <1>4, <1>5, Zenon DEF a, p, found

\* After k properties a walk is at the property k + 1 of the layout.
LEMMA WalkOfList ==
    ASSUME NEW m, NEW h, NEW o, NEW properties \in Seq(Properties), Lists(m, h, o, properties),
           NEW k \in 0..Len(properties)
    PROVE  Walk(m, h, o)[k] = Begins(m, h, o, properties, k + 1)
<1> DEFINE at == Walk(m, h, o)
           b(i) == Begins(m, h, o, properties, i)
           n == Len(properties)
           D == {i \in 0..n : at[i] # b(i + 1)}
<1>1. IsWalk(at, m, h, o)
    BY WalkUnfolds
<1>2. at[0] = FirstProperty(m, h, o) /\ \A i \in Nat \ {0} : at[i] = Advance(m, h, at[i - 1])
    BY <1>1, Zenon DEF IsWalk
<1> HIDE DEF at
<1>3. n \in Nat /\ DOMAIN properties = 1..n
    OBVIOUS
<1>4. ASSUME D # {} PROVE FALSE
  <2>1. D \subseteq Nat
      OBVIOUS
  <2>2. PICK i \in D : \A j \in D : i <= j
      BY <1>4, <2>1, LeastElement
  <2>3. i \in 0..n /\ at[i] # b(i + 1)
      BY <2>2
  <2>4. i # 0
    <3>1. b(1) = FirstProperty(m, h, o)
        BY DEF Begins
    <3> QED
        BY <1>2, <2>3, <3>1
  <2>5. i - 1 \in 0..n /\ ~(i <= i - 1) /\ i \in Nat \ {0} /\ i \in 1..n /\ (i - 1) + 1 = i
      BY <2>3, <2>4
  <2>6. at[i - 1] = b(i)
      BY <2>2, <2>5
  <2>7. at[i] = Advance(m, h, b(i))
      BY <1>2, <2>5, <2>6
  <2> DEFINE p == properties[i]
  <2>8. /\ GetPropertyByAddress(m, h, b(i)).header = p.header
        /\ GetPropertyByAddress(m, h, b(i)).length = p.length
        /\ p.data = b(i) + p.header
    <3>1. i \in DOMAIN properties
        BY <1>3, <2>5
    <3> QED
        BY <3>1, PropertyOfList
  <2>9. at[i] = p.data + p.length
      BY <2>7, <2>8, Zenon DEF Advance
  <2>10. b(i + 1) = p.data + p.length
    <3>1. i + 1 # 1 /\ (i + 1) - 1 = i
        BY <2>5
    <3> QED
        BY <3>1 DEF Begins
  <2> QED
      BY <2>3, <2>9, <2>10
<1> QED
    BY <1>4 DEF at

\* GetProperty and SetProperty find a property of the layout where it begins, and another
\* one at the end of the table.
LEMMA PropertyAddressIs ==
    ASSUME NEW m, NEW h, NEW o, NEW properties \in Seq(Properties), Lists(m, h, o, properties),
           DOMAIN m \subseteq Nat, 0..Len(properties) \subseteq DOMAIN m, NEW id
    PROVE  LET a == PropertyAddress(m, h, o, id)
               b(i) == Begins(m, h, o, properties, i)
           IN /\ \A i \in DOMAIN properties : properties[i].id = id => a = b(i)
              /\ (\A i \in DOMAIN properties : properties[i].id # id) => a = b(Len(properties) + 1)
<1> DEFINE at == Walk(m, h, o)
           b(i) == Begins(m, h, o, properties, i)
           n == Len(properties)
           Stops(k) == m[at[k]] = 0 \/ GetPropertyByAddress(m, h, at[k]).id = id
           Ends(k) == (\A j \in 0..(k - 1) : ~Stops(j)) /\ Stops(k)
           c == CHOOSE k \in DOMAIN m : Ends(k)
<1>1. PropertyAddress(m, h, o, id) = at[c]
    BY Zenon DEF PropertyAddress
<1>2. n \in Nat /\ DOMAIN properties = 1..n
    OBVIOUS
<1>3. \A k \in 0..n : at[k] = b(k + 1)
    BY WalkOfList
<1>4. \A k \in 0..(n - 1) : Stops(k) <=> properties[k + 1].id = id
  <2> SUFFICES ASSUME NEW k \in 0..(n - 1)
               PROVE  Stops(k) <=> properties[k + 1].id = id
      OBVIOUS
  <2>1. k \in 0..n /\ k + 1 \in DOMAIN properties
      BY <1>2
  <2>2. at[k] = b(k + 1)
      BY <1>3, <2>1
  <2>3. /\ m[b(k + 1)] # 0
        /\ GetPropertyByAddress(m, h, b(k + 1)).id = properties[k + 1].id
      BY <2>1, PropertyOfList
  <2> QED
      BY <2>2, <2>3
<1>5. Stops(n)
  <2>1. n \in 0..n
      BY <1>2
  <2>2. at[n] = b(n + 1) /\ m[b(n + 1)] = 0
      BY <1>3, <2>1 DEF Lists
  <2> QED
      BY <2>2
<1> HIDE DEF at, b, n, Stops
<1>6. \A k \in 0..n : Ends(k) => c = k
  <2> SUFFICES ASSUME NEW k \in 0..n, Ends(k) PROVE c = k
      OBVIOUS
  <2>1. k \in DOMAIN m /\ k \in Nat
      BY <1>2 DEF n
  <2>2. c \in DOMAIN m /\ Ends(c)
      BY <2>1
  <2>3. c \in Nat
      BY <2>2
  <2> HIDE DEF c
  <2>4. ~(c < k)
    <3>1. ASSUME c < k PROVE FALSE
      <4>1. c \in 0..(k - 1)
          BY <2>1, <2>3, <3>1
      <4> QED
          BY <2>2, <4>1
    <3> QED
        BY <3>1
  <2>5. ~(k < c)
    <3>1. ASSUME k < c PROVE FALSE
      <4>1. k \in 0..(c - 1)
          BY <2>1, <2>3, <3>1
      <4> QED
          BY <2>2, <4>1
    <3> QED
        BY <3>1
  <2> QED
      BY <2>1, <2>3, <2>4, <2>5
<1> HIDE DEF c
<1>7. ASSUME NEW i \in DOMAIN properties, properties[i].id = id
      PROVE  PropertyAddress(m, h, o, id) = b(i)
  <2>1. i - 1 \in 0..n /\ i - 1 \in 0..(n - 1) /\ (i - 1) + 1 = i
      BY <1>2
  <2>2. Stops(i - 1)
      BY <1>4, <1>7, <2>1
  <2>3. \A j \in 0..((i - 1) - 1) : ~Stops(j)
    <3> SUFFICES ASSUME NEW j \in 0..((i - 1) - 1), Stops(j) PROVE FALSE
        OBVIOUS
    <3>1. j \in 0..(n - 1) /\ j + 1 \in DOMAIN properties /\ j + 1 # i
        BY <1>2
    <3>2. properties[j + 1].id = properties[i].id
        BY <1>4, <1>7, <3>1
    <3>3. j + 1 = i
        BY <3>1, <3>2, PropertyOfList
    <3> QED
        BY <3>1, <3>3
  <2>4. c = i - 1
      BY <1>6, <2>1, <2>2, <2>3
  <2>5. at[c] = b((i - 1) + 1)
      BY <1>3, <2>1, <2>4
  <2> QED
      BY <1>1, <2>1, <2>5
<1>8. ASSUME \A i \in DOMAIN properties : properties[i].id # id
      PROVE  PropertyAddress(m, h, o, id) = b(n + 1)
  <2>1. n \in 0..n /\ \A j \in 0..(n - 1) : j + 1 \in DOMAIN properties
      BY <1>2
  <2>2. Ends(n)
      BY <1>4, <1>5, <1>8, <2>1
  <2> QED
      BY <1>1, <1>3, <1>6, <2>1, <2>2
<1> QED
    BY <1>7, <1>8 DEF b, n

-----------------------------------------------------------------------------
(* Where the objects of a story are, and what no instruction is meant to    *)
(* write.                                                                   *)

\* A story with objects.
ObjectsStory == story \in Stories /\ story.program = "objects"

Objects == DOMAIN Layout
Table(o) == PropertyPointer(story.memory, header, o)
At(o, i) == Begins(story.memory, header, o, Layout[o], i)
End(o) == At(o, Len(Layout[o]) + 1)
AfterEntry(o) == ObjectBase(header, o) + EntryBytes(header)

\* The bytes of the attributes of an object, and those of the data of a property.
AttributesOf(o) == (ObjectBase(header, o))..(ObjectBase(header, o) + AttributeBytes(header) - 1)
DataOf(o, i) == (Layout[o][i].data)..(Layout[o][i].data + Layout[o][i].length - 1)

\* No instruction is meant to write there.
Free(a) == \A o \in Objects : /\ a \notin AttributesOf(o)
                              /\ \A i \in DOMAIN Layout[o] : a \notin DataOf(o, i)

\* What is assumed of the stories with objects.
LEMMA StoryOfObjects ==
    ASSUME ObjectsStory
    PROVE  /\ header.version \in 1..5 /\ header.objects \in Nat /\ Objects \subseteq Nat \ {0}
           /\ story.values \subseteq Word16 /\ story.attributes \subseteq Nat
           /\ story.ids \subseteq 1..MaxProperty(header)
           /\ story.memory \in Image /\ DOMAIN story.memory \subseteq Nat
           /\ \A o \in Objects :
                /\ Layout[o] \in Seq(Properties)
                /\ \A a \in {AfterEntry(o), Table(o), End(o)} : 0..a \subseteq DOMAIN story.memory
                /\ Lists(story.memory, header, o, Layout[o])
                /\ \A k \in 0..(AttributeBytes(header) - 1) : story.memory[ObjectBase(header, o) + k] = 0
                /\ \A q \in Objects : AfterEntry(q) <= Table(o)
                /\ \A q \in Objects \ {o} : End(o) < Table(q) \/ End(q) < Table(o)
<1>1. /\ header.version \in 1..5
      /\ story.memory \in Image /\ DOMAIN story.memory \subseteq Nat
    BY InstructionsAssumption DEF ObjectsStory, Image, header
<1> QED
    BY <1>1, ObjectsAssumption, Zenon
       DEF ObjectsStory, Image, header, Objects, Layout, Table, At, End, AfterEntry

\* The entries of two objects, and the defaults of the properties, are apart.
LEMMA EntriesAre ==
    ASSUME ObjectsStory, NEW o \in Objects
    PROVE  /\ ObjectBase(header, o) \in Nat
           /\ IF header.version >= 4
              THEN AttributeBytes(header) = 6 /\ EntryBytes(header) = 14 /\ MaxProperty(header) = 63
              ELSE AttributeBytes(header) = 4 /\ EntryBytes(header) = 9 /\ MaxProperty(header) = 31
           /\ header.objects + 2 * MaxProperty(header) <= ObjectBase(header, o)
           /\ \A q \in Objects : \/ q = o
                                 \/ AfterEntry(o) <= ObjectBase(header, q)
                                 \/ AfterEntry(q) <= ObjectBase(header, o)
<1>1. /\ header.version \in 1..5 /\ header.objects \in Nat /\ Objects \subseteq Nat \ {0}
    BY StoryOfObjects
<1> QED
    BY <1>1 DEF ObjectBase, AttributeBytes, EntryBytes, MaxProperty, AfterEntry

\* The property table of an object is in memory, behind all the entries.
LEMMA TableIs ==
    ASSUME ObjectsStory, NEW o \in Objects
    PROVE  /\ Table(o) \in Nat /\ At(o, 1) \in Nat /\ Table(o) < At(o, 1)
           /\ Table(o) \in DOMAIN story.memory
           /\ At(o, 1) = Table(o) + 1 + 2 * story.memory[Table(o)]
           /\ \A q \in Objects : AfterEntry(q) <= Table(o)
<1>1. /\ 0..AfterEntry(o) \subseteq DOMAIN story.memory
      /\ 0..Table(o) \subseteq DOMAIN story.memory /\ story.memory \in Image
      /\ \A q \in Objects : AfterEntry(q) <= Table(o)
    BY StoryOfObjects
<1> DEFINE a == ObjectBase(header, o) + IF header.version >= 4 THEN 12 ELSE 7
<1>2. a \in 0..AfterEntry(o) /\ a + 1 \in 0..AfterEntry(o) /\ AfterEntry(o) \in Nat
  <2>1. header.version \in Int /\ ObjectBase(header, o) \in Nat
      BY StoryOfObjects, EntriesAre
  <2>2. CASE header.version >= 4
    <3>1. EntryBytes(header) = 14
        BY <2>2, EntriesAre
    <3> QED
        BY <2>1, <2>2, <3>1 DEF AfterEntry
  <2>3. CASE ~(header.version >= 4)
    <3>1. EntryBytes(header) = 9
        BY <2>3, EntriesAre
    <3> QED
        BY <2>1, <2>3, <3>1 DEF AfterEntry
  <2> QED
      BY <2>2, <2>3
<1>3. Table(o) = 256 * story.memory[a] + story.memory[a + 1]
    BY Zenon DEF Table, PropertyPointer, ReadHalfWord
<1> HIDE DEF a
<1>4. story.memory[a] \in Byte /\ story.memory[a + 1] \in Byte
    BY <1>1, <1>2 DEF Image
<1>5. Table(o) \in Nat
  <2>1. story.memory[a] \in Nat /\ story.memory[a + 1] \in Nat
      BY <1>4, BytesAreNumbers
  <2> QED
      BY <1>3, <2>1
<1>6. Table(o) \in DOMAIN story.memory
    BY <1>1, <1>5
<1>7. story.memory[Table(o)] \in Byte
    BY <1>1, <1>6 DEF Image
<1>8. At(o, 1) = Table(o) + 1 + 2 * story.memory[Table(o)]
    BY DEF At, Begins, FirstProperty, Table
<1> QED
    BY <1>1, <1>5, <1>6, <1>7, <1>8 DEF Byte

\* A property begins with its size, its data follow, and then the next one.
LEMMA PropertyAt ==
    ASSUME ObjectsStory, NEW o \in Objects, NEW i \in DOMAIN Layout[o], At(o, i) \in Nat
    PROVE  LET p == Layout[o][i]
           IN /\ p \in Properties /\ p.data = At(o, i) + p.header
              /\ At(o, i + 1) = p.data + p.length /\ At(o, i + 1) \in Nat
              /\ At(o, i) < p.data /\ p.data < At(o, i + 1)
              /\ story.memory[At(o, i)] # 0
<1> DEFINE p == Layout[o][i]
<1>1. Layout[o] \in Seq(Properties) /\ Lists(story.memory, header, o, Layout[o])
    BY StoryOfObjects
<1>2. p \in Properties /\ p.data = At(o, i) + p.header /\ story.memory[At(o, i)] # 0
    BY <1>1, PropertyOfList DEF At
<1>3. i + 1 # 1 /\ (i + 1) - 1 = i
    BY <1>1
<1>4. At(o, i + 1) = p.data + p.length
    BY <1>3 DEF At, Begins
<1>5. p.header \in {1, 2} /\ p.length \in Nat \ {0}
    BY <1>2 DEF Properties
<1> HIDE DEF p
<1>6. p.data \in Nat /\ At(o, i) < p.data
    BY <1>2, <1>5
<1> QED
    BY <1>2, <1>4, <1>5, <1>6 DEF p

\* Properties begin one after the other.
LEMMA PropertiesFollow ==
    ASSUME ObjectsStory, NEW o \in Objects
    PROVE  LET n == Len(Layout[o])
           IN /\ n \in Nat /\ DOMAIN Layout[o] = 1..n
              /\ \A i \in 1..(n + 1) : At(o, i) \in Nat /\ i - 1 <= At(o, i) /\ Table(o) < At(o, i)
              /\ \A i, j \in 1..(n + 1) : i < j => At(o, i + 1) <= At(o, j)
<1> DEFINE n == Len(Layout[o])
<1>1. Layout[o] \in Seq(Properties)
    BY StoryOfObjects
<1>2. n \in Nat /\ DOMAIN Layout[o] = 1..n
    BY <1>1
<1> HIDE DEF n
<1> DEFINE Good(i) == At(o, i) \in Nat /\ i - 1 <= At(o, i) /\ Table(o) < At(o, i)
           D == {i \in 1..(n + 1) : ~Good(i)}
<1>3. \A i \in 1..(n + 1) : Good(i)
  <2>1. SUFFICES ASSUME D # {} PROVE FALSE
      OBVIOUS
  <2>2. D \subseteq Nat
      BY <1>2
  <2>3. PICK i \in D : \A j \in D : i <= j
      BY <2>1, <2>2, LeastElement
  <2>4. i \in 1..(n + 1) /\ ~Good(i)
      BY <2>3
  <2>5. i # 1
      BY <2>4, TableIs
  <2>6. i - 1 \in 1..n /\ i - 1 \in 1..(n + 1) /\ ~(i <= i - 1) /\ (i - 1) + 1 = i
      BY <1>2, <2>4, <2>5
  <2>7. Good(i - 1)
      BY <2>3, <2>6
  <2>8. At(o, i) \in Nat /\ At(o, i - 1) < At(o, i)
    <3>1. i - 1 \in DOMAIN Layout[o]
        BY <1>2, <2>6
    <3>2. /\ At(o, (i - 1) + 1) = Layout[o][i - 1].data + Layout[o][i - 1].length
          /\ At(o, (i - 1) + 1) \in Nat
          /\ At(o, i - 1) < Layout[o][i - 1].data /\ Layout[o][i - 1].data < At(o, (i - 1) + 1)
          /\ Layout[o][i - 1] \in Properties
        BY <2>7, <3>1, PropertyAt
    <3>3. Layout[o][i - 1].data \in Nat
        BY <3>2 DEF Properties
    <3> QED
        BY <2>6, <2>7, <3>2, <3>3
  <2> QED
      BY <2>4, <2>6, <2>7, <2>8, TableIs
<1>4. ASSUME NEW i \in 1..(n + 1), NEW j \in 1..(n + 1), i < j
      PROVE  At(o, i + 1) <= At(o, j)
  <2> DEFINE E == {k \in 1..(n + 1) : i < k /\ ~(At(o, i + 1) <= At(o, k))}
  <2>1. SUFFICES ASSUME E # {} PROVE FALSE
      BY <1>4
  <2>2. E \subseteq Nat
      BY <1>2
  <2>3. PICK k \in E : \A l \in E : k <= l
      BY <2>1, <2>2, LeastElement
  <2>4. k \in 1..(n + 1) /\ i < k /\ ~(At(o, i + 1) <= At(o, k)) /\ k \in Nat /\ i \in Nat
      BY <1>2, <2>3
  <2>5. At(o, k) \in Nat
      BY <1>3, <2>4
  <2>6. k # i + 1
      BY <2>4, <2>5
  <2>7. k - 1 \in 1..n /\ k - 1 \in 1..(n + 1) /\ i < k - 1 /\ ~(k <= k - 1) /\ (k - 1) + 1 = k
        /\ i + 1 \in 1..(n + 1)
      BY <1>2, <2>4, <2>6
  <2>8. At(o, i + 1) <= At(o, k - 1)
      BY <2>3, <2>7
  <2>9. At(o, k - 1) \in Nat /\ At(o, i + 1) \in Nat
      BY <1>3, <2>7
  <2>10. At(o, k - 1) < At(o, k)
      BY <1>2, <2>5, <2>7, <2>9, PropertyAt DEF Properties
  <2> QED
      BY <2>4, <2>5, <2>8, <2>9, <2>10
<1> QED
    BY <1>2, <1>3, <1>4 DEF n

\* The data of a property are in the table of its object.
LEMMA DataIs ==
    ASSUME ObjectsStory, NEW o \in Objects, NEW i \in DOMAIN Layout[o]
    PROVE  LET p == Layout[o][i]
           IN /\ p \in Properties /\ p.data \in Nat /\ p.length \in Nat \ {0} /\ p.header \in {1, 2}
              /\ p.data = At(o, i) + p.header /\ At(o, i) \in Nat
              /\ p.data + p.length = At(o, i + 1) /\ At(o, i + 1) \in Nat
              /\ Table(o) < At(o, i) /\ At(o, i + 1) <= End(o) /\ End(o) \in Nat
              /\ story.memory[At(o, i)] # 0
<1> DEFINE n == Len(Layout[o])
           p == Layout[o][i]
<1>1. n \in Nat /\ i \in 1..n /\ i \in 1..(n + 1) /\ n + 1 \in 1..(n + 1) /\ i < n + 1
    BY PropertiesFollow
<1>2. /\ At(o, i) \in Nat /\ Table(o) < At(o, i) /\ At(o, n + 1) \in Nat
      /\ At(o, i + 1) <= At(o, n + 1)
    BY <1>1, PropertiesFollow
<1>3. /\ p \in Properties /\ p.data = At(o, i) + p.header
      /\ At(o, i + 1) = p.data + p.length /\ At(o, i + 1) \in Nat
      /\ story.memory[At(o, i)] # 0
    BY <1>2, PropertyAt
<1>4. p.data \in Nat /\ p.length \in Nat \ {0} /\ p.header \in {1, 2}
    BY <1>3 DEF Properties
<1>5. End(o) = At(o, n + 1)
    BY DEF End
<1> QED
    BY <1>2, <1>3, <1>4, <1>5

\* A property table ends in memory, behind as many bytes as it has properties at least.
LEMMA EndIs ==
    ASSUME ObjectsStory, NEW o \in Objects
    PROVE  /\ End(o) \in Nat /\ Table(o) \in Nat /\ Table(o) < End(o)
           /\ 0..End(o) \subseteq DOMAIN story.memory
           /\ Len(Layout[o]) \in Nat /\ Len(Layout[o]) <= End(o)
<1> DEFINE n == Len(Layout[o])
<1>1. n \in Nat /\ n + 1 \in 1..(n + 1) /\ (n + 1) - 1 = n
    BY PropertiesFollow
<1>2. End(o) \in Nat /\ n <= End(o) /\ Table(o) < End(o)
    BY <1>1, PropertiesFollow DEF End
<1> QED
    BY <1>1, <1>2, TableIs, StoryOfObjects

\* What is before the data of all objects, and between the data of one, is free.
LEMMA FreeBefore ==
    ASSUME ObjectsStory, NEW a \in Nat,
           \A q \in Objects : a <= Table(q) /\ a \notin AttributesOf(q)
    PROVE  Free(a)
<1> SUFFICES ASSUME NEW q \in Objects, NEW i \in DOMAIN Layout[q], a \in DataOf(q, i)
             PROVE  FALSE
    BY Zenon DEF Free
<1>1. /\ Layout[q][i].data = At(q, i) + Layout[q][i].header /\ Layout[q][i].header \in {1, 2}
      /\ At(q, i) \in Nat /\ Table(q) < At(q, i) /\ Layout[q][i].length \in Nat
    BY DataIs
<1>2. a <= Table(q) /\ Table(q) \in Nat
    BY TableIs
<1> QED
    BY <1>1, <1>2 DEF DataOf

LEMMA FreeInTable ==
    ASSUME ObjectsStory, NEW o \in Objects, NEW a \in (Table(o))..(End(o)),
           \A i \in DOMAIN Layout[o] : a \notin DataOf(o, i)
    PROVE  Free(a)
<1>1. Table(o) \in Nat /\ End(o) \in Nat
    BY EndIs
<1> SUFFICES ASSUME NEW q \in Objects
             PROVE  /\ a \notin AttributesOf(q)
                    /\ \A i \in DOMAIN Layout[q] : a \notin DataOf(q, i)
    BY Zenon DEF Free
<1>2. a \notin AttributesOf(q)
  <2>1. /\ AfterEntry(q) <= Table(o) /\ ObjectBase(header, q) \in Nat
        /\ header.version \in 1..5
      BY TableIs, EntriesAre, StoryOfObjects
  <2>2. /\ AttributeBytes(header) \in Nat /\ EntryBytes(header) \in Nat
        /\ AttributeBytes(header) < EntryBytes(header)
      BY <2>1, EntriesAre
  <2> QED
      BY <1>1, <2>1, <2>2 DEF AttributesOf, AfterEntry
<1>3. ASSUME q # o, NEW i \in DOMAIN Layout[q], a \in DataOf(q, i) PROVE FALSE
  <2>1. End(o) < Table(q) \/ End(q) < Table(o)
      BY <1>3, StoryOfObjects
  <2>2. Table(q) \in Nat /\ End(q) \in Nat
      BY EndIs
  <2>3. /\ Layout[q][i].data = At(q, i) + Layout[q][i].header /\ Layout[q][i].header \in {1, 2}
        /\ At(q, i) \in Nat /\ Table(q) < At(q, i) /\ Layout[q][i].length \in Nat
        /\ Layout[q][i].data + Layout[q][i].length <= End(q)
      BY DataIs
  <2> QED
      BY <1>1, <1>3, <2>1, <2>2, <2>3 DEF DataOf
<1> QED
    BY <1>2, <1>3

\* The size bytes of a property are free,
LEMMA SizesAreFree ==
    ASSUME ObjectsStory, NEW o \in Objects, NEW i \in DOMAIN Layout[o],
           NEW a \in (At(o, i))..(Layout[o][i].data - 1)
    PROVE  Free(a) /\ a \in DOMAIN story.memory
<1> DEFINE n == Len(Layout[o])
           p == Layout[o][i]
<1>1. n \in Nat /\ DOMAIN Layout[o] = 1..n /\ i \in 1..n
    BY PropertiesFollow
<1>2. /\ p.data \in Nat /\ p.length \in Nat \ {0} /\ At(o, i) \in Nat
      /\ p.data + p.length = At(o, i + 1) /\ Table(o) < At(o, i) /\ At(o, i + 1) <= End(o)
    BY DataIs
<1>3. Table(o) \in Nat /\ End(o) \in Nat /\ 0..End(o) \subseteq DOMAIN story.memory
    BY EndIs
<1>4. a \in Nat /\ Table(o) < a /\ a < End(o)
    BY <1>2, <1>3
<1>5. ASSUME NEW j \in DOMAIN Layout[o], a \in DataOf(o, j) PROVE FALSE
  <2>1. /\ Layout[o][j].data \in Nat /\ Layout[o][j].length \in Nat \ {0}
        /\ Layout[o][j].data + Layout[o][j].length = At(o, j + 1)
        /\ Layout[o][j].data = At(o, j) + Layout[o][j].header /\ Layout[o][j].header \in {1, 2}
        /\ At(o, j) \in Nat /\ At(o, j + 1) \in Nat
      BY DataIs
  <2>2. j \in 1..(n + 1) /\ i \in 1..(n + 1) /\ j \in Nat /\ i \in Nat
      BY <1>1
  <2>3. CASE j < i
    <3>1. At(o, j + 1) <= At(o, i)
        BY <2>2, <2>3, PropertiesFollow
    <3> QED
        BY <1>2, <1>4, <1>5, <2>1, <3>1 DEF DataOf
  <2>4. CASE j = i
      BY <1>2, <1>4, <1>5, <2>4 DEF DataOf
  <2>5. CASE i < j
    <3>1. At(o, i + 1) <= At(o, j)
        BY <2>2, <2>5, PropertiesFollow
    <3> QED
        BY <1>2, <1>4, <1>5, <2>1, <3>1 DEF DataOf
  <2> QED
      BY <2>2, <2>3, <2>4, <2>5
<1> QED
    BY <1>3, <1>4, <1>5, FreeInTable

\* and so are the length of the name and the zero at the end of the table,
LEMMA EndsAreFree ==
    ASSUME ObjectsStory, NEW o \in Objects
    PROVE  Free(Table(o)) /\ Free(End(o))
<1>1. Table(o) \in Nat /\ End(o) \in Nat /\ Table(o) < End(o)
    BY EndIs
<1>2. ASSUME NEW i \in DOMAIN Layout[o]
      PROVE  Table(o) \notin DataOf(o, i) /\ End(o) \notin DataOf(o, i)
  <2>1. /\ Layout[o][i].data \in Nat /\ Layout[o][i].length \in Nat \ {0}
        /\ Layout[o][i].data + Layout[o][i].length <= End(o)
        /\ Layout[o][i].data = At(o, i) + Layout[o][i].header /\ Layout[o][i].header \in {1, 2}
        /\ At(o, i) \in Nat /\ Table(o) < At(o, i)
      BY DataIs
  <2> QED
      BY <1>1, <2>1 DEF DataOf
<1> QED
    BY <1>1, <1>2, FreeInTable

\* the links and the pointer of an entry,
LEMMA PointersAreFree ==
    ASSUME ObjectsStory, NEW o \in Objects, NEW k \in Nat,
           AttributeBytes(header) <= k, k < EntryBytes(header)
    PROVE  /\ Free(ObjectBase(header, o) + k)
           /\ ObjectBase(header, o) + k \in DOMAIN story.memory
<1>1. /\ header.version \in 1..5 /\ ObjectBase(header, o) \in Nat
      /\ AttributeBytes(header) \in Nat /\ EntryBytes(header) \in Nat
    BY StoryOfObjects, EntriesAre
<1> DEFINE a == ObjectBase(header, o) + k
<1>2. a \in Nat /\ a < AfterEntry(o) /\ AfterEntry(o) \in Nat
    BY <1>1 DEF AfterEntry
<1>3. ASSUME NEW q \in Objects PROVE a <= Table(q) /\ a \notin AttributesOf(q)
  <2>1. AfterEntry(o) <= Table(q) /\ Table(q) \in Nat /\ ObjectBase(header, q) \in Nat
      BY TableIs, EntriesAre
  <2>2. \/ q = o
        \/ AfterEntry(o) <= ObjectBase(header, q)
        \/ AfterEntry(q) <= ObjectBase(header, o)
      BY EntriesAre
  <2>3. AttributeBytes(header) <= EntryBytes(header)
      BY <1>1
  <2> QED
      BY <1>1, <1>2, <2>1, <2>2, <2>3 DEF AttributesOf, AfterEntry
<1>4. 0..AfterEntry(o) \subseteq DOMAIN story.memory
    BY StoryOfObjects
<1> QED
    BY <1>2, <1>3, <1>4, FreeBefore

\* and the defaults of the properties.
LEMMA DefaultsAreFree ==
    ASSUME ObjectsStory, NEW o \in Objects, NEW a \in Nat, a < header.objects + 2 * MaxProperty(header)
    PROVE  Free(a) /\ a \in DOMAIN story.memory
<1>1. header.objects \in Nat /\ MaxProperty(header) \in Nat
    BY StoryOfObjects, EntriesAre
<1>2. ASSUME NEW q \in Objects PROVE a <= Table(q) /\ a \notin AttributesOf(q)
  <2>1. /\ header.objects + 2 * MaxProperty(header) <= ObjectBase(header, q)
        /\ ObjectBase(header, q) \in Nat /\ AfterEntry(q) <= Table(q) /\ Table(q) \in Nat
        /\ EntryBytes(header) \in Nat /\ AttributeBytes(header) \in Nat
      BY EntriesAre, TableIs
  <2> QED
      BY <1>1, <2>1 DEF AttributesOf, AfterEntry
<1>3. a < Table(o) /\ 0..Table(o) \subseteq DOMAIN story.memory /\ Table(o) \in Nat
  <2>1. /\ header.objects + 2 * MaxProperty(header) <= ObjectBase(header, o)
        /\ ObjectBase(header, o) \in Nat /\ AfterEntry(o) <= Table(o) /\ Table(o) \in Nat
        /\ EntryBytes(header) \in Nat \ {0}
      BY EntriesAre, TableIs
  <2> QED
      BY <1>1, <2>1, StoryOfObjects DEF AfterEntry
<1> QED
    BY <1>2, <1>3, FreeBefore

-----------------------------------------------------------------------------
(* What is found in a memory that is as it was wherever nothing is written. *)

\* A memory that is what the story began with wherever no instruction is meant to write.
Agrees(m) ==
    /\ m \in Image
    /\ \A a \in DOMAIN story.memory : Free(a) => m[a] = story.memory[a]

\* Memories with the same size bytes have the same property.
LEMMA SameProperty ==
    ASSUME NEW m, NEW w, NEW h, NEW a, m[a] = w[a],
           GetPropertyByAddress(w, h, a).header = 2 => m[a + 1] = w[a + 1]
    PROVE  GetPropertyByAddress(m, h, a) = GetPropertyByAddress(w, h, a)
<1>1. CASE h.version <= 3
    BY <1>1 DEF GetPropertyByAddress
<1>2. CASE ~(h.version <= 3) /\ h.version >= 4 /\ w[a] >= 128
  <2>1. GetPropertyByAddress(w, h, a).header = 2
      BY <1>2 DEF GetPropertyByAddress
  <2> QED
      BY <1>2, <2>1 DEF GetPropertyByAddress
<1>3. CASE ~(h.version <= 3) /\ ~(h.version >= 4 /\ w[a] >= 128)
    BY <1>3 DEF GetPropertyByAddress
<1> QED
    BY <1>1, <1>2, <1>3

\* The property tables are those of the layout as long as nothing free is written.
LEMMA SameTable ==
    ASSUME ObjectsStory, NEW m, Agrees(m), NEW o \in Objects
    PROVE  /\ PropertyPointer(m, header, o) = Table(o)
           /\ m[Table(o)] = story.memory[Table(o)]
           /\ FirstProperty(m, header, o) = At(o, 1)
           /\ \A i : Begins(m, header, o, Layout[o], i) = At(o, i)
           /\ Lists(m, header, o, Layout[o])
<1> DEFINE w == story.memory
           properties == Layout[o]
<1>1. /\ header.version \in Int /\ ObjectBase(header, o) \in Nat
      /\ properties \in Seq(Properties) /\ Lists(w, header, o, properties)
    BY StoryOfObjects, EntriesAre
<1> DEFINE k == IF header.version >= 4 THEN 12 ELSE 7
           p == ObjectBase(header, o) + k
<1>2. m[p] = w[p] /\ m[p + 1] = w[p + 1]
  <2>1. /\ k \in Nat /\ k + 1 \in Nat
        /\ AttributeBytes(header) <= k /\ AttributeBytes(header) <= k + 1
        /\ k < EntryBytes(header) /\ k + 1 < EntryBytes(header)
      BY <1>1, EntriesAre
  <2>2. p + 1 = ObjectBase(header, o) + (k + 1)
      BY <1>1, <2>1
  <2> HIDE DEF k
  <2>3. Free(p) /\ p \in DOMAIN w
      BY <2>1, PointersAreFree
  <2>4. Free(p + 1) /\ p + 1 \in DOMAIN w
      BY <2>1, <2>2, PointersAreFree
  <2> QED
      BY <2>3, <2>4 DEF Agrees
<1>3. PropertyPointer(m, header, o) = Table(o)
  <2>1. /\ PropertyPointer(m, header, o) = 256 * m[p] + m[p + 1]
        /\ PropertyPointer(w, header, o) = 256 * w[p] + w[p + 1]
      BY Zenon DEF PropertyPointer, ReadHalfWord
  <2> HIDE DEF p
  <2> QED
      BY <1>2, <2>1 DEF Table
<1> HIDE DEF p, k
<1>4. m[Table(o)] = w[Table(o)] /\ m[End(o)] = w[End(o)]
  <2>1. Table(o) \in 0..End(o) /\ End(o) \in 0..End(o) /\ 0..End(o) \subseteq DOMAIN w
      BY EndIs
  <2> QED
      BY <2>1, EndsAreFree DEF Agrees
<1>5. FirstProperty(m, header, o) = At(o, 1)
  <2>1. /\ FirstProperty(m, header, o) = PropertyPointer(m, header, o) + 1 + 2 * m[PropertyPointer(m, header, o)]
        /\ FirstProperty(w, header, o) = PropertyPointer(w, header, o) + 1 + 2 * w[PropertyPointer(w, header, o)]
      BY Zenon DEF FirstProperty
  <2>2. At(o, 1) = FirstProperty(w, header, o)
      BY DEF At, Begins
  <2> QED
      BY <1>3, <1>4, <2>1, <2>2 DEF Table
<1>6. \A i : Begins(m, header, o, properties, i) = At(o, i)
  <2> TAKE i
  <2>1. CASE i = 1
      BY <1>5, <2>1 DEF Begins
  <2>2. CASE i # 1
      BY <2>2 DEF Begins, At
  <2> QED
      BY <2>1, <2>2
<1>7. ASSUME NEW i \in DOMAIN properties
      PROVE  /\ m[At(o, i)] # 0
             /\ GetPropertyByAddress(m, header, At(o, i)) = GetPropertyByAddress(w, header, At(o, i))
             /\ properties[i].header = 2 => m[properties[i].data - 1] >= 128
  <2>1. /\ GetPropertyByAddress(w, header, At(o, i)).header = properties[i].header
        /\ properties[i].header = 2 => w[properties[i].data - 1] >= 128
      BY <1>1, PropertyOfList DEF At
  <2>2. /\ properties[i].data = At(o, i) + properties[i].header /\ At(o, i) \in Nat
        /\ properties[i].header \in {1, 2} /\ w[At(o, i)] # 0
      BY DataIs
  <2>3. /\ At(o, i) \in (At(o, i))..(properties[i].data - 1)
        /\ properties[i].data - 1 \in (At(o, i))..(properties[i].data - 1)
      BY <2>2
  <2>4. m[At(o, i)] = w[At(o, i)] /\ m[properties[i].data - 1] = w[properties[i].data - 1]
      BY <2>3, SizesAreFree DEF Agrees
  <2>5. properties[i].header = 2 => m[At(o, i) + 1] = w[At(o, i) + 1]
    <3>1. properties[i].header = 2 => At(o, i) + 1 = properties[i].data - 1
        BY <2>2
    <3> QED
        BY <2>4, <3>1
  <2>6. GetPropertyByAddress(m, header, At(o, i)) = GetPropertyByAddress(w, header, At(o, i))
      BY <2>1, <2>4, <2>5, SameProperty
  <2> QED
      BY <2>1, <2>2, <2>4, <2>6
<1>8. /\ \A i \in DOMAIN properties :
           /\ GetPropertyByAddress(w, header, At(o, i))
                = [id |-> properties[i].id, length |-> properties[i].length,
                   header |-> properties[i].header, address |-> At(o, i),
                   dataAddress |-> properties[i].data]
           /\ \A j \in DOMAIN properties : properties[j].id = properties[i].id => j = i
      /\ w[End(o)] = 0
    BY <1>1, Zenon DEF Lists, At, End
<1>9. m[Begins(m, header, o, properties, Len(properties) + 1)] = 0
    BY <1>4, <1>6, <1>8, Zenon DEF End
<1>10. Lists(m, header, o, properties)
    BY <1>6, <1>7, <1>8, <1>9, Zenon DEF Lists
<1> QED
    BY <1>3, <1>4, <1>5, <1>6, <1>10

\* GET_PROP and PUT_PROP find each property of the layout, and the end for any other.
LEMMA AddressIs ==
    ASSUME ObjectsStory, NEW m, Agrees(m), NEW o \in Objects, NEW id
    PROVE  LET a == PropertyAddress(m, header, o, id)
           IN /\ \A i \in DOMAIN Layout[o] : Layout[o][i].id = id => a = At(o, i)
              /\ (\A i \in DOMAIN Layout[o] : Layout[o][i].id # id) => a = End(o)
<1>1. Layout[o] \in Seq(Properties) /\ DOMAIN story.memory \subseteq Nat
    BY StoryOfObjects
<1>2. DOMAIN m = DOMAIN story.memory
    BY DEF Agrees, Image
<1>3. 0..Len(Layout[o]) \subseteq DOMAIN m
  <2>1. /\ End(o) \in Nat /\ 0..End(o) \subseteq DOMAIN story.memory
        /\ Len(Layout[o]) \in Nat /\ Len(Layout[o]) <= End(o)
      BY EndIs
  <2> QED
      BY <1>2, <2>1
<1>4. Lists(m, header, o, Layout[o]) /\ \A i : Begins(m, header, o, Layout[o], i) = At(o, i)
    BY SameTable
<1> QED
    BY <1>1, <1>2, <1>3, <1>4, PropertyAddressIs DEF End

\* What is found at a property of the layout, and at the end of a table.
LEMMA FoundAt ==
    ASSUME ObjectsStory, NEW m, Agrees(m), NEW o \in Objects, NEW i \in DOMAIN Layout[o]
    PROVE  LET found == GetPropertyByAddress(m, header, At(o, i))
               p == Layout[o][i]
           IN /\ m[At(o, i)] # 0
              /\ found.id = p.id /\ found.length = p.length /\ found.header = p.header
              /\ found.address = At(o, i) /\ found.dataAddress = p.data
              /\ p.header = 2 => m[p.data - 1] >= 128
              /\ \A j \in DOMAIN Layout[o] : Layout[o][j].id = p.id => j = i
<1>1. Lists(m, header, o, Layout[o]) /\ Begins(m, header, o, Layout[o], i) = At(o, i)
      /\ Layout[o] \in Seq(Properties)
    BY SameTable, StoryOfObjects
<1> QED
    BY <1>1, PropertyOfList

LEMMA FoundAtEnd ==
    ASSUME ObjectsStory, NEW m, Agrees(m), NEW o \in Objects
    PROVE  m[End(o)] = 0 /\ GetPropertyByAddress(m, header, End(o)).id = 0
<1>1. Lists(m, header, o, Layout[o]) /\ Begins(m, header, o, Layout[o], Len(Layout[o]) + 1) = End(o)
    BY SameTable DEF End
<1>2. m[End(o)] = 0
    BY <1>1, Zenon DEF Lists
<1>3. 0 % 32 = 0 /\ 0 % 64 = 0
    OBVIOUS
<1> QED
    BY <1>2, <1>3, StoryOfObjects DEF GetPropertyByAddress

-----------------------------------------------------------------------------
(* Bits of a byte.                                                          *)

\* The values of the bits of a byte, and whether it has the one of value p.
BitValues == {1, 2, 4, 8, 16, 32, 64, 128}
BitOf(b, p) == (b \div p) % 2

\* A bit that is set in a byte leaves the others as they are; so does one that is cleared.
LEMMA BitIsSet ==
    ASSUME NEW b \in Byte, NEW p \in BitValues, BitOf(b, p) = 0
    PROVE  /\ b + p \in Byte /\ BitOf(b + p, p) = 1
           /\ \A q \in BitValues \ {p} : BitOf(b + p, q) = BitOf(b, q)
<1>1. b \in Nat /\ b < 256
    BY BytesAreNumbers
<1> DEFINE Good(x) == /\ b + x < 256 /\ BitOf(b + x, x) = 1
                      /\ \A q \in BitValues \ {x} : BitOf(b + x, q) = BitOf(b, q)
<1>2. p = 1 => Good(1)
    BY <1>1 DEF BitOf, BitValues
<1>3. p = 2 => Good(2)
    BY <1>1 DEF BitOf, BitValues
<1>4. p = 4 => Good(4)
    BY <1>1 DEF BitOf, BitValues
<1>5. p = 8 => Good(8)
    BY <1>1 DEF BitOf, BitValues
<1>6. p = 16 => Good(16)
    BY <1>1 DEF BitOf, BitValues
<1>7. p = 32 => Good(32)
    BY <1>1 DEF BitOf, BitValues
<1>8. p = 64 => Good(64)
    BY <1>1 DEF BitOf, BitValues
<1>9. p = 128 => Good(128)
    BY <1>1 DEF BitOf, BitValues
<1> HIDE DEF Good
<1>10. Good(p)
    BY <1>2, <1>3, <1>4, <1>5, <1>6, <1>7, <1>8, <1>9 DEF BitValues
<1>11. b + p \in Byte
    BY <1>1, <1>10, ByteIs DEF BitValues, Good
<1> QED
    BY <1>10, <1>11 DEF Good

LEMMA BitIsCleared ==
    ASSUME NEW b \in Byte, NEW p \in BitValues, BitOf(b, p) = 1
    PROVE  /\ b - p \in Byte /\ BitOf(b - p, p) = 0
           /\ \A q \in BitValues \ {p} : BitOf(b - p, q) = BitOf(b, q)
<1>1. b \in Nat /\ b < 256
    BY BytesAreNumbers
<1> DEFINE Good(x) == b >= x /\ BitOf(b - x, x) = 0
<1>2. p = 1 => Good(1)
    BY <1>1 DEF BitOf
<1>3. p = 2 => Good(2)
    BY <1>1 DEF BitOf
<1>4. p = 4 => Good(4)
    BY <1>1 DEF BitOf
<1>5. p = 8 => Good(8)
    BY <1>1 DEF BitOf
<1>6. p = 16 => Good(16)
    BY <1>1 DEF BitOf
<1>7. p = 32 => Good(32)
    BY <1>1 DEF BitOf
<1>8. p = 64 => Good(64)
    BY <1>1 DEF BitOf
<1>9. p = 128 => Good(128)
    BY <1>1 DEF BitOf
<1> HIDE DEF Good
<1>10. Good(p)
    BY <1>2, <1>3, <1>4, <1>5, <1>6, <1>7, <1>8, <1>9 DEF BitValues
<1>11. b - p \in Byte /\ (b - p) + p = b
    BY <1>1, <1>10, ByteIs DEF BitValues, Good
<1>12. \A q \in BitValues \ {p} : BitOf((b - p) + p, q) = BitOf(b - p, q)
    BY <1>10, <1>11, BitIsSet DEF Good
<1> QED
    BY <1>10, <1>11, <1>12 DEF Good

\* Each attribute has one of the eight bits of its byte, and no other has it.
LEMMA BitIs ==
    ASSUME NEW n \in Nat
    PROVE  /\ Bit(n) \in BitValues
           /\ \A b : HasBit(b, n) <=> BitOf(b, Bit(n)) = 1
           /\ \A k \in Nat : k % 8 # n % 8 => Bit(k) # Bit(n)
           /\ \A k \in Nat : k % 8 = n % 8 => Bit(k) = Bit(n)
<1>1. /\ 2^0 = 1 /\ 2^1 = 2 /\ 2^2 = 4 /\ 2^3 = 8 /\ 2^4 = 16 /\ 2^5 = 32 /\ 2^6 = 64 /\ 2^7 = 128
    OBVIOUS
<1>2. \A k \in Nat : k % 8 \in 0..7
    OBVIOUS
<1>3. \A r \in 0..7 : r = 0 \/ r = 1 \/ r = 2 \/ r = 3 \/ r = 4 \/ r = 5 \/ r = 6 \/ r = 7
    OBVIOUS
<1>10. /\ 7 - 0 = 7 /\ 7 - 1 = 6 /\ 7 - 2 = 5 /\ 7 - 3 = 4 /\ 7 - 4 = 3 /\ 7 - 5 = 2
       /\ 7 - 6 = 1 /\ 7 - 7 = 0
    OBVIOUS
<1> DEFINE P(r) == 2^(7 - r)
<1>11. /\ P(0) = 128 /\ P(1) = 64 /\ P(2) = 32 /\ P(3) = 16
       /\ P(4) = 8 /\ P(5) = 4 /\ P(6) = 2 /\ P(7) = 1
    BY <1>1, <1>10, Zenon
<1>4. \A k \in Nat : Bit(k) = P(k % 8)
    BY Zenon DEF Bit
<1> HIDE DEF P
<1>5. /\ \A r \in 0..7 : P(r) \in BitValues
      /\ \A r, s \in 0..7 : r # s => P(r) # P(s)
    BY <1>3, <1>11 DEF BitValues
<1>6. \A b : HasBit(b, n) <=> BitOf(b, Bit(n)) = 1
    BY Zenon DEF HasBit, BitOf
<1>7. Bit(n) \in BitValues
    BY <1>2, <1>4, <1>5, Zenon
<1>8. \A k \in Nat : k % 8 # n % 8 => Bit(k) # Bit(n)
    BY <1>2, <1>4, <1>5, Zenon
<1>9. \A k \in Nat : k % 8 = n % 8 => Bit(k) = Bit(n)
    BY <1>4, Zenon
<1> QED
    BY <1>6, <1>7, <1>8, <1>9

\* The byte SetAttribute leaves has the bit it is told to have, and the others as before.
LEMMA BitChanged ==
    ASSUME NEW b \in Byte, NEW n \in Nat, NEW on \in BOOLEAN
    PROVE  LET had == HasBit(b, n)
               c == IF had = on THEN b ELSE IF on THEN b + Bit(n) ELSE b - Bit(n)
           IN /\ c \in Byte /\ (HasBit(c, n) <=> on)
              /\ \A k \in Nat : k % 8 # n % 8 => (HasBit(c, k) <=> HasBit(b, k))
<1> DEFINE had == HasBit(b, n)
           c == IF had = on THEN b ELSE IF on THEN b + Bit(n) ELSE b - Bit(n)
           Good(x) == /\ x \in Byte /\ (HasBit(x, n) <=> on)
                      /\ \A k \in Nat : k % 8 # n % 8 => (HasBit(x, k) <=> HasBit(b, k))
<1>1. /\ Bit(n) \in BitValues
      /\ \A x : HasBit(x, n) <=> BitOf(x, Bit(n)) = 1
      /\ \A k \in Nat : k % 8 # n % 8 => Bit(k) \in BitValues \ {Bit(n)}
      /\ \A k \in Nat : \A x : HasBit(x, k) <=> BitOf(x, Bit(k)) = 1
    BY BitIs
<1>2. had \in BOOLEAN /\ BitOf(b, Bit(n)) \in {0, 1}
  <2>1. had \in BOOLEAN
      BY DEF HasBit
  <2>2. b \div Bit(n) \in Int
      BY <1>1, BytesAreNumbers DEF BitValues
  <2> QED
      BY <2>1, <2>2 DEF BitOf
<1>3. ASSUME had = on PROVE Good(c)
    BY <1>3
<1>4. ASSUME ~had, on PROVE Good(c)
  <2>1. c = b + Bit(n) /\ BitOf(b, Bit(n)) = 0
      BY <1>1, <1>2, <1>4
  <2>2. /\ c \in Byte /\ BitOf(c, Bit(n)) = 1
        /\ \A q \in BitValues \ {Bit(n)} : BitOf(c, q) = BitOf(b, q)
      BY <1>1, <2>1, BitIsSet
  <2> HIDE DEF c
  <2> QED
      BY <1>1, <1>4, <2>2
<1>5. ASSUME had, ~on PROVE Good(c)
  <2>1. c = b - Bit(n) /\ BitOf(b, Bit(n)) = 1
      BY <1>1, <1>2, <1>5
  <2>2. /\ c \in Byte /\ BitOf(c, Bit(n)) = 0
        /\ \A q \in BitValues \ {Bit(n)} : BitOf(c, q) = BitOf(b, q)
      BY <1>1, <2>1, BitIsCleared
  <2> HIDE DEF c
  <2> QED
      BY <1>1, <1>5, <2>2
<1>6. Good(c)
    BY <1>2, <1>3, <1>4, <1>5
<1> QED
    BY <1>6

-----------------------------------------------------------------------------
(* What is promised about objects, and where it is.                         *)

Promised == [attributes : [Objects -> SUBSET Nat], data : [Objects -> Seq(Seq(Byte))]]

KeepsData(m, d, p) == Len(d) = p.length /\ \A k \in 1..p.length : m[p.data + k - 1] = d[k]
KeepsAttributes(m, attributes) ==
    \A o \in Objects : \A n \in 0..(8 * AttributeBytes(header) - 1) :
        TestAttribute(m, header, o, n) = (n \in attributes[o])

\* Nothing free is written, and every promise is in its place.
Keeps(m, p) ==
    /\ Agrees(m) /\ p \in Promised
    /\ KeepsAttributes(m, p.attributes)
    /\ \A o \in Objects :
         /\ Len(p.data[o]) = Len(Layout[o])
         /\ \A i \in DOMAIN Layout[o] : KeepsData(m, p.data[o][i], Layout[o][i])

\* TEST_ATTR tests a bit of the attributes of its object.
LEMMA TestIs ==
    ASSUME ObjectsStory, NEW o \in Objects, NEW n \in 0..(8 * AttributeBytes(header) - 1), NEW m
    PROVE  /\ TestAttribute(m, header, o, n) = HasBit(m[ObjectBase(header, o) + n \div 8], n)
           /\ ObjectBase(header, o) + n \div 8 \in AttributesOf(o)
           /\ n \div 8 \in Nat /\ n \in Nat
<1>1. AttributeBytes(header) \in {4, 6} /\ ObjectBase(header, o) \in Nat
    BY EntriesAre
<1>2. n \in Nat /\ n < 48 /\ n < 8 * AttributeBytes(header)
    BY <1>1
<1>3. n \div 8 \in Nat /\ n \div 8 < AttributeBytes(header)
    BY <1>1, <1>2
<1>4. TestAttribute(m, header, o, n) = HasBit(m[ObjectBase(header, o) + n \div 8], n)
    BY <1>2 DEF TestAttribute
<1> QED
    BY <1>1, <1>2, <1>3, <1>4 DEF AttributesOf

\* The attributes of an object are apart from those of others and from all data,
LEMMA AttributesApart ==
    ASSUME ObjectsStory, NEW o \in Objects, NEW a \in AttributesOf(o)
    PROVE  /\ a \in DOMAIN story.memory
           /\ \A q \in Objects \ {o} : a \notin AttributesOf(q)
           /\ \A q \in Objects : \A i \in DOMAIN Layout[q] : a \notin DataOf(q, i)
<1>1. /\ ObjectBase(header, o) \in Nat /\ AttributeBytes(header) \in Nat
      /\ EntryBytes(header) \in Nat /\ AttributeBytes(header) < EntryBytes(header)
    BY EntriesAre, StoryOfObjects
<1>2. a \in Nat /\ ObjectBase(header, o) <= a /\ a < AfterEntry(o) /\ AfterEntry(o) \in Nat
    BY <1>1 DEF AttributesOf, AfterEntry
<1>3. a \in DOMAIN story.memory
  <2>1. 0..AfterEntry(o) \subseteq DOMAIN story.memory
      BY StoryOfObjects
  <2> QED
      BY <1>2, <2>1
<1>4. ASSUME NEW q \in Objects \ {o} PROVE a \notin AttributesOf(q)
  <2>1. /\ ObjectBase(header, q) \in Nat
        /\ \/ AfterEntry(o) <= ObjectBase(header, q)
           \/ AfterEntry(q) <= ObjectBase(header, o)
      BY EntriesAre
  <2> QED
      BY <1>1, <1>2, <2>1 DEF AttributesOf, AfterEntry
<1>5. ASSUME NEW q \in Objects, NEW i \in DOMAIN Layout[q] PROVE a \notin DataOf(q, i)
  <2>1. AfterEntry(o) <= Table(q) /\ Table(q) \in Nat
      BY TableIs
  <2>2. /\ Layout[q][i].data = At(q, i) + Layout[q][i].header /\ Layout[q][i].header \in {1, 2}
        /\ At(q, i) \in Nat /\ Table(q) < At(q, i) /\ Layout[q][i].length \in Nat
      BY DataIs
  <2> QED
      BY <1>2, <2>1, <2>2 DEF DataOf
<1> QED
    BY <1>3, <1>4, <1>5

\* and the data of a property from those of others.
LEMMA DataApart ==
    ASSUME ObjectsStory, NEW o \in Objects, NEW i \in DOMAIN Layout[o], NEW a \in DataOf(o, i)
    PROVE  /\ a \in DOMAIN story.memory
           /\ \A q \in Objects : a \notin AttributesOf(q)
           /\ \A q \in Objects : \A j \in DOMAIN Layout[q] : a \in DataOf(q, j) => q = o /\ j = i
<1>1. /\ Layout[o][i].data = At(o, i) + Layout[o][i].header /\ Layout[o][i].header \in {1, 2}
      /\ At(o, i) \in Nat /\ Table(o) < At(o, i) /\ Layout[o][i].length \in Nat
      /\ Layout[o][i].data + Layout[o][i].length = At(o, i + 1) /\ At(o, i + 1) <= End(o)
      /\ At(o, i + 1) \in Nat
    BY DataIs
<1>2. /\ End(o) \in Nat /\ Table(o) \in Nat /\ 0..End(o) \subseteq DOMAIN story.memory
      /\ Len(Layout[o]) \in Nat /\ DOMAIN Layout[o] = 1..Len(Layout[o])
    BY EndIs, PropertiesFollow
<1>3. a \in Nat /\ Table(o) < a /\ a < End(o) /\ At(o, i) < a /\ a < At(o, i + 1)
  <2>1. Layout[o][i].data \in Nat
      BY <1>1
  <2>2. a \in Nat /\ Layout[o][i].data <= a /\ a < Layout[o][i].data + Layout[o][i].length
      BY <1>1, <2>1 DEF DataOf
  <2>3. At(o, i) < Layout[o][i].data
      BY <1>1, <2>1
  <2>4. a < At(o, i + 1)
      BY <1>1, <2>1, <2>2
  <2>5. At(o, i) < a
      BY <1>1, <2>1, <2>2, <2>3
  <2> QED
      BY <1>1, <1>2, <2>2, <2>4, <2>5
<1>4. a \in DOMAIN story.memory
    BY <1>2, <1>3
<1>5. ASSUME NEW q \in Objects PROVE a \notin AttributesOf(q)
    BY AttributesApart
<1>6. ASSUME NEW q \in Objects, NEW j \in DOMAIN Layout[q], a \in DataOf(q, j)
      PROVE  q = o /\ j = i
  <2>1. /\ Layout[q][j].data = At(q, j) + Layout[q][j].header /\ Layout[q][j].header \in {1, 2}
        /\ At(q, j) \in Nat /\ Table(q) < At(q, j) /\ Layout[q][j].length \in Nat
        /\ Layout[q][j].data + Layout[q][j].length = At(q, j + 1) /\ At(q, j + 1) <= End(q)
        /\ At(q, j + 1) \in Nat /\ End(q) \in Nat /\ Table(q) \in Nat
      BY DataIs, EndIs
  <2>2. Table(q) < a /\ a < End(q) /\ At(q, j) < a /\ a < At(q, j + 1)
      BY <1>6, <2>1 DEF DataOf
  <2>3. q = o
    <3>1. ASSUME q # o PROVE End(o) < Table(q) \/ End(q) < Table(o)
        BY <3>1, StoryOfObjects
    <3> QED
        BY <1>2, <1>3, <2>1, <2>2, <3>1
  <2>4. i \in 1..(Len(Layout[o]) + 1) /\ j \in 1..(Len(Layout[o]) + 1) /\ i \in Nat /\ j \in Nat
      BY <1>2, <2>3
  <2>5. ~(i < j)
    <3>1. i < j => At(o, i + 1) <= At(o, j)
        BY <2>4, PropertiesFollow
    <3> QED
        BY <1>1, <1>3, <2>1, <2>2, <2>3, <3>1
  <2>6. ~(j < i)
    <3>1. j < i => At(o, j + 1) <= At(o, i)
        BY <2>4, PropertiesFollow
    <3> QED
        BY <1>1, <1>3, <2>1, <2>2, <2>3, <3>1
  <2> QED
      BY <2>3, <2>4, <2>5, <2>6
<1> QED
    BY <1>4, <1>5, <1>6

-----------------------------------------------------------------------------
(* PUT_PROP.                                                                *)

\* No property of one or two bytes has two size bytes.
ShortPropertiesHaveOneSizeByte ==
    \A o \in Objects : \A i \in DOMAIN Layout[o] :
        Layout[o][i].length <= 2 => Layout[o][i].header = 1

\* What is promised of a property is as many bytes as it has.
LEMMA KeptBytes ==
    ASSUME ObjectsStory, NEW m, NEW p, Keeps(m, p), NEW o \in Objects, NEW i \in DOMAIN Layout[o]
    PROVE  /\ m \in Image /\ DOMAIN m = DOMAIN story.memory
           /\ p.data[o][i] \in Seq(Byte) /\ Len(p.data[o][i]) = Layout[o][i].length
           /\ p.data[o] \in Seq(Seq(Byte)) /\ DOMAIN p.data[o] = DOMAIN Layout[o]
<1>1. /\ m \in Image /\ p \in Promised /\ Len(p.data[o]) = Len(Layout[o])
      /\ Len(p.data[o][i]) = Layout[o][i].length
    BY DEF Keeps, KeepsData, Agrees
<1>2. p.data \in [Objects -> Seq(Seq(Byte))]
    BY <1>1 DEF Promised
<1>3. p.data[o] \in Seq(Seq(Byte))
    BY <1>2
<1>4. DOMAIN Layout[o] = 1..Len(Layout[o])
    BY PropertiesFollow
<1>5. DOMAIN p.data[o] = DOMAIN Layout[o]
    BY <1>1, <1>3, <1>4
<1> QED
    BY <1>1, <1>3, <1>4, <1>5 DEF Image

\* A write into one property leaves the other promises as they are.
LEMMA WriteKeeps ==
    ASSUME ObjectsStory, NEW m, NEW p, Keeps(m, p), NEW o \in Objects, NEW i \in DOMAIN Layout[o],
           NEW w \in Image,
           \A a \in DOMAIN story.memory : a \notin DataOf(o, i) => w[a] = m[a],
           NEW q \in Promised, q.attributes = p.attributes,
           \A x \in Objects : Len(q.data[x]) = Len(p.data[x]),
           \A x \in Objects : \A j \in DOMAIN Layout[x] :
               x # o \/ j # i => q.data[x][j] = p.data[x][j],
           KeepsData(w, q.data[o][i], Layout[o][i])
    PROVE  Keeps(w, q)
<1>1. Agrees(w)
  <2> SUFFICES ASSUME NEW a \in DOMAIN story.memory, Free(a) PROVE w[a] = story.memory[a]
      BY DEF Agrees
  <2>1. a \notin DataOf(o, i)
      BY DEF Free
  <2>2. w[a] = m[a] /\ m[a] = story.memory[a]
      BY <2>1 DEF Keeps, Agrees
  <2> QED
      BY <2>2
<1>2. KeepsAttributes(w, q.attributes)
  <2> SUFFICES ASSUME NEW x \in Objects, NEW n \in 0..(8 * AttributeBytes(header) - 1)
               PROVE  TestAttribute(w, header, x, n) = (n \in q.attributes[x])
      BY Zenon DEF KeepsAttributes
  <2> DEFINE a == ObjectBase(header, x) + n \div 8
  <2>1. /\ TestAttribute(w, header, x, n) = HasBit(w[a], n)
        /\ TestAttribute(m, header, x, n) = HasBit(m[a], n)
        /\ a \in AttributesOf(x)
      BY TestIs
  <2> HIDE DEF a
  <2>2. a \in DOMAIN story.memory /\ a \notin DataOf(o, i)
      BY <2>1, AttributesApart
  <2>3. w[a] = m[a]
      BY <2>2
  <2>4. TestAttribute(m, header, x, n) = (n \in p.attributes[x])
      BY Zenon DEF Keeps, KeepsAttributes
  <2>5. TestAttribute(w, header, x, n) = TestAttribute(m, header, x, n)
      BY <2>1, <2>3, Zenon
  <2> QED
      BY <2>4, <2>5, Zenon
<1>3. ASSUME NEW x \in Objects
      PROVE  /\ Len(q.data[x]) = Len(Layout[x])
             /\ \A j \in DOMAIN Layout[x] : KeepsData(w, q.data[x][j], Layout[x][j])
  <2>1. Len(q.data[x]) = Len(Layout[x])
      BY DEF Keeps
  <2>2. ASSUME NEW j \in DOMAIN Layout[x], x # o \/ j # i
        PROVE  KeepsData(w, q.data[x][j], Layout[x][j])
    <3>1. q.data[x][j] = p.data[x][j] /\ KeepsData(m, p.data[x][j], Layout[x][j])
        BY <2>2 DEF Keeps
    <3>2. Layout[x][j].length \in Nat /\ Layout[x][j].data \in Nat
        BY DataIs
    <3>3. ASSUME NEW k \in 1..(Layout[x][j].length)
          PROVE  w[Layout[x][j].data + k - 1] = m[Layout[x][j].data + k - 1]
      <4>1. Layout[x][j].data + k - 1 \in DataOf(x, j)
          BY <3>2 DEF DataOf
      <4>2. /\ Layout[x][j].data + k - 1 \in DOMAIN story.memory
            /\ Layout[x][j].data + k - 1 \notin DataOf(o, i)
          BY <2>2, <4>1, DataApart
      <4> QED
          BY <4>2
    <3> QED
        BY <3>1, <3>3 DEF KeepsData
  <2> QED
      BY <2>1, <2>2
<1> QED
    BY <1>1, <1>2, <1>3, Zenon DEF Keeps

\* What PUT_PROP promises has the length of the property.
LEMMA PutDataIs ==
    ASSUME NEW old \in Seq(Byte), NEW value \in Word16
    PROVE  PutData(old, value) \in Seq(Byte) /\ Len(PutData(old, value)) = Len(old)
<1>1. /\ value % 256 \in Byte /\ value \div 256 \in Byte
  <2>1. value \in Nat /\ value < 65536
      BY WordsAreNumbers
  <2>2. value % 256 \in Nat /\ value % 256 < 256 /\ value \div 256 \in Nat /\ value \div 256 < 256
      BY <2>1
  <2> QED
      BY <2>2, ByteIs
<1>2. CASE Len(old) = 1
    BY <1>1, <1>2 DEF PutData
<1>3. CASE Len(old) = 2
    BY <1>1, <1>3 DEF PutData
<1>4. CASE Len(old) # 1 /\ Len(old) # 2
    BY <1>4 DEF PutData
<1> QED
    BY <1>2, <1>3, <1>4

\* The property found first is written, if it is of one or two bytes.
LEMMA SetPropertyIs ==
    ASSUME ObjectsStory, NEW m, Agrees(m), NEW o \in Objects, NEW i \in DOMAIN Layout[o],
           Layout[o][i].length <= 2 => Layout[o][i].header = 1, NEW value
    PROVE  SetProperty(m, header, o, Layout[o][i].id, value)
             = IF Layout[o][i].length = 1 THEN WriteZByte(m, Layout[o][i].data, value)
               ELSE IF Layout[o][i].length = 2 THEN WriteHalfWord(m, Layout[o][i].data, value)
               ELSE m
<1> DEFINE p == Layout[o][i]
           a == PropertyAddress(m, header, o, p.id)
<1>1. a = At(o, i)
    BY AddressIs
<1>2. m[At(o, i)] # 0 /\ GetPropertyByAddress(m, header, At(o, i)).length = p.length
    BY FoundAt
<1>3. p.data = At(o, i) + p.header /\ p.length \in Nat \ {0}
    BY DataIs
<1>4. p.length \in {1, 2} => At(o, i) + 1 = p.data
    BY <1>3
<1> HIDE DEF p, a
<1>5. SetProperty(m, header, o, p.id, value)
        = CASE m[a] # 0 /\ GetPropertyByAddress(m, header, a).length = 1 -> WriteZByte(m, a + 1, value)
            [] m[a] # 0 /\ GetPropertyByAddress(m, header, a).length = 2 -> WriteHalfWord(m, a + 1, value)
            [] OTHER -> m
    BY Zenon DEF SetProperty, a
<1> QED
    BY <1>1, <1>2, <1>3, <1>4, <1>5 DEF p

\* PUT_PROP of a property that the object lacks changes nothing.
LEMMA NothingToSet ==
    ASSUME ObjectsStory, NEW m, Agrees(m), NEW o \in Objects, NEW id, NEW value,
           \A i \in DOMAIN Layout[o] : Layout[o][i].id # id
    PROVE  SetProperty(m, header, o, id, value) = m
<1>1. PropertyAddress(m, header, o, id) = End(o)
    BY AddressIs
<1>2. m[End(o)] = 0
    BY FoundAtEnd
<1> QED
    BY <1>1, <1>2 DEF SetProperty

\* The inductive invariant.
ObjectsInv ==
    story.program = "objects" /\ ShortPropertiesHaveOneSizeByte => Keeps(memory, promise)

\* The layout is the story's: no step changes it.
LEMMA StepKeepsLayout ==
    ASSUME story' = story
    PROVE  /\ header' = header /\ Layout' = Layout /\ ObjectsStory' = ObjectsStory
           /\ ShortPropertiesHaveOneSizeByte' = ShortPropertiesHaveOneSizeByte
           /\ Keeps(memory, promise)' = Keeps(memory', promise')
BY DEF ObjectsStory, ShortPropertiesHaveOneSizeByte, Keeps, Agrees, Promised, KeepsAttributes,
       KeepsData, Image, Free, Objects, AttributesOf, DataOf, Layout, header

\* q is p, but for the data that a PUT_PROP changes.
IsPut(p, q, o, places, value) ==
    /\ q \in Promised /\ q.attributes = p.attributes
    /\ \A x \in Objects : Len(q.data[x]) = Len(p.data[x])
    /\ \A x \in Objects : \A j \in DOMAIN Layout[x] :
         q.data[x][j] = IF x = o /\ j \in places THEN PutData(p.data[x][j], value)
                        ELSE p.data[x][j]

\* What PutProp does to the promises.
LEMMA DataOfPut ==
    ASSUME ObjectsStory, NEW m, NEW p, Keeps(m, p), NEW o \in Objects, NEW places, NEW value \in Word16,
           NEW q, q = [p EXCEPT !.data =
                         [p.data EXCEPT ![o] =
                            [i \in DOMAIN p.data[o] |->
                               IF i \in places THEN PutData(p.data[o][i], value)
                               ELSE p.data[o][i]]]]
    PROVE  IsPut(p, q, o, places, value)
<1> DEFINE old == p.data[o]
           new == [i \in DOMAIN old |-> IF i \in places THEN PutData(old[i], value) ELSE old[i]]
<1>1. /\ p.attributes \in [Objects -> SUBSET Nat] /\ p.data \in [Objects -> Seq(Seq(Byte))]
      /\ p = [attributes |-> p.attributes, data |-> p.data]
    BY DEF Keeps, Promised
<1>2. old \in Seq(Seq(Byte))
    BY <1>1
<1>3. new \in Seq(Seq(Byte)) /\ Len(new) = Len(old)
  <2>1. \A i \in DOMAIN old : PutData(old[i], value) \in Seq(Byte)
      BY <1>2, PutDataIs
  <2> HIDE DEF old
  <2>2. DOMAIN old = 1..Len(old) /\ Len(old) \in Nat /\ \A i \in DOMAIN old : old[i] \in Seq(Byte)
      BY <1>2
  <2>3. new \in [1..Len(old) -> Seq(Byte)]
      BY <2>1, <2>2
  <2> HIDE DEF new
  <2> QED
      BY <2>2, <2>3
<1>4. q = [attributes |-> p.attributes, data |-> [p.data EXCEPT ![o] = new]]
    BY <1>1
<1>5. q.attributes = p.attributes /\ q.data = [p.data EXCEPT ![o] = new]
    BY <1>4
<1> HIDE DEF new
<1>6. q.data \in [Objects -> Seq(Seq(Byte))]
    BY <1>1, <1>3, <1>5
<1>7. q \in Promised
    BY <1>1, <1>4, <1>5, <1>6 DEF Promised
<1>8. ASSUME NEW x \in Objects
      PROVE  /\ Len(q.data[x]) = Len(p.data[x])
             /\ \A j \in DOMAIN Layout[x] :
                  q.data[x][j] = IF x = o /\ j \in places THEN PutData(p.data[x][j], value)
                                        ELSE p.data[x][j]
  <2>1. CASE x # o
      BY <1>1, <1>5, <2>1
  <2>2. CASE x = o
    <3>1. q.data[x] = new
        BY <1>1, <1>5, <2>2
    <3>2. DOMAIN Layout[x] = DOMAIN old
        BY <2>2, KeptBytes, PropertiesFollow DEF Keeps
    <3>3. \A j \in DOMAIN old : new[j] = IF j \in places THEN PutData(old[j], value) ELSE old[j]
        BY DEF new
    <3> QED
        BY <1>3, <2>2, <3>1, <3>2, <3>3
  <2> QED
      BY <2>1, <2>2
<1> QED
    BY <1>5, <1>7, <1>8 DEF IsPut

\* PUT_PROP keeps every promise, on its object and on all others.
LEMMA PutKeeps ==
    ASSUME ObjectsStory, ShortPropertiesHaveOneSizeByte, Keeps(memory, promise), NEW o \in Objects,
           NEW id \in story.ids, NEW value \in story.values, PutProp(o, id, value)
    PROVE  Keeps(memory', promise')
<1> DEFINE places == {i \in DOMAIN Layout[o] : Layout[o][i].id = id}
           misplaced == \E i \in places : Layout[o][i].header = 2 /\ Layout[o][i].length <= 2
<1>1. value \in Word16
    BY StoryOfObjects
<1>2. \A i \in DOMAIN Layout[o] : Layout[o][i].length <= 2 => Layout[o][i].header = 1
    BY DEF ShortPropertiesHaveOneSizeByte
<1>3. ~misplaced
    BY <1>2
<1>4. /\ memory' = SetProperty(memory, header, o, id, value)
      /\ promise' = [promise EXCEPT !.data[o] =
                       [i \in DOMAIN @ |-> IF misplaced THEN <<>>
                                           ELSE IF i \in places THEN PutData(@[i], value)
                                           ELSE @[i]]]
    BY Zenon DEF PutProp, Writes
<1> HIDE DEF misplaced, places
<1>5. promise' = [promise EXCEPT !.data[o] =
                    [i \in DOMAIN @ |-> IF i \in places THEN PutData(@[i], value) ELSE @[i]]]
    BY <1>3, <1>4
<1>6. /\ promise' \in Promised /\ promise'.attributes = promise.attributes
      /\ \A x \in Objects : Len(promise'.data[x]) = Len(promise.data[x])
      /\ \A x \in Objects : \A j \in DOMAIN Layout[x] :
           promise'.data[x][j] = IF x = o /\ j \in places THEN PutData(promise.data[x][j], value)
                                 ELSE promise.data[x][j]
  <2>1. PICK S : S = places
      OBVIOUS
  <2>2. promise' = [promise EXCEPT !.data =
                      [promise.data EXCEPT ![o] =
                         [i \in DOMAIN promise.data[o] |->
                            IF i \in S THEN PutData(promise.data[o][i], value)
                            ELSE promise.data[o][i]]]]
      BY <1>5, <2>1
  <2>3. IsPut(promise, promise', o, S, value)
      BY <1>1, <2>2, DataOfPut
  <2> QED
      BY <2>1, <2>3, Zenon DEF IsPut
<1>7. Agrees(memory) /\ memory \in Image
    BY DEF Keeps, Agrees
<1>8. CASE places = {}
  <2>1. memory' = memory
      BY <1>4, <1>7, <1>8, NothingToSet DEF places
  <2> QED
      BY <1>6, <1>8, <2>1 DEF Keeps
<1>9. ASSUME NEW i \in DOMAIN Layout[o], Layout[o][i].id = id
      PROVE  Keeps(memory', promise')
  <2> DEFINE p == Layout[o][i]
             d == promise.data[o][i]
             e == promise'.data[o][i]
  <2>1. \A j \in DOMAIN Layout[o] : j \in places <=> j = i
    <3>1. \A j \in DOMAIN Layout[o] : Layout[o][j].id = p.id => j = i
        BY <1>7, FoundAt
    <3> QED
        BY <1>9, <3>1 DEF places
  <2>2. \A x \in Objects : \A j \in DOMAIN Layout[x] :
           x # o \/ j # i => promise'.data[x][j] = promise.data[x][j]
      BY <1>6, <2>1
  <2>3. e = PutData(d, value) /\ d \in Seq(Byte) /\ Len(d) = p.length
      BY <1>6, <2>1, KeptBytes
  <2>4. memory' = IF p.length = 1 THEN WriteZByte(memory, p.data, value)
                  ELSE IF p.length = 2 THEN WriteHalfWord(memory, p.data, value)
                  ELSE memory
      BY <1>2, <1>4, <1>7, <1>9, SetPropertyIs
  <2>5. p.data \in Nat /\ p.length \in Nat \ {0}
      BY DataIs
  <2>6. \A k \in 1..(p.length) : p.data + k - 1 \in DataOf(o, i) /\ p.data + k - 1 \in DOMAIN story.memory
    <3>1. \A k \in 1..(p.length) : p.data + k - 1 \in DataOf(o, i)
        BY <2>5 DEF DataOf
    <3> QED
        BY <3>1, DataApart
  <2>7. KeepsData(memory, d, p)
      BY DEF Keeps
  <2>8. value \in Nat /\ value < 65536
      BY <1>1, WordsAreNumbers
  <2>9. /\ memory' \in Image
        /\ \A a \in DOMAIN story.memory : a \notin DataOf(o, i) => memory'[a] = memory[a]
        /\ KeepsData(memory', e, p)
    <3> HIDE DEF p, d, e
    <3>1. CASE p.length = 1
      <4>1. e = <<value % 256>> /\ value % 256 \in Byte
        <5>1. value % 256 \in Nat /\ value % 256 < 256
            BY <2>8
        <5> QED
            BY <2>3, <3>1, <5>1, ByteIs DEF PutData
      <4>2. memory' = [memory EXCEPT ![p.data] = value % 256]
          BY <2>4, <3>1 DEF WriteZByte
      <4>3. p.data \in DataOf(o, i) /\ p.data \in DOMAIN story.memory
          BY <2>5, <2>6, <3>1
      <4>4. memory' \in Image
          BY <1>7, <4>1, <4>2 DEF Image
      <4>5. \A a \in DOMAIN story.memory : a \notin DataOf(o, i) => memory'[a] = memory[a]
          BY <1>7, <4>2, <4>3 DEF Image
      <4>6. memory'[p.data] = e[1] /\ Len(e) = 1
          BY <1>7, <4>1, <4>2, <4>3 DEF Image
      <4>7. KeepsData(memory', e, p)
          BY <2>5, <3>1, <4>6 DEF KeepsData
      <4> QED
          BY <4>4, <4>5, <4>7
    <3>2. CASE p.length = 2
      <4>1. e = <<value \div 256, value % 256>>
          BY <2>3, <3>2 DEF PutData
      <4>2. /\ p.data \in DataOf(o, i) /\ p.data \in DOMAIN story.memory
            /\ p.data + 1 \in DataOf(o, i) /\ p.data + 1 \in DOMAIN story.memory
        <5>1. /\ 1 \in 1..(p.length) /\ 2 \in 1..(p.length)
              /\ p.data + 1 - 1 = p.data /\ p.data + 2 - 1 = p.data + 1
            BY <2>5, <3>2
        <5>2. /\ p.data + 1 - 1 \in DataOf(o, i) /\ p.data + 1 - 1 \in DOMAIN story.memory
              /\ p.data + 2 - 1 \in DataOf(o, i) /\ p.data + 2 - 1 \in DOMAIN story.memory
            BY <2>6, <5>1
        <5> QED
            BY <5>1, <5>2
      <4>3. (value \div 256) % 256 = value \div 256 /\ value \div 256 \in Byte /\ value % 256 \in Byte
        <5>1. /\ value \div 256 \in Nat /\ value \div 256 < 256 /\ value % 256 \in Nat
              /\ value % 256 < 256
            BY <2>8
        <5>2. (value \div 256) % 256 = value \div 256
            BY <5>1, SmallRemainder
        <5> QED
            BY <5>1, <5>2, ByteIs
      <4>4. memory' = [memory EXCEPT ![p.data] = value \div 256, ![p.data + 1] = value % 256]
        <5>1. memory' = WriteHalfWord(memory, p.data, value)
            BY <2>4, <3>2
        <5>2. memory' = [memory EXCEPT ![p.data] = (value \div 256) % 256, ![p.data + 1] = value % 256]
            BY <5>1, Zenon DEF WriteHalfWord
        <5> QED
            BY <4>3, <5>2, Zenon
      <4>5. memory' \in Image
          BY <1>7, <4>3, <4>4 DEF Image
      <4>6. \A a \in DOMAIN story.memory : a \notin DataOf(o, i) => memory'[a] = memory[a]
          BY <1>7, <4>2, <4>4 DEF Image
      <4>7. p.data # p.data + 1
          BY <2>5
      <4>8. memory'[p.data] = e[1] /\ memory'[p.data + 1] = e[2] /\ Len(e) = 2
          BY <1>7, <4>1, <4>2, <4>4, <4>7 DEF Image
      <4>9. KeepsData(memory', e, p)
        <5>1. \A k \in 1..2 : \/ (k = 1 /\ p.data + k - 1 = p.data)
                            \/ (k = 2 /\ p.data + k - 1 = p.data + 1)
            BY <2>5
        <5> QED
            BY <3>2, <4>8, <5>1 DEF KeepsData
      <4> QED
          BY <4>5, <4>6, <4>9
    <3>3. CASE p.length # 1 /\ p.length # 2
      <4>1. memory' = memory /\ e = d
          BY <2>3, <2>4, <3>3 DEF PutData
      <4> QED
          BY <1>7, <2>7, <4>1
    <3> QED
        BY <3>1, <3>2, <3>3
  <2> QED
      BY <1>6, <2>2, <2>9, WriteKeeps
<1> QED
    BY <1>8, <1>9 DEF places

-----------------------------------------------------------------------------
(* SET_ATTR and CLEAR_ATTR.                                                 *)

\* SET_ATTR and CLEAR_ATTR keep every promise, and other bits of the same byte.
LEMMA AttributeKeeps ==
    ASSUME ObjectsStory, Keeps(memory, promise), NEW o \in Objects,
           NEW n \in story.attributes, NEW on \in BOOLEAN, ChangeAttribute(o, n, on)
    PROVE  Keeps(memory', promise')
<1> DEFINE a == ObjectBase(header, o) + n \div 8
           had == HasBit(memory[a], n)
           c == IF had = on THEN memory[a] ELSE IF on THEN memory[a] + Bit(n) ELSE memory[a] - Bit(n)
           set == IF on THEN promise.attributes[o] \cup {n} ELSE promise.attributes[o] \ {n}
<1>1. n \in Nat /\ AttributeBytes(header) \in {4, 6} /\ ObjectBase(header, o) \in Nat
    BY StoryOfObjects, EntriesAre
<1>2. /\ Agrees(memory) /\ memory \in Image /\ promise \in Promised
      /\ promise.attributes \in [Objects -> SUBSET Nat] /\ promise.data \in [Objects -> Seq(Seq(Byte))]
      /\ promise = [attributes |-> promise.attributes, data |-> promise.data]
    BY DEF Keeps, Agrees, Promised
<1>3. /\ memory' = IF n >= 8 * AttributeBytes(header) THEN memory ELSE [memory EXCEPT ![a] = c]
      /\ promise' = [promise EXCEPT !.attributes = [promise.attributes EXCEPT ![o] = set]]
    BY <1>2 DEF ChangeAttribute, Writes, SetAttribute
<1>4. /\ promise'.attributes = [promise.attributes EXCEPT ![o] = set]
      /\ promise'.data = promise.data
      /\ promise' = [attributes |-> [promise.attributes EXCEPT ![o] = set], data |-> promise.data]
    BY <1>2, <1>3
<1>5. set \in SUBSET Nat /\ (n \in set <=> on)
      /\ \A k : k # n => (k \in set <=> k \in promise.attributes[o])
    BY <1>1, <1>2
<1> HIDE DEF set
<1>6. promise' \in Promised
    BY <1>2, <1>4, <1>5 DEF Promised
<1>7. ASSUME NEW x \in Objects, NEW k \in 0..(8 * AttributeBytes(header) - 1)
      PROVE  k \in promise'.attributes[x] <=> IF x = o /\ k = n THEN on ELSE k \in promise.attributes[x]
    BY <1>2, <1>4, <1>5
<1> HIDE DEF c, a
<1>8. CASE n >= 8 * AttributeBytes(header)
  <2>1. memory' = memory
      BY <1>3, <1>8
  <2>2. KeepsAttributes(memory', promise'.attributes)
    <3>1. \A k \in 0..(8 * AttributeBytes(header) - 1) : k # n
        BY <1>1, <1>8
    <3> SUFFICES ASSUME NEW x \in Objects, NEW k \in 0..(8 * AttributeBytes(header) - 1)
                 PROVE  TestAttribute(memory', header, x, k) = (k \in promise'.attributes[x])
        BY Zenon DEF KeepsAttributes
    <3>2. TestAttribute(memory, header, x, k) = (k \in promise.attributes[x])
        BY Zenon DEF Keeps, KeepsAttributes
    <3>3. (k \in promise'.attributes[x]) = (k \in promise.attributes[x])
      <4>1. k \in promise'.attributes[x] <=> k \in promise.attributes[x]
          BY <1>7, <3>1
      <4> QED
          BY <4>1
    <3> QED
        BY <2>1, <3>2, <3>3, Zenon
  <2> QED
      BY <1>4, <1>6, <2>1, <2>2 DEF Keeps
<1>9. CASE ~(n >= 8 * AttributeBytes(header))
  <2>1. n \in 0..(8 * AttributeBytes(header) - 1)
      BY <1>1, <1>9
  <2>2. a \in AttributesOf(o)
      BY <2>1, TestIs DEF a
  <2>3. /\ a \in DOMAIN story.memory /\ DOMAIN memory = DOMAIN story.memory
        /\ \A q \in Objects \ {o} : a \notin AttributesOf(q)
        /\ \A q \in Objects : \A i \in DOMAIN Layout[q] : a \notin DataOf(q, i)
      BY <1>2, <2>2, AttributesApart DEF Image
  <2>4. memory[a] \in Byte
      BY <1>2, <2>3 DEF Image
  <2>5. /\ c \in Byte /\ (HasBit(c, n) <=> on)
        /\ \A k \in Nat : k % 8 # n % 8 => (HasBit(c, k) <=> HasBit(memory[a], k))
      BY <1>1, <2>4, BitChanged DEF c
  <2>6. /\ memory' = [memory EXCEPT ![a] = c] /\ memory' \in Image /\ memory'[a] = c
        /\ \A b \in DOMAIN story.memory : b # a => memory'[b] = memory[b]
      BY <1>2, <1>3, <1>9, <2>3, <2>5 DEF Image
  <2>7. Agrees(memory')
    <3> SUFFICES ASSUME NEW b \in DOMAIN story.memory, Free(b) PROVE memory'[b] = story.memory[b]
        BY <2>6 DEF Agrees
    <3>1. b # a
        BY <2>2 DEF Free
    <3> QED
        BY <1>2, <2>6, <3>1 DEF Agrees
  <2>8. ASSUME NEW x \in Objects, NEW k \in 0..(8 * AttributeBytes(header) - 1)
        PROVE  TestAttribute(memory', header, x, k) = (k \in promise'.attributes[x])
    <3> DEFINE b == ObjectBase(header, x) + k \div 8
    <3>1. /\ TestAttribute(memory, header, x, k) = HasBit(memory[b], k)
          /\ TestAttribute(memory', header, x, k) = HasBit(memory'[b], k)
          /\ b \in AttributesOf(x) /\ k \in Nat
        BY TestIs
    <3>2. b \in DOMAIN story.memory
        BY <3>1, AttributesApart
    <3>3. TestAttribute(memory, header, x, k) = (k \in promise.attributes[x])
        BY Zenon DEF Keeps, KeepsAttributes
    <3>4. HasBit(memory[b], k) \in BOOLEAN /\ HasBit(memory'[b], k) \in BOOLEAN
        BY DEF HasBit
    <3>5. b = a /\ k % 8 = n % 8 => x = o /\ k = n
      <4>1. b = a => x = o
          BY <2>3, <3>1
      <4>2. ASSUME b = a, k % 8 = n % 8, x = o PROVE k = n
        <5>1. k \div 8 = n \div 8
          <6>1. k \div 8 \in Int /\ n \div 8 \in Int
              BY <1>1, <3>1
          <6> QED
              BY <1>1, <4>2, <6>1 DEF a
        <5>2. k = 8 * (k \div 8) + (k % 8) /\ n = 8 * (n \div 8) + (n % 8)
            BY <1>1, <3>1
        <5> QED
            BY <4>2, <5>1, <5>2
      <4> QED
          BY <4>1, <4>2
    <3>6. x = o /\ k = n => b = a
        BY DEF a
    <3> HIDE DEF b
    <3>7. CASE x = o /\ k = n
        BY <1>7, <2>5, <2>6, <3>1, <3>4, <3>6, <3>7
    <3>8. CASE ~(x = o /\ k = n)
      <4>1. HasBit(memory'[b], k) <=> HasBit(memory[b], k)
        <5>1. CASE b = a
            BY <2>5, <2>6, <3>1, <3>5, <3>8, <5>1
        <5>2. CASE b # a
            BY <2>6, <3>2, <5>2
        <5> QED
            BY <5>1, <5>2
      <4>2. HasBit(memory'[b], k) = HasBit(memory[b], k)
          BY <3>4, <4>1
      <4>3. (k \in promise'.attributes[x]) = (k \in promise.attributes[x])
        <5>1. k \in promise'.attributes[x] <=> k \in promise.attributes[x]
            BY <1>7, <3>8
        <5> QED
            BY <5>1
      <4> QED
          BY <3>1, <3>3, <4>2, <4>3, Zenon
    <3> QED
        BY <3>7, <3>8
  <2>9. ASSUME NEW x \in Objects, NEW j \in DOMAIN Layout[x]
        PROVE  KeepsData(memory', promise'.data[x][j], Layout[x][j])
    <3>1. KeepsData(memory, promise.data[x][j], Layout[x][j])
        BY DEF Keeps
    <3>2. Layout[x][j].length \in Nat /\ Layout[x][j].data \in Nat
        BY DataIs
    <3>3. ASSUME NEW k \in 1..(Layout[x][j].length)
          PROVE  memory'[Layout[x][j].data + k - 1] = memory[Layout[x][j].data + k - 1]
      <4>1. Layout[x][j].data + k - 1 \in DataOf(x, j)
          BY <3>2 DEF DataOf
      <4>2. Layout[x][j].data + k - 1 \in DOMAIN story.memory
          BY <4>1, DataApart
      <4>3. Layout[x][j].data + k - 1 # a
          BY <2>3, <4>1
      <4> QED
          BY <2>6, <4>2, <4>3
    <3> QED
        BY <1>4, <3>1, <3>3 DEF KeepsData
  <2>10. \A x \in Objects : Len(promise'.data[x]) = Len(Layout[x])
      BY <1>4 DEF Keeps
  <2>11. KeepsAttributes(memory', promise'.attributes)
      BY <2>8, Zenon DEF KeepsAttributes
  <2> QED
      BY <1>6, <2>7, <2>9, <2>10, <2>11, Zenon DEF Keeps
<1> QED
    BY <1>8, <1>9

-----------------------------------------------------------------------------
(* Objects keep what was put into them.                                     *)

\* The story begins with what is promised: no attributes, and its own data.
LEMMA InitObjects == Init => ObjectsInv
<1> SUFFICES ASSUME Init, story.program = "objects" PROVE Keeps(memory, promise)
    BY DEF ObjectsInv
<1>1. /\ ObjectsStory /\ memory = story.memory /\ promise = InitialPromise
    BY DEF Init, ObjectsStory
<1>2. /\ memory \in Image
      /\ \A o \in Objects : Layout[o] \in Seq(Properties)
      /\ \A o \in Objects : \A k \in 0..(AttributeBytes(header) - 1) : memory[ObjectBase(header, o) + k] = 0
    BY <1>1, StoryOfObjects
<1> DEFINE Bytes(o, i) == ReadSlice(story.memory, Layout[o][i].data, Layout[o][i].data + Layout[o][i].length)
           Data(o) == [i \in DOMAIN Layout[o] |-> Bytes(o, i)]
<1>3. promise = [attributes |-> [o \in Objects |-> {}], data |-> [o \in Objects |-> Data(o)]]
    BY <1>1, Zenon DEF InitialPromise, ObjectsStory, Objects
<1>4. ASSUME NEW o \in Objects, NEW i \in DOMAIN Layout[o]
      PROVE  Bytes(o, i) \in Seq(Byte) /\ KeepsData(memory, Bytes(o, i), Layout[o][i])
  <2> DEFINE p == Layout[o][i]
             d == Bytes(o, i)
  <2>1. p.data \in Nat /\ p.length \in Nat /\ (p.data + p.length) - p.data = p.length
      BY <1>1, DataIs
  <2>2. \A k \in 1..(p.length) : p.data + k - 1 \in DOMAIN story.memory
    <3>1. \A k \in 1..(p.length) : p.data + k - 1 \in DataOf(o, i)
        BY <2>1 DEF DataOf
    <3> QED
        BY <1>1, <3>1, DataApart
  <2>3. d = [k \in 1..(p.length) |-> story.memory[p.data + k - 1]]
      BY <2>1, Zenon DEF ReadSlice
  <2> HIDE DEF d, p
  <2>4. d \in [1..(p.length) -> Byte]
      BY <1>1, <1>2, <2>2, <2>3 DEF Image
  <2>5. d \in Seq(Byte) /\ Len(d) = p.length
      BY <2>1, <2>4
  <2>6. \A k \in 1..(p.length) : memory[p.data + k - 1] = d[k]
      BY <1>1, <2>3
  <2>7. KeepsData(memory, d, p)
      BY <2>5, <2>6 DEF KeepsData
  <2> QED
      BY <2>5, <2>7 DEF d, p
<1> HIDE DEF Bytes
<1>5. ASSUME NEW o \in Objects
      PROVE  Data(o) \in Seq(Seq(Byte)) /\ Len(Data(o)) = Len(Layout[o])
  <2>1. Len(Layout[o]) \in Nat /\ DOMAIN Layout[o] = 1..Len(Layout[o])
      BY <1>2
  <2>2. Data(o) \in [1..Len(Layout[o]) -> Seq(Byte)]
      BY <1>4, <2>1
  <2> QED
      BY <2>1, <2>2
<1>6. promise \in Promised
  <2>1. [o \in Objects |-> {}] \in [Objects -> SUBSET Nat]
      OBVIOUS
  <2>2. [o \in Objects |-> Data(o)] \in [Objects -> Seq(Seq(Byte))]
      BY <1>5
  <2> QED
      BY <1>3, <2>1, <2>2 DEF Promised
<1>7. \A o \in Objects : promise.attributes[o] = {} /\ promise.data[o] = Data(o)
    BY <1>3
<1>8. KeepsAttributes(memory, promise.attributes)
  <2> SUFFICES ASSUME NEW o \in Objects, NEW n \in 0..(8 * AttributeBytes(header) - 1)
               PROVE  TestAttribute(memory, header, o, n) = (n \in promise.attributes[o])
      BY Zenon DEF KeepsAttributes
  <2>1. /\ TestAttribute(memory, header, o, n) = HasBit(memory[ObjectBase(header, o) + n \div 8], n)
        /\ n \div 8 \in Nat /\ n \in Nat
      BY <1>1, TestIs
  <2>2. n \div 8 \in 0..(AttributeBytes(header) - 1)
    <3>1. AttributeBytes(header) \in {4, 6}
        BY <1>1, EntriesAre
    <3> QED
        BY <2>1, <3>1
  <2>3. memory[ObjectBase(header, o) + n \div 8] = 0
      BY <1>2, <2>2
  <2>4. ~HasBit(0, n)
    <3>1. Bit(n) \in BitValues /\ (HasBit(0, n) <=> BitOf(0, Bit(n)) = 1)
        BY <2>1, BitIs
    <3> QED
        BY <3>1 DEF BitOf, BitValues
  <2>5. HasBit(0, n) \in BOOLEAN
      BY DEF HasBit
  <2>6. (n \in promise.attributes[o]) = FALSE
    <3>1. promise.attributes[o] = {}
        BY <1>7
    <3>2. (n \in {}) = FALSE
        OBVIOUS
    <3> QED
        BY <3>1, <3>2, Zenon
  <2>7. TestAttribute(memory, header, o, n) = FALSE
      BY <2>1, <2>3, <2>4, <2>5
  <2> QED
      BY <2>6, <2>7, Zenon
<1>9. Agrees(memory)
    BY <1>1, <1>2 DEF Agrees
<1>10. ASSUME NEW o \in Objects
       PROVE  /\ Len(promise.data[o]) = Len(Layout[o])
              /\ \A i \in DOMAIN Layout[o] : KeepsData(memory, promise.data[o][i], Layout[o][i])
    BY <1>4, <1>5, <1>7
<1> QED
    BY <1>6, <1>8, <1>9, <1>10, Zenon DEF Keeps

\* Every step keeps what is promised.
LEMMA ObjectsInductive ==
    ASSUME StepsInv, ObjectsInv, [Next]_vars
    PROVE  ObjectsInv'
<1>1. story' = story
  <2>1. CASE Next
      BY <2>1, OneStep
  <2>2. CASE UNCHANGED vars
      BY <2>2 DEF vars
  <2> QED
      BY <2>1, <2>2
<1> SUFFICES ASSUME story.program = "objects", ShortPropertiesHaveOneSizeByte
             PROVE  Keeps(memory, promise)'
    BY <1>1, StepKeepsLayout DEF ObjectsInv
<1>2. ObjectsStory /\ Keeps(memory, promise)
    BY DEF ObjectsInv, ObjectsStory, StepsInv
<1>3. CASE Next
  <2>1. ObjectsNext
      BY <1>3, CodeStep, TextStep, ObjectsStep, TablesStep, SaveStep, StreamsStep
         DEF Next, Counted
  <2>2. ASSUME NEW o \in DOMAIN Layout, NEW id \in story.ids, NEW value \in story.values,
               PutProp(o, id, value)
        PROVE  Keeps(memory', promise')
      BY <1>2, <2>2, PutKeeps DEF Objects
  <2>3. ASSUME NEW o \in DOMAIN Layout, NEW n \in story.attributes, NEW on \in BOOLEAN,
               ChangeAttribute(o, n, on)
        PROVE  Keeps(memory', promise')
      BY <1>2, <2>3, AttributeKeeps DEF Objects
  <2>4. Keeps(memory', promise')
      BY <2>1, <2>2, <2>3, Zenon DEF ObjectsNext
  <2> QED
      BY <1>1, <2>4, StepKeepsLayout
<1>4. CASE UNCHANGED vars
  <2>1. memory' = memory /\ promise' = promise
      BY <1>4 DEF vars, machineVars
  <2>2. Keeps(memory', promise')
      BY <1>2, <2>1
  <2> QED
      BY <1>1, <2>2, StepKeepsLayout
<1> QED
    BY <1>3, <1>4

\* Promises that are kept are what GET_PROP gives,
LEMMA PropertiesHold ==
    ASSUME ObjectsStory, Keeps(memory, promise)
    PROVE  PropertiesAreAsPut
<1>1. Agrees(memory)
    BY DEF Keeps
<1>2. ASSUME NEW o \in Objects, NEW i \in DOMAIN Layout[o]
      PROVE  PropertyValue(memory, header, o, Layout[o][i].id) = Intended(promise.data[o][i])
  <2> DEFINE p == Layout[o][i]
             d == promise.data[o][i]
             found == GetProperty(memory, header, o, p.id)
  <2>1. PropertyAddress(memory, header, o, p.id) = At(o, i)
      BY <1>1, AddressIs
  <2>2. memory[At(o, i)] # 0
      BY <1>1, FoundAt
  <2>3. found = GetPropertyByAddress(memory, header, At(o, i))
      BY <2>1, <2>2 DEF GetProperty
  <2>4. found.length = p.length /\ found.dataAddress = p.data
      BY <1>1, <2>3, FoundAt
  <2>5. p.data \in Nat /\ p.length \in Nat \ {0} /\ p.data # 0
      BY DataIs, PropertyAt
  <2>6. Len(d) = p.length /\ \A k \in 1..(p.length) : memory[p.data + k - 1] = d[k]
      BY DEF Keeps, KeepsData
  <2>7. PropertyValue(memory, header, o, p.id)
          = IF p.length = 1 THEN memory[p.data] ELSE 256 * memory[p.data] + memory[p.data + 1]
    <3> HIDE DEF found, p
    <3>1. PropertyValue(memory, header, o, p.id)
            = CASE found.dataAddress = 0 -> ReadHalfWord(memory, header.objects + 2 * (p.id - 1))
                [] found.length = 1 -> memory[found.dataAddress]
                [] OTHER -> ReadHalfWord(memory, found.dataAddress)
        BY Zenon DEF PropertyValue, found
    <3>2. p.data # 0 /\ found.length = p.length /\ found.dataAddress = p.data
        BY <2>4, <2>5
    <3> QED
        BY <3>1, <3>2 DEF ReadHalfWord
  <2> HIDE DEF d, p, found
  <2>8. memory[p.data] = d[1]
    <3>1. 1 \in 1..(p.length) /\ p.data + 1 - 1 = p.data
        BY <2>5
    <3> QED
        BY <2>6, <3>1
  <2>9. p.length # 1 => memory[p.data + 1] = d[2]
    <3>1. p.length # 1 => 2 \in 1..(p.length) /\ p.data + 2 - 1 = p.data + 1
        BY <2>5
    <3> QED
        BY <2>6, <3>1
  <2>10. PropertyValue(memory, header, o, p.id) = Intended(d)
      BY <2>6, <2>7, <2>8, <2>9 DEF Intended
  <2> QED
      BY <2>10 DEF p, d
<1>3. ASSUME NEW o \in Objects, NEW id \in story.ids \ {Layout[o][i].id : i \in DOMAIN Layout[o]}
      PROVE  PropertyValue(memory, header, o, id)
               = ReadHalfWord(story.memory, header.objects + 2 * (id - 1))
  <2> DEFINE a == header.objects + 2 * (id - 1)
  <2>1. \A i \in DOMAIN Layout[o] : Layout[o][i].id # id
      OBVIOUS
  <2>2. PropertyAddress(memory, header, o, id) = End(o)
      BY <1>1, <2>1, AddressIs
  <2>3. memory[End(o)] = 0
      BY <1>1, FoundAtEnd
  <2>4. /\ GetProperty(memory, header, o, id).dataAddress = 0
        /\ GetProperty(memory, header, o, id).length = 0
      BY <2>2, <2>3 DEF GetProperty
  <2>5. PropertyValue(memory, header, o, id) = ReadHalfWord(memory, a)
    <3> DEFINE p == GetProperty(memory, header, o, id)
    <3>1. PropertyValue(memory, header, o, id)
            = CASE p.dataAddress = 0 -> ReadHalfWord(memory, a)
                [] p.length = 1 -> memory[p.dataAddress]
                [] OTHER -> ReadHalfWord(memory, p.dataAddress)
        BY Zenon DEF PropertyValue
    <3> HIDE DEF p, a
    <3>2. (CASE p.dataAddress = 0 -> ReadHalfWord(memory, a)
             [] p.length = 1 -> memory[p.dataAddress]
             [] OTHER -> ReadHalfWord(memory, p.dataAddress)) = ReadHalfWord(memory, a)
        BY <2>4 DEF p
    <3> QED
        BY <3>1, <3>2
  <2>6. id \in 1..MaxProperty(header) /\ header.objects \in Nat /\ MaxProperty(header) \in Nat
      BY StoryOfObjects, EntriesAre
  <2>7. /\ a \in Nat /\ a + 1 \in Nat
        /\ a < header.objects + 2 * MaxProperty(header)
        /\ a + 1 < header.objects + 2 * MaxProperty(header)
      BY <2>6
  <2> HIDE DEF a
  <2>8. /\ Free(a) /\ a \in DOMAIN story.memory
        /\ Free(a + 1) /\ a + 1 \in DOMAIN story.memory
      BY <2>7, DefaultsAreFree
  <2>9. memory[a] = story.memory[a] /\ memory[a + 1] = story.memory[a + 1]
      BY <1>1, <2>8 DEF Agrees
  <2>10. ReadHalfWord(memory, a) = ReadHalfWord(story.memory, a)
      BY <2>9 DEF ReadHalfWord
  <2> QED
      BY <2>5, <2>10 DEF a
<1> QED
    BY <1>2, <1>3, Zenon DEF PropertiesAreAsPut, Objects

\* what GET_NEXT_PROP and GET_PROP_LEN list,
LEMMA ListsHold ==
    ASSUME ObjectsStory, Keeps(memory, promise)
    PROVE  PropertiesAreListed
<1>1. Agrees(memory)
    BY DEF Keeps
<1> DEFINE Id(o, i) == IF i \in 1..Len(Layout[o]) THEN Layout[o][i].id ELSE 0
<1>2. ASSUME NEW o \in Objects, NEW i \in 1..(Len(Layout[o]) + 1)
      PROVE  GetPropertyByAddress(memory, header, At(o, i)).id = Id(o, i)
  <2>1. Len(Layout[o]) \in Nat /\ DOMAIN Layout[o] = 1..Len(Layout[o])
      BY PropertiesFollow
  <2>2. CASE i \in DOMAIN Layout[o]
      BY <1>1, <2>1, <2>2, FoundAt
  <2>3. CASE i \notin DOMAIN Layout[o]
    <3>1. i = Len(Layout[o]) + 1 /\ Id(o, i) = 0
        BY <2>1, <2>3
    <3> QED
        BY <1>1, <3>1, FoundAtEnd DEF End
  <2> QED
      BY <2>2, <2>3
<1>3. ASSUME NEW o \in Objects, memory[PropertyPointer(memory, header, o)] # 0
      PROVE  GetNextProperty(memory, header, o, 0) = Id(o, 1)
  <2>1. GetNextProperty(memory, header, o, 0)
          = GetPropertyByAddress(memory, header, FirstProperty(memory, header, o)).id
      BY <1>3 DEF GetNextProperty
  <2>2. FirstProperty(memory, header, o) = At(o, 1) /\ 1 \in 1..(Len(Layout[o]) + 1)
      BY <1>1, SameTable, PropertiesFollow
  <2> QED
      BY <1>2, <2>1, <2>2
<1>4. ASSUME NEW o \in Objects, NEW i \in 1..Len(Layout[o])
      PROVE  /\ GetNextProperty(memory, header, o, Id(o, i)) = Id(o, i + 1)
             /\ GetPropertyLength(memory, header,
                                  GetProperty(memory, header, o, Id(o, i)).dataAddress)
                  = Layout[o][i].length
  <2> DEFINE p == Layout[o][i]
             found == GetProperty(memory, header, o, p.id)
             a == At(o, i)
  <2>1. /\ i \in DOMAIN Layout[o] /\ i + 1 \in 1..(Len(Layout[o]) + 1) /\ Id(o, i) = p.id
      BY PropertiesFollow
  <2>2. /\ p \in Properties /\ p.data \in Nat /\ p.length \in Nat \ {0} /\ p.header \in {1, 2}
        /\ p.data = a + p.header /\ a \in Nat /\ p.data + p.length = At(o, i + 1)
      BY <2>1, DataIs
  <2>3. PropertyAddress(memory, header, o, p.id) = a
      BY <1>1, <2>1, AddressIs
  <2>4. /\ memory[a] # 0
        /\ GetPropertyByAddress(memory, header, a).length = p.length
        /\ GetPropertyByAddress(memory, header, a).header = p.header
        /\ GetPropertyByAddress(memory, header, a).dataAddress = p.data
        /\ p.header = 2 => memory[p.data - 1] >= 128
      BY <1>1, <2>1, FoundAt
  <2>5. found = GetPropertyByAddress(memory, header, a)
      BY <2>3, <2>4 DEF GetProperty
  <2>7. found.length = p.length /\ found.dataAddress = p.data /\ p.data # 0
      BY <2>2, <2>4, <2>5
  <2> HIDE DEF found, a, p
  <2>6. p.id # 0
    <3>1. p.id \in 1..63
        BY <2>2, Zenon DEF Properties
    <3>2. 0 \notin 1..63
        OBVIOUS
    <3> QED
        BY <3>1, <3>2, Zenon
  <2>8. GetNextProperty(memory, header, o, p.id)
          = GetPropertyByAddress(memory, header, found.dataAddress + found.length).id
      BY <2>6, <2>7 DEF GetNextProperty, found
  <2>9. GetNextProperty(memory, header, o, p.id) = Id(o, i + 1)
      BY <1>2, <2>1, <2>2, <2>7, <2>8
  <2>10. GetPropertyLength(memory, header, p.data) = p.length
    <3>1. header.version \in 1..5
        BY StoryOfObjects
    <3>2. CASE p.header = 2
      <4>1. p.data - 1 = a + 1
          BY <2>2, <3>2
      <4>2. memory[a + 1] >= 128
          BY <2>4, <3>2, <4>1
      <4> QED
          BY <2>4, <2>7, <3>1, <3>2, <4>1, <4>2 DEF GetPropertyByAddress, GetPropertyLength
    <3>3. CASE p.header # 2
      <4>1. p.header = 1 /\ p.data - 1 = a
          BY <2>2, <3>3
      <4> QED
          BY <2>4, <2>7, <3>1, <4>1 DEF GetPropertyByAddress, GetPropertyLength
    <3> QED
        BY <3>2, <3>3
  <2> QED
      BY <2>1, <2>7, <2>9, <2>10 DEF found, p
<1> QED
    BY <1>3, <1>4 DEF PropertiesAreListed, Objects

\* and what TEST_ATTR tests.
LEMMA AttributesHold ==
    ASSUME ObjectsStory, Keeps(memory, promise)
    PROVE  AttributesAreAsSet
BY Zenon DEF Keeps, KeepsAttributes, AttributesAreAsSet, Objects

\* GET_PROP, GET_NEXT_PROP, GET_PROP_LEN and TEST_ATTR give what was put, listed and set,
\* for every story, every layout of its properties and any mix of PUT_PROP, SET_ATTR and
\* CLEAR_ATTR.  The layouts are those in which a property that PUT_PROP changes has one
\* size byte: where it has two, SetProperty writes over the second, and a later PUT_PROP on
\* the object may walk into any other object.
THEOREM ObjectsAlwaysKeepWhatWasPut ==
    Spec => [](ShortPropertiesHaveOneSizeByte => ObjectsKeepWhatWasPut)
<1> DEFINE Inv == StepsInv /\ ObjectsInv
<1>1. Init => Inv
    BY InitHolds, InitObjects
<1>2. Inv /\ [Next]_vars => Inv'
    BY StepsInductive, ObjectsInductive
<1>3. Inv => (ShortPropertiesHaveOneSizeByte => ObjectsKeepWhatWasPut)
  <2>1. CASE story.program = "objects"
      BY <2>1, PropertiesHold, ListsHold, AttributesHold
         DEF StepsInv, ObjectsInv, ObjectsStory, ObjectsKeepWhatWasPut
  <2>2. CASE story.program # "objects"
      BY <2>2 DEF ObjectsKeepWhatWasPut, PropertiesAreAsPut, PropertiesAreListed, AttributesAreAsSet
  <2> QED
      BY <2>1, <2>2
<1> QED
    BY <1>1, <1>2, <1>3, PTL DEF Spec

-----------------------------------------------------------------------------
(* The words of a text.                                                     *)

Pairs == Int \X Int
Scans == [words : Seq(Pairs), start : Int]

\* The scan of a text: of nothing, and of each byte after those before it.
IsScan(read, m, separators, first) ==
    /\ read[0] = [words |-> <<>>, start |-> first]
    /\ \A k \in Nat \ {0} : read[k] = Scan(m, separators, read[k - 1], first + k - 1)

\* A scan is of words and the place where one may begin.
LEMMA ScanIs ==
    ASSUME NEW m, NEW separators, NEW s \in Scans, NEW a \in Int
    PROVE  Scan(m, separators, s, a) \in Scans
<1> DEFINE flushed == IF a > s.start THEN Append(s.words, <<s.start, a>>) ELSE s.words
<1>1. s.words \in Seq(Pairs) /\ s.start \in Int
    BY DEF Scans
<1>2. <<s.start, a>> \in Pairs /\ <<a, a + 1>> \in Pairs /\ a + 1 \in Int
    BY <1>1 DEF Pairs
<1>3. flushed \in Seq(Pairs)
    BY <1>1, <1>2
<1>4. Scan(m, separators, s, a)
        = CASE m[a] = Space -> [words |-> flushed, start |-> a + 1]
            [] m[a] \in separators -> [words |-> Append(flushed, <<a, a + 1>>), start |-> a + 1]
            [] OTHER -> s
    BY Zenon DEF Scan
<1> HIDE DEF flushed
<1>5. /\ [words |-> flushed, start |-> a + 1] \in Scans
      /\ [words |-> Append(flushed, <<a, a + 1>>), start |-> a + 1] \in Scans
  <2>1. Append(flushed, <<a, a + 1>>) \in Seq(Pairs)
      BY <1>2, <1>3
  <2> QED
      BY <1>2, <1>3, <2>1 DEF Scans
<1> QED
    BY <1>4, <1>5

\* A recursive function from Nat is what its definition says, here of the scan.
LEMMA ScanUnfolds ==
    ASSUME NEW m, NEW separators, NEW first
    PROVE  LET read[k \in Nat] ==
                   IF k = 0 THEN [words |-> <<>>, start |-> first]
                   ELSE Scan(m, separators, read[k - 1], first + k - 1)
           IN IsScan(read, m, separators, first)
<1> DEFINE begin == [words |-> <<>>, start |-> first]
           More(r, k) == Scan(m, separators, r, first + k - 1)
           Whole(f) == f = [k \in Nat |-> IF k = 0 THEN begin ELSE More(f[k - 1], k)]
           UpTo(f, n) == f = [k \in 0..n |-> IF k = 0 THEN begin ELSE More(f[k - 1], k)]
           g == CHOOSE f : Whole(f)
           T == {n \in Nat : ~\E f : UpTo(f, n)}
           F(n) == CHOOSE f : UpTo(f, n)
           w == [n \in Nat |-> F(n)[n]]
<1>1. SUFFICES IsScan(g, m, separators, first)
    BY Zenon
<1> HIDE DEF begin, More, g
<1>2. T = {}
  <2>1. SUFFICES ASSUME T # {} PROVE FALSE
      OBVIOUS
  <2>2. PICK k \in T : \A j \in T : k <= j
      BY <2>1, LeastElement
  <2>3. k \in Nat /\ ~\E f : UpTo(f, k)
      BY <2>2
  <2>4. CASE k = 0
    <3> DEFINE f == [i \in 0..0 |-> begin]
    <3>1. \A i \in 0..0 : i = 0
        OBVIOUS
    <3>2. f = [i \in 0..0 |-> IF i = 0 THEN begin ELSE More(f[i - 1], i)]
        BY <3>1
    <3> HIDE DEF f
    <3> QED
        BY <2>3, <2>4, <3>2
  <2>5. CASE k # 0
    <3>1. k - 1 \in Nat /\ ~(k <= k - 1)
        BY <2>3, <2>5
    <3>2. k - 1 \notin T
        BY <2>2, <3>1
    <3>3. PICK f : UpTo(f, k - 1)
        BY <3>1, <3>2
    <3> DEFINE e == [i \in 0..k |-> IF i = k THEN More(f[k - 1], k) ELSE f[i]]
    <3>4. \A i \in 0..k : e[i] = IF i = 0 THEN begin ELSE More(e[i - 1], i)
      <4> SUFFICES ASSUME NEW i \in 0..k
                   PROVE  e[i] = IF i = 0 THEN begin ELSE More(e[i - 1], i)
          OBVIOUS
      <4>1. CASE i = k
        <5>1. k - 1 \in 0..k /\ k - 1 # k /\ k # 0
            BY <2>3, <2>5, <3>1
        <5>2. e[k - 1] = f[k - 1] /\ e[i] = More(f[k - 1], k)
            BY <4>1, <5>1
        <5> QED
            BY <4>1, <5>1, <5>2, Zenon
      <4>2. CASE i # k
        <5>1. i \in 0..(k - 1) /\ (i # 0 => i - 1 \in 0..k /\ i - 1 # k)
            BY <2>3, <3>1, <4>2
        <5>2. e[i] = f[i] /\ (i # 0 => e[i - 1] = f[i - 1])
            BY <4>2, <5>1
        <5>3. f[i] = IF i = 0 THEN begin ELSE More(f[i - 1], i)
            BY <3>3, <5>1
        <5> QED
            BY <5>2, <5>3, Zenon
      <4> QED
          BY <4>1, <4>2
    <3>5. e = [i \in 0..k |-> e[i]]
        OBVIOUS
    <3> HIDE DEF e
    <3>6. UpTo(e, k)
        BY <3>4, <3>5, Zenon
    <3> QED
        BY <2>3, <3>6
  <2> QED
      BY <2>4, <2>5
<1>3. \A n \in Nat : UpTo(F(n), n)
  <2> SUFFICES ASSUME NEW n \in Nat PROVE UpTo(F(n), n)
      OBVIOUS
  <2>1. \E f : UpTo(f, n)
      BY <1>2
  <2> QED
      BY <2>1, Zenon
<1> HIDE DEF F
<1>4. \A n \in Nat : \A k \in 0..n : F(n)[k] = IF k = 0 THEN begin ELSE More(F(n)[k - 1], k)
  <2> SUFFICES ASSUME NEW n \in Nat, NEW k \in 0..n
               PROVE  F(n)[k] = IF k = 0 THEN begin ELSE More(F(n)[k - 1], k)
      OBVIOUS
  <2>1. F(n) = [i \in 0..n |-> IF i = 0 THEN begin ELSE More(F(n)[i - 1], i)]
      BY <1>3
  <2> QED
      BY <2>1
<1>5. \A n \in Nat : F(n + 1)[n] = F(n)[n]
  <2> SUFFICES ASSUME NEW n \in Nat PROVE F(n + 1)[n] = F(n)[n]
      OBVIOUS
  <2> DEFINE D == {k \in 0..n : F(n + 1)[k] # F(n)[k]}
  <2>1. SUFFICES ASSUME D # {} PROVE FALSE
    <3>1. n \in 0..n
        OBVIOUS
    <3> QED
        BY <2>1, <3>1
  <2> HIDE DEF w
  <2>8. D \subseteq Nat
      OBVIOUS
  <2>2. PICK k \in D : \A j \in D : k <= j
      BY <2>1, <2>8, LeastElement
  <2>3. k \in 0..n /\ k \in 0..(n + 1) /\ n + 1 \in Nat /\ F(n + 1)[k] # F(n)[k]
      BY <2>2
  <2>4. /\ F(n)[k] = IF k = 0 THEN begin ELSE More(F(n)[k - 1], k)
        /\ F(n + 1)[k] = IF k = 0 THEN begin ELSE More(F(n + 1)[k - 1], k)
      BY <1>4, <2>3
  <2>5. k # 0
      BY <2>3, <2>4
  <2>6. k - 1 \in 0..n /\ ~(k <= k - 1)
      BY <2>3, <2>5
  <2>7. F(n + 1)[k - 1] = F(n)[k - 1]
      BY <2>2, <2>6
  <2> QED
      BY <2>3, <2>4, <2>5, <2>7
<1>6. \A k \in Nat : w[k] = IF k = 0 THEN begin ELSE More(w[k - 1], k)
  <2> SUFFICES ASSUME NEW k \in Nat PROVE w[k] = IF k = 0 THEN begin ELSE More(w[k - 1], k)
      OBVIOUS
  <2>1. k \in 0..k
      OBVIOUS
  <2>2. F(k)[k] = IF k = 0 THEN begin ELSE More(F(k)[k - 1], k)
      BY <1>4, <2>1
  <2>3. CASE k = 0
      BY <2>2, <2>3
  <2>4. CASE k # 0
    <3>1. k - 1 \in Nat /\ (k - 1) + 1 = k
        BY <2>4
    <3>2. F(k)[k - 1] = F(k - 1)[k - 1]
        BY <1>5, <3>1
    <3> QED
        BY <2>2, <2>4, <3>1, <3>2
  <2> QED
      BY <2>3, <2>4
<1>7. w = [k \in Nat |-> w[k]]
    OBVIOUS
<1> HIDE DEF w
<1>8. Whole(w)
    BY <1>6, <1>7, Zenon
<1>9. Whole(g)
    BY <1>8, Zenon DEF g
<1>10. g[0] = begin
    BY <1>9
<1>11. \A k \in Nat \ {0} : g[k] = More(g[k - 1], k)
    BY <1>9
<1> QED
    BY <1>10, <1>11, Zenon DEF IsScan, More, begin

\* After any number of bytes the scan is of words.
LEMMA ScansGrow ==
    ASSUME NEW read, NEW m, NEW separators, NEW first \in Int, IsScan(read, m, separators, first)
    PROVE  \A k \in Nat : read[k] \in Scans
<1> DEFINE T == {k \in Nat : read[k] \notin Scans}
<1>1. SUFFICES ASSUME T # {} PROVE FALSE
    OBVIOUS
<1>2. PICK k \in T : \A j \in T : k <= j
    BY <1>1, LeastElement
<1>3. k \in Nat /\ read[k] \notin Scans
    BY <1>2
<1>4. [words |-> <<>>, start |-> first] \in Scans
    BY EmptySeq DEF Scans
<1>5. k # 0
    BY <1>3, <1>4 DEF IsScan
<1>6. k - 1 \in Nat /\ ~(k <= k - 1) /\ k \in Nat \ {0} /\ first + k - 1 \in Int
    BY <1>3, <1>5
<1>7. read[k - 1] \in Scans
    BY <1>2, <1>6
<1>8. read[k] = Scan(m, separators, read[k - 1], first + k - 1)
    BY <1>6 DEF IsScan
<1> QED
    BY <1>3, <1>6, <1>7, <1>8, ScanIs

\* A memory of contiguous addresses from 0 on, and a text that begins in it.
IsMemory(m) == IsFiniteSet(DOMAIN m) /\ DOMAIN m = 0..(Cardinality(DOMAIN m) - 1)

HasText(m, v, text) ==
    /\ text \in Nat /\ text + 1 \in DOMAIN m
    /\ v >= 5 => m[text + 1] \in Nat

\* The least place is one of the places, and no other is before it.
LEMMA LeastIs ==
    ASSUME NEW S, S \subseteq Nat, S # {}
    PROVE  Min(S) \in S /\ \A j \in S : Min(S) <= j
BY LeastElement, Zenon DEF Min

\* The end of a text is behind its beginning.
LEMMA TextEndIs ==
    ASSUME NEW m, NEW v \in Int, NEW text, IsMemory(m), HasText(m, v, text)
    PROVE  /\ TextEnd(m, v, text) \in Nat
           /\ TextEnd(m, v, text) = 0 \/ TextEnd(m, v, text) >= text + (IF v >= 5 THEN 2 ELSE 1)
<1> DEFINE zeros == {a \in DOMAIN m : a > text /\ m[a] = 0}
<1>1. text \in Nat /\ (v >= 5 => m[text + 1] \in Nat)
    BY DEF HasText
<1>2. Cardinality(DOMAIN m) \in Nat
    BY FS_CardinalityType DEF IsMemory
<1>3. DOMAIN m \subseteq Nat
    BY <1>2 DEF IsMemory
<1>4. TextEnd(m, v, text)
        = IF v >= 5
          THEN IF text + 2 + m[text + 1] \in DOMAIN m THEN text + 2 + m[text + 1] ELSE 0
          ELSE IF zeros = {} THEN 0 ELSE Min(zeros)
    BY Zenon DEF TextEnd
<1>5. zeros # {} => Min(zeros) \in Nat /\ Min(zeros) > text
  <2>1. zeros \subseteq Nat
      BY <1>3
  <2>2. zeros # {} => Min(zeros) \in zeros
      BY <2>1, LeastIs
  <2> QED
      BY <1>3, <2>2
<1> HIDE DEF zeros
<1>6. CASE v >= 5
    BY <1>1, <1>4, <1>6
<1>7. CASE ~(v >= 5)
    BY <1>1, <1>4, <1>5, <1>7
<1> QED
    BY <1>6, <1>7

\* The words of a text are pairs of places.
LEMMA WordsAre ==
    ASSUME NEW m, NEW v \in Int, NEW text, NEW separators, IsMemory(m), HasText(m, v, text)
    PROVE  Words(m, v, text, separators) \in Seq(Pairs)
<1> DEFINE first == text + IF v >= 5 THEN 2 ELSE 1
           end == TextEnd(m, v, text)
           read[k \in Nat] ==
               IF k = 0 THEN [words |-> <<>>, start |-> first]
               ELSE Scan(m, separators, read[k - 1], first + k - 1)
           n == (IF end = 0 THEN Cardinality(DOMAIN m) ELSE end) - first
           all == read[n]
<1>1. text \in Nat /\ text + 1 \in DOMAIN m
    BY DEF HasText
<1>2. Cardinality(DOMAIN m) \in Nat
    BY FS_CardinalityType DEF IsMemory
<1>3. text + 2 <= Cardinality(DOMAIN m)
    BY <1>1, <1>2 DEF IsMemory
<1>4. end \in Nat /\ (end = 0 \/ end >= first)
    BY TextEndIs
<1>5. first \in Int /\ first <= text + 2
    BY <1>1
<1>6. Words(m, v, text, separators)
        = IF end > all.start THEN Append(all.words, <<all.start, end>>) ELSE all.words
    BY Zenon DEF Words
<1> HIDE DEF first, end
<1>7. IsScan(read, m, separators, first)
    BY ScanUnfolds, Zenon
<1> HIDE DEF read
<1>8. n \in Nat
    BY <1>1, <1>2, <1>3, <1>4, <1>5
<1> HIDE DEF n
<1>9. all \in Scans
    BY <1>5, <1>7, <1>8, ScansGrow
<1> HIDE DEF all
<1>10. all.words \in Seq(Pairs) /\ <<all.start, end>> \in Pairs
    BY <1>4, <1>9 DEF Scans, Pairs
<1> QED
    BY <1>6, <1>10

\* TOKENISE writes the number of words and four bytes for each.
LEMMA TokeniseStays ==
    ASSUME NEW m, NEW v \in Int, NEW text, NEW parse \in Int, NEW own, NEW dictionary,
           IsMemory(m), HasText(m, v, text), m[parse] \in Nat
    PROVE  /\ DOMAIN Tokenise(m, v, text, parse, own, dictionary) = DOMAIN m
           /\ \A x \in DOMAIN m : x \notin (parse + 1)..(parse + 1 + 4 * m[parse]) =>
                Tokenise(m, v, text, parse, own, dictionary)[x] = m[x]
<1> DEFINE found == Words(m, v, text, Separators(m, own))
           n == Min({Len(found), m[parse]})
           kept == SubSeq(found, 1, n)
           Entry(w) ==
               LET e == Find(m, v, dictionary, Encode(v, Runes(ReadSlice(m, w[1], w[2]))))
               IN <<e \div 256, e % 256, (w[2] - w[1]) % 256, (w[1] - text) % 256>>
           data == [k \in 1..(1 + 4 * Len(kept)) |->
                      IF k = 1 THEN Len(kept) ELSE Entry(kept[(k + 2) \div 4])[((k - 2) % 4) + 1]]
<1>1. Tokenise(m, v, text, parse, own, dictionary) = WriteSlice(m, parse + 1, data)
    BY Zenon DEF Tokenise
<1>2. found \in Seq(Pairs)
    BY WordsAre
<1> HIDE DEF found, Entry
<1>3. Len(found) \in Nat
    BY <1>2, LenProperties
<1>4. n \in Nat /\ n <= Len(found) /\ n <= m[parse]
  <2> DEFINE S == {Len(found), m[parse]}
  <2>1. S \subseteq Nat /\ S # {}
      BY <1>3
  <2>2. Min(S) \in S /\ \A j \in S : Min(S) <= j
      BY <2>1, LeastIs
  <2> QED
      BY <2>1, <2>2
<1> HIDE DEF n
<1>5. Len(kept) = n
    BY <1>2, <1>3, <1>4, SubSeqProperties
<1> HIDE DEF kept
<1>6. Len(data) = 1 + 4 * n
    BY <1>4, <1>5
<1> HIDE DEF data
<1>7. (parse + 1) + Len(data) - 1 <= parse + 1 + 4 * m[parse]
    BY <1>4, <1>6
<1>8. WriteSlice(m, parse + 1, data)
        = [x \in DOMAIN m |-> IF x \in (parse + 1)..(parse + 1 + Len(data) - 1)
                              THEN data[x - (parse + 1) + 1] ELSE m[x]]
    BY DEF WriteSlice
<1>9. \A x : x \in (parse + 1)..(parse + 1 + Len(data) - 1)
               => x \in (parse + 1)..(parse + 1 + 4 * m[parse])
    BY <1>4, <1>6, <1>7
<1> QED
    BY <1>1, <1>8, <1>9

\* A line behind the characters a story left ends where the buffer allows.
LEMMA LineFits ==
    ASSUME NEW t \in Nat, NEW old \in Nat, NEW size \in Nat, NEW n \in Nat, n <= size + 1
    PROVE  /\ t + 2 + old \in Int /\ t + 1 <= t + 2 + old
           /\ t + 2 + old + n <= t + 2 + size + (1 + old)
           /\ t + 2 + size + (1 + old) \in Int
OBVIOUS

\* READ writes no more characters than fit, a zero behind them and, from version 5 on,
\* how many there are.
LEMMA StoreLineStays ==
    ASSUME NEW m, NEW v \in Int, NEW text, NEW line \in Seq(Byte),
           DOMAIN m \subseteq Nat, HasText(m, v, text), m[text] \in Nat
    PROVE  /\ DOMAIN StoreLine(m, v, text, line) = DOMAIN m
           /\ v >= 5 => StoreLine(m, v, text, line)[text + 1] \in 0..(m[text] + 1)
           /\ \A x \in DOMAIN m :
                x \notin (text + 1)..(text + 2 + m[text] + IF v >= 5 THEN 1 + m[text + 1] ELSE 0) =>
                    StoreLine(m, v, text, line)[x] = m[x]
<1> DEFINE start == TextStart(m, v, text)
           count == Min({Len(line), m[text] + 1})
           taken == [i \in 1..count |-> Stored(ToLower(line)[i])]
           data == Append(taken, 0)
           stored == WriteSlice(m, start, data)
           new == StoreLine(m, v, text, line)
           end == text + 2 + m[text] + IF v >= 5 THEN 1 + m[text + 1] ELSE 0
<1>1. new = IF v >= 5 THEN WriteZByte(stored, text + 1, count) ELSE stored
    BY Zenon DEF StoreLine
<1>2. text \in Nat /\ text + 1 \in DOMAIN m /\ (v >= 5 => m[text + 1] \in Nat)
    BY DEF HasText
<1>3. start = IF v >= 5 THEN text + 2 + m[text + 1] ELSE text + 1
    BY DEF TextStart
<1>4. count \in Nat /\ count <= m[text] + 1
  <2> DEFINE S == {Len(line), m[text] + 1}
  <2>1. S \subseteq Nat /\ S # {}
      BY LenProperties
  <2>2. Min(S) \in S /\ \A j \in S : Min(S) <= j
      BY <2>1, LeastIs
  <2> QED
      BY <2>1, <2>2
<1> HIDE DEF count, new
<1>5. Len(data) = count + 1
  <2> DEFINE R == {Stored(ToLower(line)[i]) : i \in 1..count}
  <2>1. taken \in Seq(R) /\ Len(taken) = count
      BY <1>4
  <2> HIDE DEF taken
  <2>2. data \in Seq(R \cup {0}) /\ Len(data) = Len(taken) + 1
    <3>1. taken \in Seq(R \cup {0})
        BY <2>1
    <3> QED
        BY <3>1, AppendProperties
  <2> QED
      BY <2>1, <2>2
<1> HIDE DEF data
<1>6. stored = [x \in DOMAIN m |-> IF x \in start..(start + Len(data) - 1)
                                   THEN data[x - start + 1] ELSE m[x]]
    BY DEF WriteSlice
<1> HIDE DEF start, stored
<1>7. \A x : x \in start..(start + Len(data) - 1) => x \in (text + 1)..end
  <2>1. start \in Int /\ text + 1 <= start /\ start + count <= end /\ end \in Int
    <3>1. CASE v >= 5
      <4>1. start = text + 2 + m[text + 1] /\ end = text + 2 + m[text] + (1 + m[text + 1])
          BY <1>3, <3>1 DEF end
      <4>2. m[text + 1] \in Nat /\ text \in Nat
          BY <1>2, <3>1
      <4>3. /\ text + 2 + m[text + 1] \in Int /\ text + 1 <= text + 2 + m[text + 1]
            /\ text + 2 + m[text + 1] + count <= text + 2 + m[text] + (1 + m[text + 1])
            /\ text + 2 + m[text] + (1 + m[text + 1]) \in Int
          BY <1>4, <4>2, LineFits, Zenon
      <4> HIDE DEF end
      <4> QED
          BY <4>1, <4>3, Zenon
    <3>2. CASE ~(v >= 5)
      <4>1. start = text + 1 /\ end = text + 2 + m[text] + 0
          BY <1>3, <3>2 DEF end
      <4> QED
          BY <1>2, <1>4, <4>1
    <3> QED
        BY <3>1, <3>2
  <2> HIDE DEF end
  <2> QED
      BY <1>2, <1>4, <1>5, <2>1
<1>8. text + 1 \in (text + 1)..end /\ end \in Int
    BY <1>2
<1> HIDE DEF end
<1>9. DOMAIN stored = DOMAIN m /\ \A x \in DOMAIN m : x \notin (text + 1)..end => stored[x] = m[x]
    BY <1>6, <1>7
<1>10. CASE v >= 5
  <2>1. new = [stored EXCEPT ![text + 1] = count % 256]
      BY <1>1, <1>10 DEF WriteZByte
  <2>2. new[text + 1] = count % 256
      BY <1>2, <1>9, <2>1
  <2>3. count % 256 \in Nat /\ count % 256 <= count
      BY <1>4
  <2>4. new[text + 1] \in 0..(m[text] + 1)
      BY <1>4, <2>2, <2>3
  <2>5. \A x \in DOMAIN m : x \notin (text + 1)..end => new[x] = m[x]
      BY <1>8, <1>9, <2>1
  <2> QED
      BY <1>9, <2>1, <2>4, <2>5 DEF new, end
<1>11. CASE ~(v >= 5)
  <2>1. new = stored
      BY <1>1, <1>11
  <2> QED
      BY <1>9, <1>11, <2>1 DEF new, end
<1> QED
    BY <1>10, <1>11

-----------------------------------------------------------------------------
(* READ and TOKENISE write to their buffers.                                *)

TextsAt == {b[1] : b \in story.buffers}
ParsesAt == {b[2] : b \in story.buffers} \ {0}
TextsStory == story \in Stories /\ story.program = "text"

\* The sizes of the buffers are the story's; a text grows no longer than its buffer.
HoldsText(m) ==
    /\ DOMAIN m = DOMAIN story.memory
    /\ \A a \in TextsAt \cup ParsesAt : m[a] = story.memory[a]
    /\ version >= 5 => \A t \in TextsAt : m[t + 1] \in 0..(story.memory[t] + 2)

TextHolds == HoldsText(memory) /\ streams.MemoryStreamData = <<>>
TextInv == story.program = "text" => TextHolds

\* What TextAssumption says of the memory, the lines and the buffers of a story.
LEMMA StoryOfText ==
    ASSUME TextsStory
    PROVE  /\ version \in 1..5 /\ story.memory \in Image /\ IsMemory(story.memory)
           /\ DOMAIN story.memory \subseteq Nat
           /\ \A line \in story.lines : line \in Seq(Byte)
           /\ \A t \in TextsAt : t \in DOMAIN story.memory /\ t + 1 \in DOMAIN story.memory
           /\ \A a \in TextsAt \cup ParsesAt : a \in DOMAIN story.memory /\ story.memory[a] \in Nat
           /\ \A t \in TextsAt : version >= 5 => story.memory[t + 1] \in 0..(story.memory[t] + 2)
<1>1. /\ version \in 1..5 /\ story.memory \in [DOMAIN story.memory -> Byte]
      /\ DOMAIN story.memory \subseteq Nat
    BY InstructionsAssumption DEF TextsStory, version, header
<1>2. /\ IsFiniteSet(DOMAIN story.memory)
      /\ DOMAIN story.memory = 0..(Cardinality(DOMAIN story.memory) - 1)
      /\ story.lines \subseteq Lines
      /\ \A t \in TextsAt : {t, t + 1} \subseteq DOMAIN story.memory
      /\ ParsesAt \subseteq DOMAIN story.memory
      /\ \A t \in TextsAt : version >= 5 => story.memory[t + 1] <= story.memory[t] + 2
    BY TextAssumption, Zenon DEF TextsStory, TextsAt, ParsesAt, version, header
<1>3. \A a \in DOMAIN story.memory : story.memory[a] \in Nat
    BY <1>1 DEF Byte
<1>4. \A t \in TextsAt : version >= 5 => story.memory[t + 1] \in 0..(story.memory[t] + 2)
    BY <1>2, <1>3
<1>5. \A line \in story.lines : line \in Seq(Byte)
    BY <1>2 DEF Lines
<1> QED
    BY <1>1, <1>2, <1>3, <1>4, <1>5 DEF Image, IsMemory

\* The bytes of a buffer are not the size or the count of another.
LEMMA BuffersApart ==
    ASSUME TextsStory
    PROVE  /\ \A t \in TextsAt : \A a \in TextsAt \cup ParsesAt : a \notin TextBytes(story, t)
           /\ \A t, u \in TextsAt : t # u => u + 1 \notin TextBytes(story, t)
           /\ \A p \in ParsesAt : \A a \in TextsAt \cup ParsesAt : a \notin ParseBytes(story, p)
           /\ \A p \in ParsesAt : \A u \in TextsAt : u + 1 \notin ParseBytes(story, p)
<1>1. /\ \A t \in TextsAt : TextBytes(story, t)
           \cap (TextsAt \cup ParsesAt \cup {u + 1 : u \in TextsAt \ {t}}) = {}
      /\ \A p \in ParsesAt : ParseBytes(story, p)
           \cap (TextsAt \cup ParsesAt \cup {u + 1 : u \in TextsAt}) = {}
    BY TextAssumption, Zenon DEF TextsStory, TextsAt, ParsesAt
<1> HIDE DEF TextsAt, ParsesAt, TextBytes, ParseBytes
<1> QED
    BY <1>1

\* What a memory with the buffers of the story is for READ and TOKENISE.
LEMMA BuffersAre ==
    ASSUME TextsStory, NEW m, HoldsText(m), NEW t \in TextsAt
    PROVE  /\ IsMemory(m) /\ HasText(m, version, t) /\ m[t] \in Nat /\ DOMAIN m \subseteq Nat
           /\ version \in Int
           /\ \A p \in ParsesAt : p \in Int /\ m[p] \in Nat
BY StoryOfText DEF HoldsText, IsMemory, HasText

\* A write within a text buffer leaves all buffers with their sizes.
LEMMA TextWritten ==
    ASSUME TextsStory, NEW m, HoldsText(m), NEW t \in TextsAt, NEW new, DOMAIN new = DOMAIN m,
           \A x \in DOMAIN m : x \notin TextBytes(story, t) => new[x] = m[x],
           version >= 5 => new[t + 1] \in 0..(story.memory[t] + 2)
    PROVE  HoldsText(new)
<1>1. \A a \in TextsAt \cup ParsesAt : a \in DOMAIN m /\ a \notin TextBytes(story, t)
    BY StoryOfText, BuffersApart DEF HoldsText
<1>2. \A u \in TextsAt : u # t => u + 1 \in DOMAIN m /\ u + 1 \notin TextBytes(story, t)
    BY StoryOfText, BuffersApart DEF HoldsText
<1> QED
    BY <1>1, <1>2 DEF HoldsText

\* A write within a parse buffer leaves all buffers with their sizes.
LEMMA ParseWritten ==
    ASSUME TextsStory, NEW m, HoldsText(m), NEW p \in ParsesAt, NEW new, DOMAIN new = DOMAIN m,
           \A x \in DOMAIN m : x \notin ParseBytes(story, p) => new[x] = m[x]
    PROVE  HoldsText(new)
<1>1. \A a \in TextsAt \cup ParsesAt : a \in DOMAIN m /\ a \notin ParseBytes(story, p)
    BY StoryOfText, BuffersApart DEF HoldsText
<1>2. \A u \in TextsAt : u + 1 \in DOMAIN m /\ u + 1 \notin ParseBytes(story, p)
    BY StoryOfText, BuffersApart DEF HoldsText
<1> QED
    BY <1>1, <1>2 DEF HoldsText

\* The line is written to its buffer.
LEMMA LineWritten ==
    ASSUME TextsStory, HoldsText(memory), NEW t \in TextsAt, NEW line \in story.lines
    PROVE  /\ HoldsText(StoreLine(memory, version, t, line))
           /\ DOMAIN StoreLine(memory, version, t, line) = DOMAIN memory
           /\ \A x \in DOMAIN memory :
                x \notin TextFootprint(t) => StoreLine(memory, version, t, line)[x] = memory[x]
<1> DEFINE new == StoreLine(memory, version, t, line)
           size == memory[t]
           end == t + 2 + size + IF version >= 5 THEN 1 + memory[t + 1] ELSE 0
<1>1. /\ HasText(memory, version, t) /\ size \in Nat /\ DOMAIN memory \subseteq Nat /\ version \in Int
      /\ size = story.memory[t]
    BY BuffersAre DEF HoldsText
<1>2. line \in Seq(Byte)
    BY StoryOfText
<1>3. /\ DOMAIN new = DOMAIN memory /\ (version >= 5 => new[t + 1] \in 0..(size + 1))
      /\ \A x \in DOMAIN memory : x \notin (t + 1)..end => new[x] = memory[x]
    BY <1>1, <1>2, StoreLineStays
<1>4. TextFootprint(t) = (t + 1)..end
    BY DEF TextFootprint
<1>5. \A x : x \in (t + 1)..end => x \in TextBytes(story, t)
  <2>1. version >= 5 => memory[t + 1] \in 0..(size + 2)
      BY <1>1 DEF HoldsText
  <2>2. t \in Nat
      BY <1>1 DEF HasText
  <2>3. TextBytes(story, t) = (t + 1)..(t + size + IF version >= 5 THEN size + 5 ELSE 2)
    <3>1. TextBytes(story, t) = (t + 1)..(t + story.memory[t]
                                          + IF version >= 5 THEN story.memory[t] + 5 ELSE 2)
        BY Zenon DEF TextBytes, version, header
    <3> HIDE DEF size
    <3> QED
        BY <1>1, <3>1
  <2> HIDE DEF size
  <2> DEFINE reach == t + size + IF version >= 5 THEN size + 5 ELSE 2
  <2>4. end \in Int /\ reach \in Int /\ end <= reach
    <3>1. CASE version >= 5
        BY <1>1, <2>1, <2>2, <3>1
    <3>2. CASE ~(version >= 5)
        BY <1>1, <2>2, <3>2
    <3> QED
        BY <3>1, <3>2
  <2> HIDE DEF end, reach
  <2>5. TextBytes(story, t) = (t + 1)..reach
      BY <2>3 DEF reach
  <2> QED
      BY <2>2, <2>4, <2>5
<1> HIDE DEF end, new
<1>6. version >= 5 => new[t + 1] \in 0..(story.memory[t] + 2)
    BY <1>1, <1>3
<1>7. \A x \in DOMAIN memory : x \notin TextBytes(story, t) => new[x] = memory[x]
    BY <1>3, <1>5
<1>8. HoldsText(new)
    BY <1>3, <1>6, <1>7, TextWritten
<1> QED
    BY <1>3, <1>4, <1>8 DEF new

\* The words are written to their buffer.
LEMMA WordsWritten ==
    ASSUME TextsStory, NEW m, HoldsText(m), NEW t \in TextsAt, NEW p \in ParsesAt, NEW own,
           NEW dictionary, HoldsText(memory)
    PROVE  /\ HoldsText(Tokenise(m, version, t, p, own, dictionary))
           /\ DOMAIN Tokenise(m, version, t, p, own, dictionary) = DOMAIN m
           /\ \A x \in DOMAIN m :
                x \notin ParseFootprint(p) => Tokenise(m, version, t, p, own, dictionary)[x] = m[x]
<1> DEFINE new == Tokenise(m, version, t, p, own, dictionary)
<1>1. /\ IsMemory(m) /\ HasText(m, version, t) /\ version \in Int /\ p \in Int /\ m[p] \in Nat
    BY BuffersAre
<1>2. /\ DOMAIN new = DOMAIN m
      /\ \A x \in DOMAIN m : x \notin (p + 1)..(p + 1 + 4 * m[p]) => new[x] = m[x]
    BY <1>1, TokeniseStays
<1>3. m[p] = story.memory[p] /\ memory[p] = story.memory[p]
    BY DEF HoldsText
<1>4. ParseBytes(story, p) = (p + 1)..(p + 1 + 4 * m[p])
    BY <1>3 DEF ParseBytes
<1>5. p # 0
    BY DEF ParsesAt
<1>6. ParseFootprint(p) = (p + 1)..(p + 1 + 4 * m[p])
    BY <1>3, <1>5, Zenon DEF ParseFootprint
<1> HIDE DEF new
<1>7. HoldsText(new)
    BY <1>2, <1>4, ParseWritten
<1> QED
    BY <1>2, <1>6, <1>7 DEF new

\* Where an instruction that was executed last writes.
Stays ==
    \A a \in DOMAIN memory : memory'[a] # memory[a] => a \in Footprint(last'.name, last'.args)

\* Where READ, TOKENISE and the count that a story preloads may write.
LEMMA TextFootprints ==
    ASSUME NEW t, NEW p, NEW x
    PROVE  /\ Footprint("READ", <<t, p, x>>) = TextFootprint(t) \cup ParseFootprint(p)
           /\ Footprint("TOKENISE", <<t, p, x>>) = ParseFootprint(p)
           /\ Footprint("STOREB", <<t, p>>) = {t + 1}
BY DEF Footprint

\* READ writes to its two buffers, or to the first if there is no second.
LEMMA ReadStays ==
    ASSUME TextsStory, TextHolds, NEW b \in story.buffers, NEW line \in story.lines,
           Read(b[1], b[2], line)
    PROVE  HoldsText(memory') /\ streams' = streams /\ Stays
<1> DEFINE t == b[1]
           p == b[2]
           stored == StoreLine(memory, version, t, line)
           read == Tokenise(stored, version, t, p, header.dictionary, header.dictionary)
<1>1. t \in TextsAt /\ (p # 0 => p \in ParsesAt)
    BY DEF TextsAt, ParsesAt
<1>2. /\ last'.name = "READ" /\ last'.args = <<t, p, line>> /\ streams' = streams
      /\ memory' = IF p = 0 THEN stored ELSE read
  <2>1. /\ last' = [name |-> "READ", args |-> <<t, p, line>>,
                    result |-> IF version >= 5 THEN memory[t + 1] ELSE 0]
        /\ memory' = IF p = 0 THEN stored ELSE read
        /\ streams' = streams
      BY Counts, Zenon DEF Read, Writes, streamVars
  <2> QED
      BY <2>1
<1> HIDE DEF t, p, stored, read
<1>3. HoldsText(memory)
    BY DEF TextHolds
<1>4. /\ HoldsText(stored) /\ DOMAIN stored = DOMAIN memory
      /\ \A x \in DOMAIN memory : x \notin TextFootprint(t) => stored[x] = memory[x]
    BY <1>1, <1>3, LineWritten DEF stored
<1>5. p # 0 => /\ HoldsText(read) /\ DOMAIN read = DOMAIN stored
               /\ \A x \in DOMAIN stored : x \notin ParseFootprint(p) => read[x] = stored[x]
    BY <1>1, <1>3, <1>4, WordsWritten DEF read
<1>6. Footprint(last'.name, last'.args) = TextFootprint(t) \cup ParseFootprint(p)
    BY <1>2, TextFootprints
<1>7. Stays
    BY <1>2, <1>4, <1>5, <1>6 DEF Stays
<1> QED
    BY <1>2, <1>4, <1>5, <1>7

\* TOKENISE writes to its parse buffer.
LEMMA TokeniseStaysInBuffer ==
    ASSUME TextsStory, TextHolds, NEW b \in story.buffers, NEW d, b[2] # 0,
           TokeniseOp(b[1], b[2], d)
    PROVE  HoldsText(memory') /\ streams' = streams /\ Stays
<1> DEFINE t == b[1]
           p == b[2]
           new == Tokenise(memory, version, t, p, header.dictionary, d)
<1>1. t \in TextsAt /\ p \in ParsesAt
    BY DEF TextsAt, ParsesAt
<1>2. /\ last'.name = "TOKENISE" /\ last'.args = <<t, p, d>> /\ streams' = streams
      /\ memory' = memory \/ memory' = new
  <2>1. /\ last' = [name |-> "TOKENISE", args |-> <<t, p, d>>, result |-> 0]
        /\ memory' = memory \/ memory' = new
        /\ streams' = streams
      BY Counts, Zenon DEF TokeniseOp, streamVars
  <2> QED
      BY <2>1
<1> HIDE DEF t, p, new
<1>3. HoldsText(memory)
    BY DEF TextHolds
<1>4. /\ HoldsText(new) /\ DOMAIN new = DOMAIN memory
      /\ \A x \in DOMAIN memory : x \notin ParseFootprint(p) => new[x] = memory[x]
    BY <1>1, <1>3, WordsWritten DEF new
<1>5. Footprint(last'.name, last'.args) = ParseFootprint(p)
    BY <1>2, TextFootprints
<1>6. Stays
    BY <1>2, <1>4, <1>5 DEF Stays
<1> QED
    BY <1>2, <1>3, <1>4, <1>6

\* A count that is preloaded is written to its byte.
LEMMA PreloadStays ==
    ASSUME TextsStory, TextHolds, NEW b \in story.buffers, NEW n \in 0..2, Preload(b[1], n)
    PROVE  HoldsText(memory') /\ streams' = streams /\ Stays
<1> DEFINE t == b[1]
           new == WriteZByte(memory, t + 1, n)
<1>1. t \in TextsAt
    BY DEF TextsAt
<1>2. /\ last'.name = "STOREB" /\ last'.args = <<t, n>> /\ streams' = streams /\ memory' = new
  <2>1. /\ last' = [name |-> "STOREB", args |-> <<t, n>>, result |-> 0]
        /\ memory' = new /\ streams' = streams
      BY Counts, Zenon DEF Preload, Writes, streamVars
  <2> QED
      BY <2>1
<1> HIDE DEF t
<1>3. HoldsText(memory)
    BY DEF TextHolds
<1>4. t \in Nat /\ t + 1 \in DOMAIN memory /\ story.memory[t] \in Nat
    BY <1>1, <1>3, BuffersAre, StoryOfText DEF HasText
<1>5. new = [memory EXCEPT ![t + 1] = n % 256]
    BY DEF WriteZByte
<1>6. n % 256 = n
    OBVIOUS
<1> HIDE DEF new
<1>7. /\ DOMAIN new = DOMAIN memory /\ new[t + 1] = n
      /\ \A x \in DOMAIN memory : x # t + 1 => new[x] = memory[x]
    BY <1>4, <1>5, <1>6
<1>8. t + 1 \in TextBytes(story, t)
  <2>1. TextBytes(story, t)
          = (t + 1)..(t + story.memory[t] + IF version >= 5 THEN story.memory[t] + 5 ELSE 2)
      BY Zenon DEF TextBytes, version, header
  <2> DEFINE reach == t + story.memory[t] + IF version >= 5 THEN story.memory[t] + 5 ELSE 2
  <2>2. reach \in Int /\ t + 1 <= reach
      BY <1>4
  <2> QED
      BY <1>4, <2>1, <2>2
<1>9. n \in 0..(story.memory[t] + 2)
    BY <1>4
<1>10. HoldsText(new)
    BY <1>1, <1>3, <1>7, <1>8, <1>9, TextWritten
<1>11. Footprint(last'.name, last'.args) = {t + 1}
    BY <1>2, TextFootprints
<1>12. Stays
    BY <1>2, <1>7, <1>11 DEF Stays
<1> QED
    BY <1>2, <1>10, <1>12

\* What writes nothing stays anywhere.
LEMMA NothingWritten ==
    ASSUME memory' = memory
    PROVE  Stays
BY DEF Stays

\* Without an open stream printing writes nothing.
LEMMA PrintAddressStays ==
    ASSUME TextHolds, NEW a, PrintAddress(a)
    PROVE  memory' = memory /\ streams' = streams /\ Stays
<1>1. PICK text : Prints(text)
    BY DEF PrintAddress
<1>2. Len(streams.MemoryStreamData) = 0
    BY EmptySeq DEF TextHolds
<1>3. memory' = memory /\ streams' = streams
    BY <1>1, <1>2 DEF Prints
<1> QED
    BY <1>3, NothingWritten

\* The instructions on text write to their buffers, which keep their sizes.
LEMMA TextStays ==
    ASSUME TextsStory, TextHolds, TextNext
    PROVE  TextHolds' /\ Stays
<1> DEFINE Told == HoldsText(memory') /\ streams' = streams /\ Stays
<1>1. ASSUME NEW b \in story.buffers, NEW line \in story.lines, Read(b[1], b[2], line) PROVE Told
    BY <1>1, ReadStays
<1>2. ASSUME NEW b \in story.buffers, NEW d, b[2] # 0, TokeniseOp(b[1], b[2], d) PROVE Told
    BY <1>2, TokeniseStaysInBuffer
<1>3. ASSUME NEW b \in story.buffers, NEW n \in 0..2, Preload(b[1], n) PROVE Told
    BY <1>3, PreloadStays
<1>4. ASSUME NEW a, PrintAddress(a) PROVE Told
    BY <1>4, PrintAddressStays DEF TextHolds
<1> HIDE DEF Told
<1>5. Told
    BY <1>1, <1>2, <1>3, <1>4, Zenon DEF TextNext
<1>6. story' = story
    BY TextStep DEF Counted
<1> QED
    BY <1>5, <1>6
       DEF Told, TextHolds, HoldsText, TextsAt, ParsesAt, version, header

\* A story begins with the buffers it has.
LEMMA InitText == Init => TextInv
<1> SUFFICES ASSUME Init, story.program = "text" PROVE TextHolds
    BY DEF TextInv
<1>1. TextsStory /\ memory = story.memory /\ streams.MemoryStreamData = <<>>
    BY DEF Init, TextsStory
<1> QED
    BY <1>1, StoryOfText DEF TextHolds, HoldsText

-----------------------------------------------------------------------------
(* COPY_TABLE writes to its second table.                                   *)

\* The table that is written, and that it and the one it is copied from are in memory.
CopyTarget(first, second, size) ==
    LET to == IF second = 0 THEN first ELSE second IN to..(to + Magnitude(size) - 1)

CopyFits(D, first, second, size) ==
    /\ first..(first + Magnitude(size) - 1) \subseteq D
    /\ second = 0 \/ second..(second + Magnitude(size) - 1) \subseteq D

\* A copy changes nothing outside the table it writes, whichever way it runs.
LEMMA CopyStays ==
    ASSUME NEW D, NEW m \in [D -> Byte], NEW first \in Nat, NEW second \in Nat, NEW size \in Int,
           CopyFits(D, first, second, size), NEW x \in D, x \notin CopyTarget(first, second, size)
    PROVE  CopyTable(m, first, second, size)[x] = m[x]
<1> USE DEF CopyFits, CopyTarget
<1> DEFINE n == Magnitude(size)
           new == CopyTable(m, first, second, size)
<1>1. n \in Nat /\ n = (IF size < 0 THEN -size ELSE size)
    BY DEF Magnitude
<1>2. CASE second = 0
  <2> DEFINE zeros == [i \in 1..n |-> 0]
  <2>1. zeros \in Seq(Byte) /\ Len(zeros) = n
      BY <1>1 DEF Byte
  <2>2. new = WriteSlice(m, first, zeros)
      BY <1>1, <1>2, Zenon DEF CopyTable
  <2> HIDE DEF zeros, n
  <2>3. x \notin first..(first + Len(zeros) - 1)
      BY <1>2, <2>1 DEF n
  <2> HIDE DEF CopyFits, CopyTarget
  <2>4. \A y \in D : y \notin first..(first + Len(zeros) - 1) =>
                        WriteSlice(m, first, zeros)[y] = m[y]
      BY <2>1, SliceWritten
  <2>5. WriteSlice(m, first, zeros)[x] = m[x]
      BY <2>3, <2>4
  <2> QED
      BY <2>2, <2>5, Zenon
<1>3. CASE second # 0 /\ size >= 0
  <2> DEFINE held == ReadSlice(m, first, first + n)
  <2>1. /\ first..(first + n - 1) \subseteq D /\ size = n
      BY <1>1, <1>3
  <2> HIDE DEF n
  <2>2. held \in Seq(Byte) /\ Len(held) = n
    <3>1. (first + n) - first = n /\ \A i \in 1..n : first + i - 1 \in D
        BY <1>1, <2>1
    <3>2. held = [i \in 1..n |-> m[first + i - 1]]
        BY <3>1 DEF ReadSlice
    <3>3. held \in [1..n -> Byte]
        BY <3>1, <3>2
    <3> HIDE DEF held
    <3> QED
        BY <1>1, <3>3
  <2>3. new = WriteSlice(m, second, held)
      BY <1>1, <1>3, Zenon DEF CopyTable, n
  <2> HIDE DEF held
  <2>4. x \notin second..(second + Len(held) - 1)
      BY <1>3, <2>2 DEF n
  <2> HIDE DEF CopyFits, CopyTarget
  <2>5. \A y \in D : y \notin second..(second + Len(held) - 1) =>
                        WriteSlice(m, second, held)[y] = m[y]
      BY <2>2, SliceWritten
  <2>6. WriteSlice(m, second, held)[x] = m[x]
      BY <2>4, <2>5
  <2> QED
      BY <2>3, <2>6, Zenon
<1>4. CASE second # 0 /\ size < 0
  <2>1. n = -size /\ first + n - 1 = first - size - 1 /\ second + n - 1 = second - size - 1
      BY <1>1, <1>4
  <2>2. first..(first - size - 1) \subseteq D /\ second..(second - size - 1) \subseteq D
      BY <1>4, <2>1
  <2>3. x \notin second..(second - size - 1)
      BY <1>4, <2>1
  <2> QED
      BY <1>4, <2>2, <2>3, CopiedForward
<1> QED
    BY <1>2, <1>3, <1>4

\* Of the instructions on tables only COPY_TABLE writes, to its table.
LEMMA TablesStay ==
    ASSUME StepsInv, story.program = "tables", TablesHold, TablesNext
    PROVE  Stays
<1>1. ASSUME NEW c \in story.copies, CopyOp(c[1], c[2], c[3]) PROVE Stays
  <2> DEFINE first == c[1]
             second == c[2]
             size == c[3]
             D == DOMAIN story.memory
             new == CopyTable(memory, first, second, size)
  <2>1. first \in Nat /\ second \in Nat /\ size \in Int /\ CopyFits(D, first, second, size)
    <3>1. CopyOperands(story, first, second, size)
        BY TablesAssumption DEF StepsInv
    <3> HIDE DEF first, second, size
    <3> QED
        BY <3>1, CopyNamesTables, Zenon DEF CopyFits
  <2>2. memory \in [D -> Byte]
      BY DEF TablesHold, Image
  <2>3. memory' = new /\ last'.name = "COPY_TABLE" /\ last'.args = <<first, second, size>>
    <3>1. /\ memory' = new
          /\ last' = [name |-> "COPY_TABLE", args |-> <<first, second, size>>, result |-> 0]
        BY <1>1, Counts, Zenon DEF CopyOp, Writes
    <3> QED
        BY <3>1
  <2> HIDE DEF first, second, size, D
  <2>4. Footprint(last'.name, last'.args) = CopyTarget(first, second, size)
      BY <2>3 DEF Footprint, CopyTarget
  <2>5. \A x \in D : x \notin CopyTarget(first, second, size) => new[x] = memory[x]
      BY <2>1, <2>2, CopyStays
  <2> HIDE DEF new
  <2>6. DOMAIN memory = D
      BY <2>2
  <2> QED
      BY <2>3, <2>4, <2>5, <2>6 DEF Stays
<1>2. ASSUME NEW c \in story.scans, ScanOp(c[1], c[2], c[3], c[4]) PROVE Stays
    BY <1>2, NothingWritten DEF ScanOp, Writes
<1>3. ASSUME NEW c \in story.prints, PrintOp(c[1], c[2], c[3], c[4]) PROVE Stays
  <2>1. PICK text : Prints(text)
      BY <1>3 DEF PrintOp
  <2>2. Len(streams.MemoryStreamData) = 0
      BY EmptySeq DEF TablesHold
  <2> QED
      BY <2>1, <2>2, NothingWritten DEF Prints
<1> QED
    BY <1>1, <1>2, <1>3, Zenon DEF TablesNext

-----------------------------------------------------------------------------
(* A text goes behind the one before it in its table.                       *)

\* A slice that is written changes nothing outside.
LEMMA SliceStays ==
    ASSUME NEW m, NEW a, NEW s, NEW x \in DOMAIN m, x \notin a..(a + Len(s) - 1)
    PROVE  WriteSlice(m, a, s)[x] = m[x]
BY DEF WriteSlice

\* A text that is printed goes behind the texts in the table of the newest stream.
LEMMA PrintStays ==
    ASSUME StepsInv, story.program = "streams", StreamsHold, NEW text \in story.texts, PrintText(text)
    PROVE  Stays
<1> DEFINE n == Len(promise)
           data == streams.MemoryStreamData
           bytes == [i \in DOMAIN text |-> text[i] % 256]
           at == promise[n].table + 2 + Len(promise[n].text)
<1>1. n \in Nat /\ Len(data) = n
    BY LenProperties DEF StreamsHold
<1>2. Prints(text) /\ last'.name = "PRINT" /\ last'.args = <<text>>
  <2>1. last' = [name |-> "PRINT", args |-> <<text>>, result |-> 0]
      BY Counts DEF PrintText
  <2> QED
      BY <2>1 DEF PrintText
<1>3. CASE n = 0
    BY <1>1, <1>2, <1>3, NothingWritten DEF Prints
<1>4. CASE n # 0
  <2>1. n \in 1..Len(promise) /\ promise # <<>>
      BY <1>1, <1>4, EmptySeq
  <2>2. data[n].ptr = at
      BY <2>1 DEF StreamsHold
  <2>3. memory' = WriteSlice(memory, at, bytes)
      BY <1>1, <1>2, <1>4, <2>2 DEF Prints
  <2>4. text \in Seq(Byte)
      BY StoryOfStreams
  <2>5. Len(bytes) = Len(text)
      BY <2>4, AsBytes
  <2>6. Footprint(last'.name, last'.args) = at..(at + Len(text) - 1)
      BY <1>2, <2>1 DEF Footprint, Last
  <2> HIDE DEF at, bytes
  <2>7. \A x \in DOMAIN memory : x \notin at..(at + Len(text) - 1) => memory'[x] = memory[x]
      BY <2>3, <2>5, SliceStays
  <2> QED
      BY <2>6, <2>7 DEF Stays
<1> QED
    BY <1>3, <1>4

\* Closing a stream writes the two bytes of the size.
LEMMA CloseStays ==
    ASSUME StepsInv, story.program = "streams", StreamsHold, CloseMemoryStream
    PROVE  Stays
<1> DEFINE n == Len(promise)
           data == streams.MemoryStreamData
           t == promise[n].table
<1>1. Len(data) = n /\ Len(data) > 0 /\ n \in 1..Len(promise)
    BY LenProperties DEF StreamsHold, CloseMemoryStream
<1>2. data[n].baseAddress = t
    BY <1>1 DEF StreamsHold
<1>3. PICK v : memory' = WriteHalfWord(memory, t, v)
    BY <1>1, <1>2 DEF CloseMemoryStream
<1>4. last'.name = "CLOSE" /\ last'.args = <<t>>
  <2>1. last' = [name |-> "CLOSE", args |-> <<t>>, result |-> promise[n]]
      BY <1>1, Counts DEF CloseMemoryStream
  <2> QED
      BY <2>1
<1>5. Footprint(last'.name, last'.args) = t..(t + 1)
    BY <1>4 DEF Footprint
<1>6. t \in t..(t + 1) /\ t + 1 \in t..(t + 1)
    BY <1>1, StreamAt
<1> HIDE DEF t
<1>7. \A x \in DOMAIN memory : x \notin {t, t + 1} => memory'[x] = memory[x]
    BY <1>3 DEF WriteHalfWord
<1> QED
    BY <1>5, <1>6, <1>7 DEF Stays

\* The instructions on streams write to the table of the newest stream.
LEMMA StreamsStay ==
    ASSUME StepsInv, story.program = "streams", StreamsHold, StreamsNext
    PROVE  Stays
<1>1. ASSUME NEW text \in story.texts, PrintText(text) PROVE Stays
    BY <1>1, PrintStays
<1>2. ASSUME NEW t, OpenMemoryStream(t) PROVE Stays
    BY <1>2, NothingWritten DEF OpenMemoryStream, machineVars
<1>3. ASSUME CloseMemoryStream PROVE Stays
    BY <1>3, CloseStays
<1>4. ASSUME NEW k, SelectStream(k) PROVE Stays
    BY <1>4, NothingWritten DEF SelectStream, machineVars
<1>5. ASSUME SaveUndo PROVE Stays
    BY <1>5, NothingWritten DEF SaveUndo, machineVars
<1>6. ASSUME RestoreUndo PROVE Stays
  <2>1. last' = [name |-> "RESTORE_UNDO", args |-> <<>>, result |-> 2]
      BY <1>6, Counts DEF RestoreUndo
  <2>2. Footprint(last'.name, last'.args) = DOMAIN memory
      BY <2>1 DEF Footprint
  <2> QED
      BY <2>2 DEF Stays
<1> QED
    BY <1>1, <1>2, <1>3, <1>4, <1>5, <1>6, Zenon DEF StreamsNext

-----------------------------------------------------------------------------
(* PUT_PROP, SET_ATTR and CLEAR_ATTR write to the entry or the property.    *)

\* PUT_PROP writes to the bytes of the property.
LEMMA PutStays ==
    ASSUME ObjectsStory, ShortPropertiesHaveOneSizeByte, Keeps(memory, promise), NEW o \in Objects,
           NEW id \in story.ids, NEW value \in story.values, PutProp(o, id, value)
    PROVE  Stays
<1>1. Agrees(memory)
    BY DEF Keeps
<1>2. /\ memory' = SetProperty(memory, header, o, id, value)
      /\ last'.name = "PUT_PROP" /\ last'.args = <<o, id, value>>
  <2>1. last' = [name |-> "PUT_PROP", args |-> <<o, id, value>>, result |-> 0]
      BY Counts DEF PutProp
  <2> QED
      BY <2>1 DEF PutProp, Writes
<1>3. CASE \A i \in DOMAIN Layout[o] : Layout[o][i].id # id
    BY <1>1, <1>2, <1>3, NothingToSet, NothingWritten
<1>4. ASSUME NEW i \in DOMAIN Layout[o], Layout[o][i].id = id PROVE Stays
  <2> DEFINE p == Layout[o][i]
             Bytes(q) == IF q.header = 2 /\ q.length <= 2 THEN (q.data - 1)..q.data
                         ELSE q.data..(q.data + q.length - 1)
             places == {j \in DOMAIN Layout[o] : Layout[o][j].id = id}
  <2>1. p.length <= 2 => p.header = 1
      BY <1>4 DEF ShortPropertiesHaveOneSizeByte
  <2>2. p.length \in Nat \ {0} /\ p.data \in Nat
      BY DataIs
  <2>3. memory' = IF p.length = 1 THEN WriteZByte(memory, p.data, value)
                  ELSE IF p.length = 2 THEN WriteHalfWord(memory, p.data, value)
                  ELSE memory
      BY <1>1, <1>2, <1>4, <2>1, SetPropertyIs
  <2>4. Footprint(last'.name, last'.args) = UNION {Bytes(Layout[o][j]) : j \in places}
      BY <1>2 DEF Footprint
  <2>5. i \in places
      BY <1>4
  <2>6. Bytes(p) = p.data..(p.data + p.length - 1)
      BY <2>1
  <2> HIDE DEF Bytes, places
  <2>7. p.data..(p.data + p.length - 1) \subseteq Footprint(last'.name, last'.args)
      BY <2>4, <2>5, <2>6
  <2> HIDE DEF p
  <2>8. CASE p.length = 1
    <3>1. memory' = [memory EXCEPT ![p.data] = value % 256]
        BY <2>3, <2>8 DEF WriteZByte
    <3>2. p.data \in p.data..(p.data + p.length - 1)
        BY <2>2
    <3> QED
        BY <2>7, <3>1, <3>2 DEF Stays
  <2>9. CASE p.length = 2
    <3>1. memory' = [memory EXCEPT ![p.data] = (value \div 256) % 256, ![p.data + 1] = value % 256]
        BY <2>3, <2>9 DEF WriteHalfWord
    <3>2. /\ p.data \in p.data..(p.data + p.length - 1)
          /\ p.data + 1 \in p.data..(p.data + p.length - 1)
        BY <2>2, <2>9
    <3> QED
        BY <2>7, <3>1, <3>2 DEF Stays
  <2>10. CASE p.length \notin {1, 2}
      BY <2>3, <2>10, NothingWritten
  <2> QED
      BY <2>8, <2>9, <2>10
<1> QED
    BY <1>3, <1>4

\* SET_ATTR and CLEAR_ATTR write to the attributes in the entry of the object.
LEMMA AttributeStays ==
    ASSUME ObjectsStory, NEW o \in Objects, NEW n \in story.attributes, NEW on \in BOOLEAN,
           ChangeAttribute(o, n, on)
    PROVE  Stays
<1> DEFINE base == ObjectBase(header, o)
<1>1. n \in Nat /\ AttributeBytes(header) \in {4, 6} /\ base \in Nat
    BY StoryOfObjects, EntriesAre
<1>2. /\ memory' = SetAttribute(memory, header, o, n, on)
      /\ last'.name \in {"SET_ATTR", "CLEAR_ATTR"} /\ last'.args = <<o, n>>
  <2>1. last' = [name |-> IF on THEN "SET_ATTR" ELSE "CLEAR_ATTR", args |-> <<o, n>>, result |-> 0]
      BY Counts DEF ChangeAttribute
  <2> QED
      BY <2>1 DEF ChangeAttribute, Writes
<1>3. Footprint(last'.name, last'.args) = {base + k : k \in 0..(AttributeBytes(header) - 1)}
    BY <1>2 DEF Footprint
<1> HIDE DEF base
<1>4. CASE n >= 8 * AttributeBytes(header)
    BY <1>2, <1>4, NothingWritten DEF SetAttribute
<1>5. CASE ~(n >= 8 * AttributeBytes(header))
  <2>1. PICK c : memory' = [memory EXCEPT ![base + n \div 8] = c]
      BY <1>2, <1>5 DEF SetAttribute, base
  <2>2. n \div 8 \in 0..(AttributeBytes(header) - 1)
      BY <1>1, <1>5
  <2>3. base + n \div 8 \in Footprint(last'.name, last'.args)
      BY <1>3, <2>2
  <2> QED
      BY <2>1, <2>3 DEF Stays
<1> QED
    BY <1>4, <1>5

\* The instructions on objects write to the entry or the property.
LEMMA ObjectsStay ==
    ASSUME StepsInv, story.program = "objects", ObjectsInv, ShortPropertiesHaveOneSizeByte, ObjectsNext
    PROVE  Stays
<1>1. ObjectsStory /\ Keeps(memory, promise)
    BY DEF ObjectsInv, ObjectsStory, StepsInv
<1>2. ASSUME NEW o \in DOMAIN Layout, NEW id \in story.ids, NEW value \in story.values,
             PutProp(o, id, value)
      PROVE  Stays
    BY <1>1, <1>2, PutStays DEF Objects
<1>3. ASSUME NEW o \in DOMAIN Layout, NEW n \in story.attributes, NEW on \in BOOLEAN,
             ChangeAttribute(o, n, on)
      PROVE  Stays
    BY <1>1, <1>3, AttributeStays DEF Objects
<1> QED
    BY <1>2, <1>3, Zenon DEF ObjectsNext

-----------------------------------------------------------------------------
(* Every instruction writes to its table.                                   *)

StaysInv ==
    /\ StepsInv /\ StreamsInv /\ TablesHoldTheirText /\ TablesInv /\ ObjectsInv /\ TextInv
    /\ story.program = "objects" => ShortPropertiesHaveOneSizeByte

\* The buffers keep their sizes.
LEMMA TextInductive ==
    ASSUME StepsInv, TextInv, [Next]_vars
    PROVE  TextInv'
<1>1. CASE Next
  <2>1. story' = story
      BY <1>1, OneStep
  <2>2. CASE story.program = "text"
    <3>1. TextNext
        BY <1>1, <2>2, CodeStep, ObjectsStep, TablesStep, SaveStep, StreamsStep DEF Next, Counted
    <3>2. TextHolds'
        BY <2>2, <3>1, TextStays DEF TextInv, TextsStory, StepsInv
    <3> QED
        BY <3>2 DEF TextInv
  <2>3. CASE story.program # "text"
      BY <2>1, <2>3 DEF TextInv
  <2> QED
      BY <2>2, <2>3
<1>2. CASE UNCHANGED vars
  <2>1. story' = story /\ memory' = memory /\ streams' = streams
      BY <1>2 DEF vars, machineVars, streamVars
  <2>2. TextHolds' = TextHolds
      BY <2>1 DEF TextHolds, HoldsText, TextsAt, ParsesAt, version, header
  <2> QED
      BY <2>1, <2>2 DEF TextInv
<1> QED
    BY <1>1, <1>2

\* What the theorem needs holds in every state.
LEMMA StaysInductive ==
    ASSUME StaysInv, [Next]_vars
    PROVE  StaysInv'
<1>1. StepsInv' /\ StreamsInv' /\ TablesHoldTheirText' /\ TablesInv' /\ ObjectsInv' /\ TextInv'
  <2>1. StepsInv /\ StreamsInv /\ TablesHoldTheirText /\ TablesInv /\ ObjectsInv /\ TextInv
      BY DEF StaysInv
  <2>2. StepsInv' /\ StreamsInv' /\ TablesHoldTheirText'
      BY <2>1, StepsInductive, StreamsInductive
  <2>3. TablesInv' /\ ObjectsInv' /\ TextInv'
      BY <2>1, TablesInductive, ObjectsInductive, TextInductive
  <2> QED
      BY <2>2, <2>3
<1>2. story' = story
  <2>1. CASE Next
      BY <2>1, OneStep
  <2>2. CASE UNCHANGED vars
      BY <2>2 DEF vars
  <2> QED
      BY <2>1, <2>2
<1>3. ShortPropertiesHaveOneSizeByte' = ShortPropertiesHaveOneSizeByte
    BY <1>2, StepKeepsLayout
<1> QED
    BY <1>1, <1>2, <1>3 DEF StaysInv

\* Each kind of instruction writes to its own place.
LEMMA NextStays ==
    ASSUME StaysInv, Next, story.program # "code"
    PROVE  Stays
<1>1. ASSUME TextNext PROVE Stays
  <2>1. story.program = "text"
      BY <1>1, TextStep DEF Counted
  <2> QED
      BY <1>1, <2>1, TextStays DEF StaysInv, TextInv, TextsStory, StepsInv
<1>2. ASSUME StreamsNext PROVE Stays
  <2>1. story.program = "streams"
      BY <1>2, StreamsStep DEF Counted
  <2> QED
      BY <1>2, <2>1, StreamsStay DEF StaysInv, StreamsInv
<1>3. ASSUME ObjectsNext PROVE Stays
  <2>1. story.program = "objects"
      BY <1>3, ObjectsStep DEF Counted
  <2> QED
      BY <1>3, <2>1, ObjectsStay DEF StaysInv
<1>4. ASSUME TablesNext PROVE Stays
  <2>1. story.program = "tables"
      BY <1>4, TablesStep DEF Counted
  <2> QED
      BY <1>4, <2>1, TablesStay DEF StaysInv, TablesInv
<1>5. ASSUME SaveNext PROVE Stays
  <2>1. memory' = memory
      BY <1>5 DEF SaveNext, Play, Export, LoseTail, Import, machineVars
  <2> QED
      BY <2>1, NothingWritten
<1>6. ~CodeNext
    BY CodeStep DEF Counted
<1> QED
    BY <1>1, <1>2, <1>3, <1>4, <1>5, <1>6, Zenon DEF Next

\* An instruction that fills a table, a buffer or a property writes nowhere else, for any
\* line, text, dictionary, layout of properties and contents of the parse buffers, and after
\* any instructions before it.  Layouts are those in which a property that PUT_PROP changes
\* has one size byte, as for ObjectsAlwaysKeepWhatWasPut.
THEOREM WritesAlwaysStayInTheirTable ==
    Spec /\ (story.program = "objects" => ShortPropertiesHaveOneSizeByte)
        => WritesStayInTheirTable
<1>1. Init /\ (story.program = "objects" => ShortPropertiesHaveOneSizeByte) => StaysInv
    BY InitHolds, InitTables, InitObjects, InitText DEF StaysInv
<1>2. StaysInv /\ [Next]_vars => StaysInv'
    BY StaysInductive
<1>3. StaysInv /\ [Next]_vars => [story.program # "code" => Stays]_vars
    BY NextStays
<1>4. WritesStayInTheirTable <=> [][story.program # "code" => Stays]_vars
    BY DEF WritesStayInTheirTable, Stays
<1> QED
    BY <1>1, <1>2, <1>3, <1>4, PTL DEF Spec
=============================================================================

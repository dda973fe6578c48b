---------------------------- MODULE MCInstructions ----------------------------
(****************************************************************************)
(* Small stories for module Instructions: a program that has each form of   *)
(* instruction and type of operand, begun at any of its instructions with   *)
(* several stacks and locals, and memory images for the other kinds.        *)
(* Encoded words are written down as z-characters.                          *)
(****************************************************************************)
EXTENDS Promises

\* A memory with the given bytes at the given addresses, and zeros elsewhere.
Image(size, pieces) ==
    LET Piece(p) == [a \in p[1]..(p[1] + Len(p[2]) - 1) |-> p[2][a - p[1] + 1]]
    IN FoldLeft(LAMBDA m, p : Piece(p) @@ m, [a \in 0..(size - 1) |-> 0], pieces)

Header(v) == [version |-> v, abbreviations |-> 0, length |-> 0, objects |-> 0, globals |-> 0,
              dictionary |-> 0]

-----------------------------------------------------------------------------
(* Code.  An instruction may have a branch of one or two bytes, to the one  *)
(* so many places from it or, of a distance of 0, out of the routine with   *)
(* the value given; a jump is a branch without bytes.                       *)

\* Where the programs keep their global variables.
GlobalsAt == 220

L(n) == [type |-> 0, value |-> n]
C(n) == [type |-> 1, value |-> n]
V(n) == [type |-> 2, value |-> n]

Ins(count, number, operands) ==
    [count |-> count, number |-> number, operands |-> operands, long |-> FALSE,
     result |-> <<>>, distance |-> 0, value |-> 0, sense |-> 0, bytes |-> 0]
Literal(zchrs) == [Ins("OP0", 2, <<>>) EXCEPT !.result = Packed(zchrs)]
Into(i, v) == [i EXCEPT !.result = <<v>>]
Long(i) == [i EXCEPT !.long = TRUE]
Branch(i, distance, sense, bytes) ==
    [i EXCEPT !.distance = distance, !.sense = sense, !.bytes = bytes]
Leave(i, value, sense, bytes) == [Branch(i, 0, sense, bytes) EXCEPT !.value = value]

\* One of each instruction; up to version 4 some are others, or are not there.
Repertoire(v) ==
    LET Since5(i) == IF v < 5 THEN Ins("OP0", 4, <<>>) ELSE i
    IN <<
       Into(Ins("OP2", 20, <<V(0), L(65530)>>), 0),
       Into(Long(Ins("OP2", 21, <<V(1), C(5)>>)), 1),
       Into(Ins("OP2", 22, <<L(65533), V(0)>>), 16),
       Into(Ins("OP2", 23, <<V(1), C(2)>>), 0),
       Into(Ins("OP2", 23, <<L(32768), L(65535)>>), 1),
       Into(Ins("OP2", 24, <<V(1), L(65533)>>), 0),
       Into(Ins("OP2", 24, <<V(1), V(2)>>), 0),
       Into(Ins("OP2", 9, <<V(1), V(0)>>), 0),
       Into(Long(Ins("OP2", 8, <<V(0), V(1)>>)), 0),
       Into(IF v < 5 THEN Ins("OP1", 15, <<V(0)>>) ELSE Ins("VAR", 24, <<V(0)>>), 0),
       Branch(Ins("OP2", 1, <<V(0), V(0), C(22)>>), 2, 1, 1),
       Branch(Long(Ins("OP2", 2, <<V(1), C(3)>>)), 2, 0, 2),
       Branch(Ins("OP2", 3, <<C(3), V(1)>>), -2, 1, 2),
       Leave(Ins("OP1", 0, <<V(1)>>), 0, 0, 1),
       Leave(Ins("OP1", 0, <<L(0)>>), 1, 1, 2),
       Branch(Ins("OP2", 7, <<V(0), C(1)>>), 3, 0, 1),
       Branch(Ins("OP0", 15, <<>>), 2, 1, 2),
       Branch(Ins("OP0", 13, <<>>), 2, 1, 1),
       Literal(<<12, 20, 4, 6, 5, 20>>),
       Branch(Ins("OP1", 12, <<L(0)>>), -3, 1, 0),
       Ins("OP1", 5, <<C(0)>>),
       Ins("OP1", 6, <<C(1)>>),
       Branch(Ins("OP2", 5, <<C(0), V(0)>>), -1, 0, 2),
       Branch(Long(Ins("OP2", 4, <<C(1), C(9)>>)), 4, 1, 1),
       Ins("OP2", 13, <<C(0), V(0)>>),
       Into(Ins("OP1", 14, <<C(0)>>), 0),
       Ins("VAR", 8, <<V(1)>>),
       Ins("VAR", 9, <<C(0)>>),
       Ins("VAR", 1, <<L(GlobalsAt), C(1), V(0)>>),
       Into(Ins("OP2", 16, <<L(GlobalsAt), C(1)>>), 0),
       Into(Ins("OP2", 16, <<L(65535), C(0)>>), 0),
       Ins("OP0", 4, <<>>),
       IF v < 5 THEN Ins("OP0", 9, <<>>) ELSE Ins("OP0", 4, <<>>),
       Into(Ins("VAR", 12, <<C(0), C(1), C(2), C(3), V(0), L(5)>>), 0),
       Since5(Ins("VAR", 25, <<L(0), C(1)>>)),
       Since5(Into(Ins("EXT", 2, <<V(1), L(65534)>>), 0)),
       Since5(Into(Ins("EXT", 3, <<V(1), L(65534)>>), 0)),
       Since5(Into(Ins("EXT", 2, <<V(1), V(2)>>), 0)),
       Since5(Into(Ins("EXT", 3, <<V(1), V(2)>>), 0)),
       Since5(Into(Ins("EXT", 2, <<V(1), L(32768)>>), 0)),
       Since5(Into(Ins("EXT", 12, <<V(2)>>), 1)),
       Since5(Ins("OP1", 15, <<C(0)>>)), Ins("OP0", 4, <<>>)>>

Program3 == Repertoire(3)
Program5 == Repertoire(5)

\* The assembler.
TypeByte(o, from) ==
    LET T(i) == IF i <= Len(o) THEN o[i].type ELSE 3
    IN 64 * T(from) + 16 * T(from + 1) + 4 * T(from + 2) + T(from + 3)

TypeBytes(i) ==
    <<TypeByte(i.operands, 1)>>
    \o (IF i.count = "VAR" /\ i.number \in {12, 26} THEN <<TypeByte(i.operands, 5)>> ELSE <<>>)

OperandBytes(o) == FlattenSeq([k \in DOMAIN o |-> IF o[k].type = 0
                                                 THEN <<o[k].value \div 256, o[k].value % 256>>
                                                 ELSE <<o[k].value>>])

Opcode(i) ==
    CASE i.count = "OP0" -> <<176 + i.number>>
      [] i.count = "OP1" -> <<128 + 16 * i.operands[1].type + i.number>>
      [] i.count = "OP2" /\ i.long ->
           <<64 * (i.operands[1].type - 1) + 32 * (i.operands[2].type - 1) + i.number>>
      [] i.count = "OP2" /\ ~i.long -> <<192 + i.number>> \o TypeBytes(i)
      [] i.count = "VAR" -> <<224 + i.number>> \o TypeBytes(i)
      [] i.count = "EXT" -> <<190, i.number>> \o TypeBytes(i)

Body(i) == Opcode(i) \o OperandBytes(i.operands) \o i.result

BranchBytes(i, offset) ==
    CASE i.bytes = 1 -> <<128 * i.sense + 64 + offset>>
      [] i.bytes = 2 -> LET o == offset % 16384 IN <<128 * i.sense + o \div 256, o % 256>>
      [] OTHER -> <<>>

\* The program, which ends with an instruction of its own to be branched to.
CodeStory(v) ==
    LET program == IF v = 3 THEN Program3 ELSE Program5
        Size(k) == Len(Body(program[k])) + program[k].bytes
        start[k \in 1..(Len(program) + 1)] == IF k = 1 THEN 0 ELSE start[k - 1] + Size(k - 1)
        leads == {k \in DOMAIN program : program[k].distance # 0}
        Offset(k) ==
            IF k \in leads THEN start[k + program[k].distance] - (start[k] + Size(k)) + 2
            ELSE program[k].value
        Bytes(k) ==
            LET i == program[k]
            IN IF Is(i, "OP1", {12})
               THEN Body([i EXCEPT !.operands = <<L(Word(Offset(k)))>>])
               ELSE Body(i) \o BranchBytes(i, Offset(k))
    IN [program |-> "code", bound |-> 5, header |-> [Header(v) EXCEPT !.globals = GlobalsAt,
                                    !.length = IF v = 3 THEN 300 ELSE 1000],
        memory |-> Image(GlobalsAt + 480,
                         <<<<0, FlattenSeq([k \in DOMAIN program |-> Bytes(k)])>>,
                           <<GlobalsAt, <<0, 7, 1, 2>>>>>>),
        starts |-> [k \in DOMAIN program |-> start[k]], size |-> start[Len(program) + 1],
        targets |-> [k \in leads |-> start[k + program[k].distance]],
        entries |-> {start[k] : k \in DOMAIN program},
        stacks |-> {<<>>, <<44, 33, 22, 22>>, <<5, 65535, 2>>},
        locals |-> {<<65529, 0>>, <<3, 2>>, <<32768, 65535>>, <<>>}]

-----------------------------------------------------------------------------
(* Text.                                                                    *)

Pad(zchrs, n) == Packed([i \in 1..n |-> IF i <= Len(zchrs) THEN zchrs[i] ELSE 5])

Go == <<103, 111>>
Alphabet9 == <<97, 98, 99, 100, 101, 102, 103, 104, 105>>
EAcute == <<195, 169>>
Loud == <<32, 71, 79, 32, 32, 120>>
LoudAcute == <<195, 137, 32>> \o Go

MCLines == {<<>>, Go, Go \o <<44>> \o Go, Loud, EAcute \o <<32>> \o Go, LoudAcute,
          SubSeq(Alphabet9, 1, 8), <<120, 46, 44, 44, 46, 120>>,
          Go \o <<32, 120, 32>> \o Go \o <<32, 120, 32>> \o Go, Alphabet9 \o <<106, 107, 108>>}

\* The main dictionary is at 10, a small one at 160, one with a negative count at 180;
\* the text buffer at 50, parse buffers at 80 and 92, strings from 100 on.
TextStory(v) ==
    LET n == EncodedLength(v)
        length == EncodedBytes(v) + 1
        Entry(i) == 15 + (i - 1) * length
    IN [program |-> "text", bound |-> 2,
        header |-> [Header(v) EXCEPT !.dictionary = 10, !.abbreviations = 130, !.length = 100],
        memory |-> Image(200,
          <<<<10, <<1, 44, length, 0, 4>>>>,
            <<Entry(1), Pad(<<12, 20>>, n) \o <<1>>>>,
            <<Entry(2), Pad([i \in 1..n |-> 5 + i], n) \o <<2>>>>,
            <<Entry(3), Pad(<<5, 19>>, n) \o <<3>>>>,
            <<Entry(4), Pad(<<5, 6, 5, 10>>, n) \o <<4>>>>,
            <<50, <<IF v >= 5 THEN 10 ELSE 8>>>>, <<80, <<2>>>>, <<92, <<1>>>>,
            <<100, Pad(<<4, 12, 20, 0, 5, 6, 5, 10>>, 9)>>,
            <<110, Pad(<<1, 0, 5, 18, 1, 1>>, 6)>>, <<116, Pad(<<6, 5, 6>>, 3)>>,
            <<120, Pad(<<17, 6, 18, 21>>, 6)>>, <<124, Pad(<<1, 0, 16>>, 3)>>,
            <<130, <<0, 60, 0, 62>>>>,
            <<160, <<1, 46, length, 0, 1>>>>, <<165, Pad(<<29>>, n)>>,
            <<180, <<0, length, 255, 255>>>>>>),
        buffers |-> {<<50, 80>>, <<50, 92>>, <<50, 0>>}, lines |-> MCLines,
        lower |-> [line \in MCLines |->
                     CASE line = Loud -> <<32, 103, 111, 32, 32, 120>>
                       [] line = LoudAcute -> EAcute \o <<32>> \o Go
                       [] OTHER -> line],
        dictionaries |-> {10, 160, 180},
        words |-> [d \in {10, 160} |->
                     IF d = 160 THEN <<[text |-> <<120>>, address |-> 165]>>
                     ELSE <<[text |-> Go, address |-> Entry(1)],
                            [text |-> SubSeq(Alphabet9, 1, n), address |-> Entry(2)],
                            [text |-> <<44>>, address |-> Entry(3)],
                            [text |-> EAcute, address |-> Entry(4)]>>],
        strings |-> [a \in {100, 110, 116} |->
                       CASE a = 100 -> <<71, 111, 32, 233>>
                         [] a = 110 -> <<108, 97, 109, 112, 46, 107>>
                         [] a = 116 -> <<97>>]]

\* Strings of a first and a second version story, and a story of 64 kilobytes.
PrintStory(v, length) ==
    [program |-> "text", bound |-> 1,
     header |-> [Header(v) EXCEPT !.abbreviations = 30, !.length = length],
     memory |-> Image(60,
       <<<<2, Pad(CASE v = 1 -> <<4, 6, 7, 2, 7, 1>> [] v = 2 -> <<1, 0, 2, 8, 8>>
                     [] v = 3 -> <<1, 0>>, 6)>>,
         <<8, Pad(<<5, 8, 8, 3, 9, 9>>, 6)>>, <<30, <<0, 20>>>>,
         <<40, Pad(<<17, 6, 18, 21>>, 6)>>>>),
     buffers |-> {}, lines |-> {}, dictionaries |-> {}, words |-> <<>>,
     strings |-> CASE v = 1 -> [a \in {2, 8} |-> IF a = 2 THEN <<65, 66, 48, 10>>
                                                ELSE <<49, 49, 68, 50>>]
                   [] v = 2 -> [a \in {2, 8} |-> IF a = 2 THEN <<108, 97, 109, 112, 67, 99>>
                                                ELSE <<48, 48, 68, 49>>]
                   [] v = 3 -> [a \in {2} |-> <<108, 97, 109, 112>>]]

-----------------------------------------------------------------------------
(* Objects, tables, streams and saves.                                      *)

Property(id, data, length, size) ==
    [id |-> id, data |-> data, length |-> length, header |-> size]

Defaults == <<0, <<1, 1, 1, 2, 1, 3, 1, 4, 1, 5, 1, 6, 1, 7, 1, 8, 1, 9>>>>

\* The second object of the version 3 story has no name; that of the version 5 story
\* has a property of two bytes with two size bytes.
ObjectStory(v) ==
    [program |-> "objects", bound |-> 2, header |-> Header(v),
     memory |-> Image(IF v = 3 THEN 105 ELSE 260,
       IF v = 3
       THEN <<Defaults, <<62, <<0, 0, 0, 0, 0, 2, 0, 0, 80>>>>, <<71, <<0, 0, 0, 0, 1, 0, 0, 0, 95>>>>,
              <<80, <<1, 128, 0, 37, 2, 2, 3, 9, 66, 1, 2, 3, 0>>>>, <<95, <<0, 4, 8, 0>>>>>>
       ELSE <<Defaults, <<138, <<0, 160>>>>, <<152, <<0, 180>>>>,
              <<160, <<1, 128, 0, 168, 132, 9, 8, 7, 6, 71, 2, 2, 3, 9, 0>>>>,
              <<180, <<1, 128, 0, 137, 130, 0, 0, 4, 8, 0>>>>>>),
     layout |->
       IF v = 3 THEN <<<<Property(5, 84, 2, 1), Property(3, 87, 1, 1), Property(2, 89, 3, 1)>>,
                       <<Property(4, 97, 1, 1)>>>>
       ELSE <<<<Property(40, 165, 4, 2), Property(7, 170, 2, 1), Property(3, 173, 1, 1)>>,
              <<Property(9, 185, 2, 2), Property(4, 188, 1, 1)>>>>,
     ids |-> {1, 2, 3, 4, 5, 7, 9}, values |-> {0, 513},
     attributes |-> {0, 6, 9, 31, 40, 63}]

TableStory ==
    [program |-> "tables", bound |-> 3, header |-> Header(5),
     memory |-> [a \in 0..31 |-> IF a = 24 THEN 4 ELSE 64 + a],
     copies |-> {<<2, 5, 4>>, <<5, 2, 4>>, <<2, 5, -7>>, <<5, 2, -7>>, <<2, 2, 3>>, <<3, 0, 4>>,
                 <<3, 0, -4>>, <<2, 3, -5>>, <<10, 2, -3>>},
     scans |-> {<<69, 2, 8, 1>>, <<69, 2, 4, 2>>, <<16705, 0, 3, 130>>, <<18502, 2, 4, 131>>,
                <<321, 0, 8, 1>>, <<69, 2, 8, 257>>, <<17734, 1, 4, 386>>},
     prints |-> {<<2, 3, 2, 1>>, <<1, 2, 3, 0>>, <<24, 2, 2, 1>>, <<24, 3, 2, 0>>}]

StreamStory ==
    [program |-> "streams", bound |-> 5, header |-> Header(5), memory |-> Image(60, <<>>),
     texts |-> {<<72, 105>>, <<233>>}, longest |-> 2, tables |-> {4, 30}]

Frame(at, tag, type, values, saved) ==
    [pc |-> at, framePointer |-> tag, routineType |-> type, numValuesPassed |-> Len(values),
     locals |-> values, routineStack |-> saved]

SaveStory ==
    LET outer == Frame(9, 0, 0, <<>>, <<2, 3>>)
        inner == Frame(5, 2, 1, <<1, 0, 3>>, <<>>)
        State(base, frames) ==
            [staticMemoryBase |-> base, dynamicMemory |-> [i \in 1..base |-> i % 2],
             frames |-> frames]
    IN [program |-> "save", bound |-> 5, header |-> Header(5), memory |-> Image(1, <<>>),
        games |-> {State(2, <<outer>>), State(2, <<outer, inner>>), State(1, <<outer, outer>>),
                   State(2, <<outer, inner, inner, inner>>),
                   State(2, <<Frame(9, 0, 0, <<>>, <<1, 1, 1, 1>>)>>)},
        longest |-> 70]

-----------------------------------------------------------------------------
Played ==
    {CodeStory(3), CodeStory(5), TextStory(3), TextStory(5), PrintStory(1, 100),
     PrintStory(2, 100), PrintStory(3, 32780), ObjectStory(3), ObjectStory(5), TableStory,
     StreamStory, SaveStory}

\* TLC evaluates Played once, and MCStories each time it is used.
MCStories == Played
===============================================================================

------------------------------ MODULE TextBuffer ------------------------------
(****************************************************************************)
(* What READ and TOKENISE do to the text and parse buffers of a story       *)
(* (ZMachine.read and ZMachine.Tokenise) and the dictionary they search.    *)
(* The player's line is the sequence of bytes of its UTF-8 form, and its    *)
(* characters are those below 256.                                          *)
(****************************************************************************)
EXTENDS ZString

-----------------------------------------------------------------------------
(* The dictionary: separators, entry length, count, entries.  The code      *)
(* keeps the three numbers, and the places of separators and entries, from  *)
(* when it parsed the dictionary; the separators and words are in memory.   *)

Separators(m, dictionary) == ToSet(ReadSlice(m, dictionary + 1, dictionary + 1 + m[dictionary]))
EntryLength(m, dictionary) == m[dictionary + 1 + m[dictionary]]
EntryCount(m, dictionary) == Signed(ReadHalfWord(m, dictionary + 2 + m[dictionary]))

Entries(m, dictionary) ==
    [i \in 1..EntryCount(m, dictionary) |->
        dictionary + 4 + m[dictionary] + (i - 1) * EntryLength(m, dictionary)]

EncodedBytes(version) == IF version > 3 THEN 6 ELSE 4

\* Dictionary.Find: the address of the first entry with this encoding, or 0.
Find(m, version, dictionary, encoded) ==
    LET entries == Entries(m, dictionary)
        found == {i \in DOMAIN entries :
                    ReadSlice(m, entries[i], entries[i] + EncodedBytes(version)) = encoded}
    IN IF found = {} THEN 0 ELSE Word(entries[Min(found)])

-----------------------------------------------------------------------------
(* READ: the line goes to the text buffer.                                  *)

\* A line has characters of one byte, and of two bytes of which the first is 194 or 195.
Lines == {line \in Seq(Byte) :
             \A i \in DOMAIN line :
                LET second == i > 1 /\ line[i - 1] \in {194, 195}
                IN IF second THEN line[i] \in 128..191
                   ELSE /\ line[i] \in (0..127) \cup {194, 195}
                        /\ line[i] >= 194 => i < Len(line)}

\* strings.ToLower: A to Z, and the capitals from 192 to 222 but the one that is a sign.
Capital(line, i) ==
    \/ line[i] \in 65..90
    \/ i > 1 /\ line[i - 1] = 195 /\ line[i] \in (128..158) \ {151}
ToLower(line) == [i \in DOMAIN line |-> IF Capital(line, i) THEN line[i] + 32 ELSE line[i]]

Stored(b) == IF b \in (32..126) \cup (155..251) THEN b ELSE Space

\* Where the first character goes; from version 5 on, after what is there already.
TextStart(m, version, text) == IF version >= 5 THEN text + 2 + m[text + 1] ELSE text + 1

\* Faulty variant: the line is not cut to the size of the buffer.
StoreLine_Uncut(m, version, text, line) ==
    LET start == TextStart(m, version, text)
        taken == [i \in DOMAIN line |-> Stored(ToLower(line)[i])]
        stored == WriteSlice(m, start, Append(taken, 0))
    IN IF version >= 5 THEN WriteZByte(stored, text + 1, Len(taken)) ELSE stored

\* One character more than the buffer's size byte says is taken, and a zero after
\* it; from version 5 on the byte before the text counts the new characters.
StoreLine(m, version, text, line) ==
    LET start == TextStart(m, version, text)
        count == Min({Len(line), m[text] + 1})
        taken == [i \in 1..count |-> Stored(ToLower(line)[i])]
        stored == WriteSlice(m, start, Append(taken, 0))
    IN IF version >= 5 THEN WriteZByte(stored, text + 1, count) ELSE stored

-----------------------------------------------------------------------------
(* TOKENISE.  A word is the pair of its first address and the one after it. *)

\* The address the text ends at, or 0 if it does not end within memory.
TextEnd(m, version, text) ==
    LET zeros == {a \in DOMAIN m : a > text /\ m[a] = 0}
    IN IF version >= 5
       THEN IF text + 2 + m[text + 1] \in DOMAIN m THEN text + 2 + m[text + 1] ELSE 0
       ELSE IF zeros = {} THEN 0 ELSE Min(zeros)

\* Faulty variant: a separator ends a word and is no word itself.
Scan_DropsSeparator(m, separators, s, a) ==
    LET flushed == IF a > s.start THEN Append(s.words, <<s.start, a>>) ELSE s.words
    IN CASE m[a] \in separators \cup {Space} -> [words |-> flushed, start |-> a + 1]
         [] OTHER -> s

\* A scan of the text: the words before it and the start of the one it is in.
Scan(m, separators, s, a) ==
    LET flushed == IF a > s.start THEN Append(s.words, <<s.start, a>>) ELSE s.words
    IN CASE m[a] = Space -> [words |-> flushed, start |-> a + 1]
         [] m[a] \in separators -> [words |-> Append(flushed, <<a, a + 1>>), start |-> a + 1]
         [] OTHER -> s

\* The words of the text; the last one is lost when the text has no end.
Words(m, version, text, separators) ==
    LET first == text + IF version >= 5 THEN 2 ELSE 1
        end == TextEnd(m, version, text)
        read[k \in Nat] ==
            IF k = 0 THEN [words |-> <<>>, start |-> first]
            ELSE Scan(m, separators, read[k - 1], first + k - 1)
        all == read[(IF end = 0 THEN Cardinality(DOMAIN m) ELSE end) - first]
    IN IF end > all.start THEN Append(all.words, <<all.start, end>>) ELSE all.words

\* []rune(string(bytes)): characters of one byte, and of two from 194 to 223 on;
\* any other byte is read as the replacement character.
Runes(bytes) ==
    LET Lead(i) == bytes[i] \in 194..223 /\ i < Len(bytes) /\ bytes[i + 1] \in 128..191
        One(i) == CASE bytes[i] < 128 -> <<bytes[i]>>
                    [] Lead(i) -> <<64 * (bytes[i] - 192) + bytes[i + 1] - 128>>
                    [] i > 1 /\ Lead(i - 1) -> <<>>
                    [] OTHER -> <<65533>>
    IN FlattenSeq([i \in DOMAIN bytes |-> One(i)])

\* The parse buffer gets, for each word, its dictionary entry, length and place.
\* The separators are always those of the story's own dictionary.
Tokenise(m, version, text, parse, own, dictionary) ==
    LET found == Words(m, version, text, Separators(m, own))
        kept == SubSeq(found, 1, Min({Len(found), m[parse]}))
        Entry(w) ==
            LET e == Find(m, version, dictionary,
                          Encode(version, Runes(ReadSlice(m, w[1], w[2]))))
            IN <<e \div 256, e % 256, (w[2] - w[1]) % 256, (w[1] - text) % 256>>
    IN WriteSlice(m, parse + 1,
                  [k \in 1..(1 + 4 * Len(kept)) |->
                     IF k = 1 THEN Len(kept) ELSE Entry(kept[(k + 2) \div 4])[((k - 2) % 4) + 1]])
===============================================================================

-------------------------------- MODULE Ztable --------------------------------
(****************************************************************************)
(* COPY_TABLE, SCAN_TABLE and PRINT_TABLE (package ztable).                 *)
(****************************************************************************)
EXTENDS Memory

\* Faulty variant: every copy goes forward, byte by byte.
CopyTable_Forward(m, first, second, size) ==
    LET n == IF size < 0 THEN -size ELSE size
        copied[i \in 0..n] ==
            IF i = 0 THEN m
            ELSE [copied[i - 1] EXCEPT ![second + i - 1] = copied[i - 1][first + i - 1]]
    IN IF second = 0 THEN WriteSlice(m, first, [i \in 1..n |-> 0]) ELSE copied[n]

\* No second table: the first is cleared.  A size of at least 0: the copy is of the
\* first table as it was.  A negative size: forward, byte by byte, so that a table
\* that overlaps is overwritten while it is read.
CopyTable(m, first, second, size) ==
    LET n == IF size < 0 THEN -size ELSE size
        copied[i \in 0..n] ==
            IF i = 0 THEN m
            ELSE [copied[i - 1] EXCEPT ![second + i - 1] = copied[i - 1][first + i - 1]]
    IN CASE second = 0 -> WriteSlice(m, first, [i \in 1..n |-> 0])
         [] second # 0 /\ size >= 0 -> WriteSlice(m, second, ReadSlice(m, first, first + n))
         [] OTHER -> copied[n]

\* The form gives the length of a field and, in the bit above it, whether a word or a
\* byte of it is compared; its other bits are ignored.
CheckWord(form) == (form \div 128) % 2 = 1

\* The address of the first field that holds test, or 0.
ScanTable(m, test, table, length, form) ==
    LET field == form % 128
        At(i) == IF CheckWord(form) THEN ReadHalfWord(m, table + i * field) ELSE m[table + i * field]
        found == {i \in 0..(length - 1) : At(i) = test}
    IN IF field = 0 \/ found = {} THEN 0
       ELSE table + field * CHOOSE i \in found : \A j \in found : i <= j

\* Faulty variant: the rows of the table are taken to follow each other.
PrintTable_NoSkip(m, table, width, height, skip) ==
    LET printed[i \in 0..m[table]] ==
            IF i = m[table] THEN <<>>
            ELSE (IF i % width = 0 /\ i > 0 THEN <<10>> ELSE <<>>) \o
                 (IF i % width = 0 /\ i > 0 /\ i \div width = height THEN <<>>
                  ELSE <<m[table + i]>> \o printed[i + 1])
    IN printed[0]

\* The rows, each but the first after a new line.  The first byte of the table is
\* both its first character and a limit on the number of characters printed, and what
\* is skipped up to a row is a number of 16 bits.
PrintTable(m, table, width, height, skip) ==
    LET printed[i \in 0..m[table]] ==
            IF i = m[table] THEN <<>>
            ELSE (IF i % width = 0 /\ i > 0 THEN <<10>> ELSE <<>>) \o
                 (IF i % width = 0 /\ i > 0 /\ i \div width = height THEN <<>>
                  ELSE <<m[table + i + Word(skip * (i \div width))]>> \o printed[i + 1])
    IN printed[0]
===============================================================================

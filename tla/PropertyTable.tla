---------------------------- MODULE PropertyTable -----------------------------
(****************************************************************************)
(* Attributes and properties of objects (package zobject), as functions of  *)
(* a memory m and a header h with the fields version and objects, the       *)
(* address of the object table.  The links of the object tree are module    *)
(* ObjectTree's.                                                            *)
(****************************************************************************)
EXTENDS Memory, FiniteSets

\* GetObject: where an object's entry is, and the table of its properties.
ObjectBase(h, object) ==
    IF h.version >= 4 THEN h.objects + 126 + (object - 1) * 14
    ELSE h.objects + 62 + (object - 1) * 9

PropertyPointer(m, h, object) ==
    ReadHalfWord(m, ObjectBase(h, object) + IF h.version >= 4 THEN 12 ELSE 7)

-----------------------------------------------------------------------------
(* Attributes: bit 7 - n % 8 of byte n \div 8.                              *)

AttributeBytes(h) == IF h.version >= 4 THEN 6 ELSE 4

Bit(n) == 2^(7 - (n % 8))
HasBit(byte, n) == (byte \div Bit(n)) % 2 = 1

\* The mask of an attribute above 63 is empty, and every object passes its test;
\* one between the width of the entry and 63 is never there.
TestAttribute(m, h, object, n) ==
    CASE n >= 64 -> TRUE
      [] n < 8 * AttributeBytes(h) -> HasBit(m[ObjectBase(h, object) + n \div 8], n)
      [] OTHER -> FALSE

\* Faulty variant: attributes are numbered from the low end of each byte.
SetAttribute_FromTheLowEnd(m, h, object, n, on) ==
    IF n >= 8 * AttributeBytes(h) THEN m
    ELSE LET a == ObjectBase(h, object) + n \div 8
             had == HasBit(m[a], 7 - (n % 8))
         IN [m EXCEPT ![a] = IF had = on THEN @ ELSE IF on THEN @ + Bit(7 - (n % 8))
                             ELSE @ - Bit(7 - (n % 8))]

\* SetAttribute and ClearAttribute: the bytes of the entry are written back.
SetAttribute(m, h, object, n, on) ==
    IF n >= 8 * AttributeBytes(h) THEN m
    ELSE LET a == ObjectBase(h, object) + n \div 8
             had == HasBit(m[a], n)
         IN [m EXCEPT ![a] = IF had = on THEN @ ELSE IF on THEN @ + Bit(n) ELSE @ - Bit(n)]

-----------------------------------------------------------------------------
(* Properties.                                                              *)

\* GetPropertyByAddress: id, length, and length of the header before the data.
\* Up to version 3 the size byte is 32 * (length - 1) + id; later there are two
\* if the top bit is set, and one with the length in its second bit otherwise.
GetPropertyByAddress(m, h, a) ==
    LET size == m[a]
        length == IF m[a + 1] % 64 = 0 THEN 64 ELSE m[a + 1] % 64
        Property(id, len, header) ==
            [id |-> id, length |-> len, header |-> header, address |-> a,
             dataAddress |-> a + header]
    IN CASE h.version <= 3 -> Property(size % 32, size \div 32 + 1, 1)
         [] h.version >= 4 /\ size >= 128 -> Property(size % 64, length, 2)
         [] OTHER -> Property(size % 64, ((size \div 64) % 2) + 1, 1)

\* The first property comes after the name, whose length is counted in words.
FirstProperty(m, h, object) ==
    LET pointer == PropertyPointer(m, h, object) IN pointer + 1 + 2 * m[pointer]

\* Faulty variant: the walk steps over the data and forgets a second size byte.
Walk_OneSizeByte(m, h, object) ==
    LET at[k \in Nat] ==
            IF k = 0 THEN FirstProperty(m, h, object)
            ELSE at[k - 1] + 1 + GetPropertyByAddress(m, h, at[k - 1]).length
    IN at

\* Where GetProperty and SetProperty are after k properties.
Walk(m, h, object) ==
    LET at[k \in Nat] ==
            IF k = 0 THEN FirstProperty(m, h, object)
            ELSE LET p == GetPropertyByAddress(m, h, at[k - 1])
                 IN at[k - 1] + p.header + p.length
    IN at

\* They stop at the property, or at the zero behind the last one.
PropertyAddress(m, h, object, id) ==
    LET at == Walk(m, h, object)
        Stops(k) == m[at[k]] = 0 \/ GetPropertyByAddress(m, h, at[k]).id = id
    IN at[CHOOSE k \in DOMAIN m : (\A j \in 0..(k - 1) : ~Stops(j)) /\ Stops(k)]

\* GetProperty: a property the object lacks has the default as its data, and no
\* address and no length.
GetProperty(m, h, object, id) ==
    LET a == PropertyAddress(m, h, object, id)
    IN IF m[a] # 0 THEN GetPropertyByAddress(m, h, a)
       ELSE [id |-> id, length |-> 0, header |-> 0, address |-> 0, dataAddress |-> 0]

\* GET_PROP: one byte, or the first word of the data, or the default.
PropertyValue(m, h, object, id) ==
    LET p == GetProperty(m, h, object, id)
    IN CASE p.dataAddress = 0 -> ReadHalfWord(m, h.objects + 2 * (id - 1))
         [] p.length = 1 -> m[p.dataAddress]
         [] OTHER -> ReadHalfWord(m, p.dataAddress)

\* SetProperty writes after the first size byte, whether there is a second or not.
\* A property that is not there or is longer than a word is warned about.
SetProperty(m, h, object, id, value) ==
    LET a == PropertyAddress(m, h, object, id)
        p == GetPropertyByAddress(m, h, a)
    IN CASE m[a] # 0 /\ p.length = 1 -> WriteZByte(m, a + 1, value)
         [] m[a] # 0 /\ p.length = 2 -> WriteHalfWord(m, a + 1, value)
         [] OTHER -> m

\* GET_NEXT_PROP.  The first property of an object without a name is not found.
GetNextProperty(m, h, object, id) ==
    LET p == GetProperty(m, h, object, id)
    IN CASE id = 0 /\ m[PropertyPointer(m, h, object)] = 0 -> 0
         [] id = 0 /\ m[PropertyPointer(m, h, object)] # 0 ->
              GetPropertyByAddress(m, h, FirstProperty(m, h, object)).id
         [] id # 0 /\ p.dataAddress = 0 -> 0
         [] OTHER -> GetPropertyByAddress(m, h, p.dataAddress + p.length).id

\* Faulty variant: every property is taken to have one size byte.
GetPropertyLength_OneSizeByte(m, h, address) ==
    LET before == m[address - 1]
    IN CASE address = 0 -> 0
         [] address # 0 /\ h.version <= 3 -> before \div 32 + 1
         [] OTHER -> ((before \div 64) % 2) + 1

\* GET_PROP_LEN: worked back from the byte before the data.
GetPropertyLength(m, h, address) ==
    LET before == m[address - 1]
    IN CASE address = 0 -> 0
         [] address # 0 /\ h.version <= 3 -> before \div 32 + 1
         [] address # 0 /\ h.version > 3 /\ before >= 128 ->
              IF before % 64 = 0 THEN 64 ELSE before % 64
         [] OTHER -> ((before \div 64) % 2) + 1
===============================================================================

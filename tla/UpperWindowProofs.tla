--------------------------- MODULE UpperWindowProofs ---------------------------
(****************************************************************************)
(* Proofs about UpperWindow, for terminals, splits, cursors and texts of    *)
(* any size.  The rows are treated once for any set of bytes they are made  *)
(* of: with all bytes that gives their types, with the one-byte characters  *)
(* alone that nothing can be missing when they are drawn.                   *)
(****************************************************************************)
EXTENDS UpperWindow, SequenceTheorems, FiniteSetTheorems, TLAPS

-----------------------------------------------------------------------------
(* Sequences.                                                               *)

LEMMA FunctionIsSeq ==
    ASSUME NEW S, NEW n \in Nat, NEW f \in [1..n -> S]
    PROVE  f \in Seq(S) /\ Len(f) = n
<1>1. f \in Seq(S) /\ DOMAIN f = 1..n
    BY SeqDef
<1> QED
    BY <1>1

LEMMA ElementsMakeSeq ==
    ASSUME NEW S, NEW T, NEW s \in Seq(S), \A i \in 1..Len(s) : s[i] \in T
    PROVE  s \in Seq(T)
<1>1. Len(s) \in Nat /\ s = [i \in 1..Len(s) |-> s[i]]
    BY LenProperties
<1>2. [i \in 1..Len(s) |-> s[i]] \in [1..Len(s) -> T]
    OBVIOUS
<1> QED
    BY <1>1, <1>2, FunctionIsSeq

LEMMA FrontFits ==
    ASSUME NEW S, NEW s \in Seq(S), NEW n \in 0..Len(s)
    PROVE  Front(s, n) \in Seq(S) /\ Len(Front(s, n)) = n
BY SubSeqProperties DEF Front

LEMMA RestFits ==
    ASSUME NEW S, NEW s \in Seq(S), NEW n \in Nat
    PROVE  /\ SubSeq(s, n + 1, Len(s)) \in Seq(S)
           /\ Len(SubSeq(s, n + 1, Len(s))) = IF n <= Len(s) THEN Len(s) - n ELSE 0
BY SubSeqProperties

-----------------------------------------------------------------------------
(* Rows made of the bytes in B.                                             *)

RowsOf(B, w) == {r \in [text : Seq(B), styles : Nat] : Len(r.text) = w /\ r.styles = w}

LEMMA SpacesFit ==
    ASSUME NEW B, "one" \in B, NEW n \in Nat
    PROVE  Spaces(n) \in Seq(B) /\ Len(Spaces(n)) = n
<1>1. Spaces(n) \in [1..n -> B]
    BY DEF Spaces
<1> QED
    BY <1>1, FunctionIsSeq

LEMMA BlankRowsFit ==
    ASSUME NEW B, "one" \in B, NEW k \in Nat, NEW n \in Nat
    PROVE  BlankRows(k, n) \in Seq(RowsOf(B, n)) /\ Len(BlankRows(k, n)) = k
<1>1. Blank(n) \in RowsOf(B, n)
    BY SpacesFit DEF Blank, RowsOf
<1>2. BlankRows(k, n) \in [1..k -> RowsOf(B, n)]
    BY <1>1 DEF BlankRows
<1> QED
    BY <1>2, FunctionIsSeq

\* A row keeps its length when a text is written over it.
LEMMA OverwrittenFits ==
    ASSUME NEW B, width \in Nat, NEW row \in RowsOf(B, width), NEW segment \in Seq(B),
           NEW x \in Nat
    PROVE  Overwritten(row, segment, x) \in RowsOf(B, width)
<1> DEFINE L == Len(row.text)
           k == Len(segment)
           left == Front(row.text, x)
           right == SubSeq(row.text, x + k + 1, L)
           s == left \o segment \o right
<1>1. row.text \in Seq(B) /\ L = width /\ row.styles = width /\ k \in Nat
      /\ row = [text |-> row.text, styles |-> row.styles]
    BY DEF RowsOf
<1>2. CASE x >= L
    BY <1>2 DEF Overwritten
<1>3. CASE ~(x >= L)
  <2>1. left \in Seq(B) /\ Len(left) = x
      BY <1>1, <1>3, FrontFits
  <2>2. /\ right \in Seq(B)
        /\ Len(right) = IF x + k <= L THEN L - (x + k) ELSE 0
      BY <1>1, RestFits
  <2> HIDE DEF left, right
  <2>3. left \o segment \in Seq(B) /\ Len(left \o segment) = x + k
      BY <2>1, ConcatProperties
  <2>4. s \in Seq(B) /\ Len(s) = x + k + Len(right)
      BY <2>2, <2>3, ConcatProperties
  <2> HIDE DEF s
  <2>5. Len(s) >= width /\ Len(s) \in Nat
      BY <1>1, <2>2, <2>4
  <2>6. Smaller(Len(s), width) = width /\ width \in 0..Len(s)
      BY <2>5 DEF Smaller
  <2>7. Front(s, width) \in Seq(B) /\ Len(Front(s, width)) = width
      BY <2>4, <2>6, FrontFits
  <2>8. Overwritten(row, segment, x) = [row EXCEPT !.text = Front(s, Smaller(Len(s), width))]
      BY <1>3 DEF Overwritten, s, left, right
  <2>9. Overwritten(row, segment, x) = [text |-> Front(s, width), styles |-> width]
      BY <1>1, <2>6, <2>8
  <2> QED
      BY <2>7, <2>9 DEF RowsOf
<1> QED
    BY <1>2, <1>3

\* A row is cut or padded to the width it is fitted to.
LEMMA FittedFits ==
    ASSUME NEW B, "one" \in B, NEW v \in Nat, NEW w \in Nat, NEW row \in RowsOf(B, v)
    PROVE  Fitted(row, w) \in RowsOf(B, w)
<1>1. row.text \in Seq(B) /\ Len(row.text) = v /\ row.styles = v
    BY DEF RowsOf
<1>2. CASE w < v
  <2>1. Front(row.text, w) \in Seq(B) /\ Len(Front(row.text, w)) = w
      BY <1>1, <1>2, FrontFits
  <2> QED
      BY <1>1, <1>2, <2>1 DEF Fitted, RowsOf
<1>3. CASE ~(w < v)
  <2> DEFINE d == w - v
             pad == Spaces(d)
  <2>1. d \in Nat /\ v + d = w
      BY <1>3
  <2>2. pad \in Seq(B) /\ Len(pad) = d
      BY <2>1, SpacesFit
  <2>3. Fitted(row, w) = [text |-> row.text \o pad, styles |-> w]
      BY <1>1, <1>3 DEF Fitted
  <2>4. row.text \o pad \in Seq(B) /\ Len(row.text \o pad) = Len(row.text) + Len(pad)
    <3> HIDE DEF pad, d
    <3> QED
        BY <1>1, <2>2, ConcatProperties
  <2>5. Len(row.text \o pad) = w
    <3> HIDE DEF pad, d
    <3> QED
        BY <1>1, <2>1, <2>2, <2>4
  <2> QED
      BY <2>3, <2>4, <2>5 DEF RowsOf
<1> QED
    BY <1>2, <1>3

-----------------------------------------------------------------------------
(* What each step does to the rows, whatever bytes they are made of.        *)

\* Every row has a byte of B and a style for each column.
RowsHold(B) == rows \in Seq(RowsOf(B, width))

LEMMA TextKeepsRows ==
    ASSUME NEW B, width \in Nat, RowsHold(B), m \in Models, pipe \in Seq(Messages), OnText,
           ~m.lower => Head(pipe).text \in Seq(Seq(B))
    PROVE  RowsHold(B)' /\ Len(rows') = Len(rows)
<1>1. width' = width
    BY DEF OnText, Handle
<1>2. CASE rows' = rows
    BY <1>1, <1>2 DEF RowsHold
<1>3. CASE rows' # rows
  <2> DEFINE text == Head(pipe).text
             n == Len(rows)
             F(r) == IF r - m.y \in 1..Len(text)
                     THEN Overwritten(rows[r], text[r - m.y], IF r - m.y = 1 THEN m.x ELSE 0)
                     ELSE rows[r]
  <2>1. /\ ~m.lower
        /\ m.x >= 0 \/ m.y \notin 0..(n - 1)
        /\ rows' = [r \in 1..n |-> F(r)]
      BY <1>3 DEF OnText, Panic
  <2>2. text \in Seq(Seq(B)) /\ m.x \in Nat \cup {-1} /\ m.y \in Nat \cup {-1} /\ n \in Nat
      BY <2>1 DEF Models, RowsHold
  <2> HIDE DEF text
  <2>3. ASSUME NEW r \in 1..n PROVE F(r) \in RowsOf(B, width)
    <3>1. rows[r] \in RowsOf(B, width)
        BY DEF RowsHold
    <3>2. CASE r - m.y \in 1..Len(text)
      <4>1. text[r - m.y] \in Seq(B)
          BY <2>2, <3>2
      <4>2. r - m.y = 1 => m.x \in Nat
          BY <2>1, <2>2
      <4>3. (IF r - m.y = 1 THEN m.x ELSE 0) \in Nat
          BY <4>2
      <4>4. F(r) = Overwritten(rows[r], text[r - m.y], IF r - m.y = 1 THEN m.x ELSE 0)
          BY <3>2
      <4> QED
          BY <3>1, <4>1, <4>3, <4>4, OverwrittenFits
    <3> QED
        BY <3>1, <3>2
  <2>4. [r \in 1..n |-> F(r)] \in [1..n -> RowsOf(B, width)]
      BY <2>3
  <2>5. rows' \in Seq(RowsOf(B, width)) /\ Len(rows') = n
      BY <2>1, <2>2, <2>4, FunctionIsSeq
  <2> QED
      BY <1>1, <2>5 DEF RowsHold
<1> QED
    BY <1>2, <1>3

\* A screen model brings the rows of its split, in version 3 by clearing those there are.
LEMMA ScreenKeepsRows ==
    ASSUME NEW B, "one" \in B, width \in Nat, RowsHold(B), pipe \in Seq(Messages), OnScreen
    PROVE  /\ RowsHold(B)'
           /\ \/ crashed' = "split" /\ version = 3 /\ UNCHANGED <<m, rows>>
              \/ /\ m' = Head(pipe).model /\ m' \in Models
                 /\ Draw
                 /\ IF version = 3 THEN Len(rows') = Len(rows) /\ m'.height <= Len(rows)
                                   ELSE Len(rows') = m'.height
<1> DEFINE model == Head(pipe).model
           n == Len(rows)
           k == model.height
<1>1. width' = width /\ pipe # <<>> /\ Head(pipe).type = "screen"
    BY DEF OnScreen, Handle
<1>2. Head(pipe) \in Messages
    BY <1>1
<1>3. model \in Models
    BY <1>1, <1>2 DEF Messages
<1>4. k \in Nat /\ n \in Nat
    BY <1>3 DEF Models, RowsHold
<1>5. rows \in Seq(RowsOf(B, width))
    BY DEF RowsHold
<1>6. CASE version = 3 /\ n < k
  <2>1. crashed' = "split" /\ UNCHANGED <<m, rows>>
      BY <1>6 DEF OnScreen, Panic
  <2> QED
      BY <1>1, <1>6, <2>1 DEF RowsHold
<1>7. CASE ~(version = 3 /\ n < k)
  <2>1. /\ m' = model
        /\ rows' = CASE n = k -> rows
                      [] version = 3 /\ n # k ->
                           BlankRows(k, width) \o SubSeq(rows, k + 1, n)
                      [] version # 3 /\ n > k -> Front(rows, k)
                      [] OTHER -> rows \o BlankRows(k - n, width)
        /\ Draw
      BY <1>7 DEF OnScreen
  <2>2. BlankRows(k, width) \in Seq(RowsOf(B, width)) /\ Len(BlankRows(k, width)) = k
      BY <1>4, BlankRowsFit
  <2> DEFINE Kept == /\ rows' \in Seq(RowsOf(B, width))
                     /\ IF version = 3 THEN Len(rows') = n /\ k <= n ELSE Len(rows') = k
  <2> SUFFICES Kept
      BY <1>1, <1>3, <2>1 DEF RowsHold
  <2> HIDE DEF k, n, model
  <2>3. CASE n = k
    <3>1. rows' = rows
        BY <1>4, <2>1, <2>3
    <3> QED
        BY <1>4, <1>5, <2>3, <3>1 DEF n
  <2>4. CASE version = 3 /\ n # k
    <3> DEFINE top == BlankRows(k, width)
               rest == SubSeq(rows, k + 1, n)
    <3>1. k < n
        BY <1>4, <1>7, <2>4
    <3>2. rows' = top \o rest
        BY <2>1, <2>4
    <3>3. rest \in Seq(RowsOf(B, width)) /\ Len(rest) = n - k
        BY <1>4, <1>5, <3>1, RestFits DEF n
    <3>4. top \o rest \in Seq(RowsOf(B, width)) /\ Len(top \o rest) = Len(top) + Len(rest)
      <4> HIDE DEF top, rest
      <4> QED
          BY <2>2, <3>3, ConcatProperties DEF top
    <3>5. Len(top) = k
        BY <2>2
    <3>6. Len(top \o rest) = n
      <4> HIDE DEF top, rest
      <4> QED
          BY <1>4, <3>3, <3>4, <3>5
    <3>7. rows' \in Seq(RowsOf(B, width)) /\ Len(rows') = n
        BY <3>2, <3>4, <3>6
    <3> QED
        BY <1>4, <2>4, <3>1, <3>7
  <2>5. CASE version # 3 /\ n > k
    <3>1. rows' = Front(rows, k)
        BY <1>4, <2>1, <2>5
    <3>2. k \in 0..Len(rows)
        BY <1>4, <2>5 DEF n
    <3>3. rows' \in Seq(RowsOf(B, width)) /\ Len(rows') = k
        BY <1>5, <3>1, <3>2, FrontFits
    <3> QED
        BY <2>5, <3>3
  <2>6. CASE version # 3 /\ n < k
    <3> DEFINE more == BlankRows(k - n, width)
    <3>1. rows' = rows \o more
        BY <1>4, <2>1, <2>6
    <3>2. k - n \in Nat /\ n + (k - n) = k
        BY <1>4, <2>6
    <3>3. more \in Seq(RowsOf(B, width)) /\ Len(more) = k - n
        BY <3>2, BlankRowsFit
    <3>4. rows \o more \in Seq(RowsOf(B, width)) /\ Len(rows \o more) = n + Len(more)
      <4> HIDE DEF more
      <4> QED
          BY <1>5, <3>3, ConcatProperties DEF n
    <3>5. Len(rows \o more) = k
      <4> HIDE DEF more
      <4> QED
          BY <3>2, <3>3, <3>4
    <3> QED
        BY <2>6, <3>1, <3>4, <3>5
  <2> QED
      BY <1>4, <2>3, <2>4, <2>5, <2>6
<1> QED
    BY <1>6, <1>7

\* Erasing the upper window blanks the rows of the split, or there are too few of them.
LEMMA EraseKeepsRows ==
    ASSUME NEW B, "one" \in B, width \in Nat, RowsHold(B), m \in Models, OnErase
    PROVE  /\ RowsHold(B)' /\ Len(rows') = Len(rows) /\ m' = m
           /\ Draw \/ (crashed' = "erase" /\ Len(rows) < m.height)
<1> DEFINE v == Head(pipe).value
           n == Len(rows)
           k == m.height
           Kept == rows' \in Seq(RowsOf(B, width)) /\ Len(rows') = n
<1>1. width' = width
    BY DEF OnErase, Handle
<1>2. rows \in Seq(RowsOf(B, width)) /\ n \in Nat /\ k \in Nat
    BY DEF RowsHold, Models
<1>3. CASE v \in {-2, 1} /\ n < k
  <2>1. crashed' = "erase" /\ UNCHANGED <<m, rows>>
      BY <1>3 DEF OnErase, Panic
  <2> QED
      BY <1>1, <1>3, <2>1 DEF RowsHold
<1>4. CASE ~(v \in {-2, 1} /\ n < k)
  <2>1. rows' = CASE v \in {-2, 1} -> BlankRows(k, width) \o SubSeq(rows, k + 1, n)
                  [] v = -1 -> BlankRows(n, width)
                  [] OTHER -> rows
      BY <1>4 DEF OnErase
  <2>0. m' = m /\ Draw
      BY <1>4 DEF OnErase
  <2> SUFFICES Kept
      BY <1>1, <2>0 DEF RowsHold
  <2> HIDE DEF k, n, v
  <2>2. CASE v \in {-2, 1}
    <3> DEFINE top == BlankRows(k, width)
               rest == SubSeq(rows, k + 1, n)
    <3>1. k <= n
        BY <1>2, <1>4, <2>2
    <3>2. rows' = top \o rest
      <4>1. v # -1
          BY <2>2
      <4> QED
          BY <2>1, <2>2, <4>1
    <3>3. rest \in Seq(RowsOf(B, width)) /\ Len(rest) = n - k
        BY <1>2, <3>1, RestFits DEF n
    <3>4. top \in Seq(RowsOf(B, width)) /\ Len(top) = k
        BY <1>2, BlankRowsFit
    <3> HIDE DEF top, rest
    <3>5. top \o rest \in Seq(RowsOf(B, width)) /\ Len(top \o rest) = Len(top) + Len(rest)
        BY <3>3, <3>4, ConcatProperties
    <3>6. Len(top \o rest) = n
        BY <1>2, <3>3, <3>4, <3>5
    <3> QED
        BY <3>2, <3>5, <3>6
  <2>3. CASE v = -1
      BY <1>2, <2>1, <2>3, BlankRowsFit
  <2>4. CASE v \notin {-2, 1} /\ v # -1
    <3>1. rows' = rows
        BY <2>1, <2>4
    <3> QED
        BY <1>2, <3>1 DEF n
  <2> QED
      BY <2>2, <2>3, <2>4
<1> QED
    BY <1>3, <1>4

\* The rows left on a lower terminal, or added for the split, are fitted to its width.
LEMMA ResizeKeepsRows ==
    ASSUME NEW B, "one" \in B, width \in Nat, RowsHold(B), m \in Models,
           NEW w \in Nat, NEW h \in Nat, Resize(w, h)
    PROVE  /\ RowsHold(B)'
           /\ Len(rows') = IF h < Len(rows) THEN h
                           ELSE Len(rows) + Smaller(h - Len(rows), m.height)
<1> DEFINE n == Len(rows)
           more == BlankRows(Smaller(h - n, m.height), w)
           kept == IF h < n THEN Front(rows, h) ELSE rows \o more
           Either == RowsOf(B, width) \cup RowsOf(B, w)
           L == IF h < n THEN h ELSE n + Smaller(h - n, m.height)
<1>1. /\ width' = w
      /\ rows' = [i \in 1..Len(kept) |-> Fitted(kept[i], w)]
    BY DEF Resize
<1>2. rows \in Seq(RowsOf(B, width)) /\ n \in Nat /\ m.height \in Nat
    BY DEF RowsHold, Models
<1>3. rows \in Seq(Either)
    BY <1>2
<1>4. kept \in Seq(Either) /\ Len(kept) = L /\ L \in Nat
  <2>1. CASE h < n
    <3>1. Front(rows, h) \in Seq(Either) /\ Len(Front(rows, h)) = h
        BY <1>3, <2>1, FrontFits
    <3> QED
        BY <2>1, <3>1
  <2>2. CASE ~(h < n)
    <3> DEFINE d == Smaller(h - n, m.height)
    <3>1. d \in Nat
        BY <1>2, <2>2 DEF Smaller
    <3>2. more \in Seq(RowsOf(B, w)) /\ Len(more) = d
        BY <3>1, BlankRowsFit
    <3>3. more \in Seq(Either)
        BY <3>2
    <3>4. rows \o more \in Seq(Either) /\ Len(rows \o more) = n + Len(more)
      <4> HIDE DEF more, Either
      <4> QED
          BY <1>3, <3>3, ConcatProperties
    <3>5. Len(rows \o more) = n + d
        BY <3>2, <3>4
    <3>6. kept = rows \o more /\ L = n + d
        BY <2>2
    <3> HIDE DEF kept, more, L, d, Either, n
    <3> QED
        BY <1>2, <3>1, <3>4, <3>5, <3>6
  <2> QED
      BY <2>1, <2>2
<1> HIDE DEF kept, L
<1>5. ASSUME NEW i \in 1..Len(kept) PROVE Fitted(kept[i], w) \in RowsOf(B, w)
  <2>1. kept[i] \in RowsOf(B, width) \/ kept[i] \in RowsOf(B, w)
      BY <1>4
  <2> QED
      BY <2>1, FittedFits
<1>6. [i \in 1..Len(kept) |-> Fitted(kept[i], w)] \in [1..L -> RowsOf(B, w)]
    BY <1>4, <1>5
<1>7. rows' \in Seq(RowsOf(B, w)) /\ Len(rows') = L
    BY <1>1, <1>4, <1>6, FunctionIsSeq
<1> QED
    BY <1>1, <1>7 DEF RowsHold, L

LEMMA RestartKeepsRows ==
    ASSUME NEW B, "one" \in B, width \in Nat, RowsHold(B), Restart
    PROVE  RowsHold(B)' /\ Len(rows') = Len(rows)
<1>1. Len(rows) \in Nat /\ width' = width /\ rows' = BlankRows(Len(rows), width)
    BY DEF RowsHold, Restart
<1> QED
    BY <1>1, BlankRowsFit DEF RowsHold

-----------------------------------------------------------------------------
(* Drawing.                                                                 *)

\* The rows the invariants speak of.
LEMMA RowsOfAllBytes ==
    ASSUME NEW w \in Nat, NEW rs
    PROVE  rs \in Seq(RowsOf(Bytes, w)) <=>
             /\ rs \in Seq(Rows)
             /\ \A i \in 1..Len(rs) : Len(rs[i].text) = w /\ rs[i].styles = w
<1>1. RowsOf(Bytes, w) = {r \in Rows : Len(r.text) = w /\ r.styles = w}
    BY DEF RowsOf, Rows
<1>2. ASSUME rs \in Seq(RowsOf(Bytes, w))
      PROVE  /\ rs \in Seq(Rows)
             /\ \A i \in 1..Len(rs) : Len(rs[i].text) = w /\ rs[i].styles = w
  <2>1. \A i \in 1..Len(rs) : rs[i] \in Rows /\ Len(rs[i].text) = w /\ rs[i].styles = w
      BY <1>1, <1>2
  <2> QED
      BY <1>2, <2>1, ElementsMakeSeq
<1>3. ASSUME rs \in Seq(Rows), \A i \in 1..Len(rs) : Len(rs[i].text) = w /\ rs[i].styles = w
      PROVE  rs \in Seq(RowsOf(Bytes, w))
  <2>1. \A i \in 1..Len(rs) : rs[i] \in RowsOf(Bytes, w)
      BY <1>1, <1>3
  <2> QED
      BY <1>3, <2>1, ElementsMakeSeq
<1> QED
    BY <1>2, <1>3

LEMMA NarrowRows ==
    ASSUME NEW w \in Nat, NEW rs \in Seq(RowsOf(Bytes, w))
    PROVE  rs \in Seq(RowsOf({"one"}, w)) <=> \A i \in 1..Len(rs) : rs[i].text \in Narrow
<1>1. \A i \in 1..Len(rs) : rs[i].text \in Narrow <=> rs[i] \in RowsOf({"one"}, w)
  <2> TAKE i \in 1..Len(rs)
  <2>1. rs[i] \in RowsOf(Bytes, w)
      OBVIOUS
  <2> QED
      BY <2>1 DEF RowsOf, Narrow
<1>2. ASSUME rs \in Seq(RowsOf({"one"}, w)), NEW i \in 1..Len(rs)
      PROVE  rs[i] \in RowsOf({"one"}, w)
    BY <1>2
<1>3. ASSUME \A i \in 1..Len(rs) : rs[i] \in RowsOf({"one"}, w)
      PROVE  rs \in Seq(RowsOf({"one"}, w))
    BY <1>3, ElementsMakeSeq
<1> QED
    BY <1>1, <1>2, <1>3

\* In a row of one-byte characters there are as many runes as bytes.
LEMMA NarrowRunes ==
    ASSUME NEW s \in Seq({"one"})
    PROVE  Runes(s) = Len(s)
<1>1. {i \in 1..(Len(s) - 1) : s[i] = "lead" /\ s[i + 1] = "follow"} = {}
    OBVIOUS
<1>2. Cardinality({i \in 1..(Len(s) - 1) : s[i] = "lead" /\ s[i + 1] = "follow"}) = 0
    BY <1>1, FS_EmptySet
<1>3. Runes(s) = Len(s) - 0
    BY <1>2 DEF Runes
<1> QED
    BY <1>3

\* Rows of one-byte characters are drawn; what can be missing is the lower window.
LEMMA DrawsNarrowRows ==
    ASSUME Draw, width' \in Nat, RowsHold({"one"})'
    PROVE  crashed' # "rune"
<1>1. ASSUME NEW i \in 1..Len(rows') PROVE ~(rows'[i].styles > Runes(rows'[i].text))
  <2>1. rows'[i] \in RowsOf({"one"}, width')
      BY DEF RowsHold
  <2>2. /\ rows'[i].text \in Seq({"one"}) /\ Len(rows'[i].text) = width'
        /\ rows'[i].styles = width'
      BY <2>1 DEF RowsOf
  <2> QED
      BY <2>2, NarrowRunes
<1> QED
    BY <1>1 DEF Draw, View

LEMMA DrawCrashes ==
    ASSUME Draw
    PROVE  /\ crashed' \in {"none", "rune", "height"}
           /\ crashed' = "none" /\ width' # 0 /\ height' # 0 => ~(height' - m'.height < 2)
BY DEF Draw, View

-----------------------------------------------------------------------------
(* What is on its way.                                                      *)

LEMMA Sending ==
    ASSUME pipe \in Seq(Messages), NEW msgs \in Seq(Messages), Send(msgs)
    PROVE  /\ pipe' \in Seq(Messages) /\ Len(pipe') = Len(pipe) + Len(msgs)
           /\ \A i \in 1..Len(pipe) : pipe'[i] = pipe[i]
           /\ \A i \in 1..Len(msgs) : pipe'[Len(pipe) + i] = msgs[i]
           /\ UNCHANGED <<version, uiVars>> /\ crashed = "none"
BY ConcatProperties DEF Send

LEMMA Handling ==
    ASSUME pipe \in Seq(Messages), NEW type, Handle(type)
    PROVE  /\ pipe' \in Seq(Messages) /\ Len(pipe') = Len(pipe) - 1 /\ Len(pipe) \in Nat \ {0}
           /\ \A i \in 1..Len(pipe') : pipe'[i] = pipe[i + 1]
           /\ Head(pipe) = pipe[1] /\ Head(pipe) \in Messages
BY DEF Handle

\* A later message changes nothing for those before it.
LEMMA BeforeIsKept ==
    ASSUME pipe \in Seq(Messages), NEW msgs \in Seq(Messages), Send(msgs),
           NEW i \in 1..(Len(pipe) + 1), NEW model, HasBefore(i, model)
    PROVE  HasBefore(i, model)'
<1>1. \A j \in 1..(i - 1) : pipe'[j] = pipe[j]
    BY Sending
<1>2. ScreensBefore(i)' = ScreensBefore(i)
    BY <1>1 DEF ScreensBefore
<1>3. \A j \in ScreensBefore(i) : pipe'[j] = pipe[j]
    BY <1>1 DEF ScreensBefore
<1>4. m' = m
    BY Sending DEF uiVars
<1> QED
    BY <1>2, <1>3, <1>4 DEF HasBefore

\* A message other than a screen model leaves the model as it is, a screen model sets it.
LEMMA BeforeOther ==
    ASSUME NEW i \in Nat \ {0}, NEW model, HasBefore(i, model)', pipe'[i].type # "screen"
    PROVE  HasBefore(i + 1, model)'
<1>1. ScreensBefore(i + 1)' = ScreensBefore(i)'
    BY DEF ScreensBefore
<1> QED
    BY <1>1 DEF HasBefore

LEMMA BeforeScreen ==
    ASSUME NEW i \in Nat \ {0}, NEW model, pipe'[i].type = "screen", pipe'[i].model = model
    PROVE  HasBefore(i + 1, model)'
<1>1. i \in ScreensBefore(i + 1)' /\ \A k \in ScreensBefore(i + 1)' : k <= i
    BY DEF ScreensBefore
<1> QED
    BY <1>1 DEF HasBefore

\* When the first message is handled, the others move up behind the new model.
LEMMA BeforeMovesUp ==
    ASSUME pipe \in Seq(Messages), NEW type, Handle(type),
           m' = IF Head(pipe).type = "screen" THEN Head(pipe).model ELSE m,
           NEW i \in 1..Len(pipe), NEW model, HasBefore(i + 1, model)
    PROVE  HasBefore(i, model)'
<1>1. /\ Len(pipe) \in Nat /\ Len(pipe') = Len(pipe) - 1 /\ Head(pipe) = pipe[1]
      /\ \A j \in 1..(i - 1) : pipe'[j] = pipe[j + 1]
    BY Handling
<1>2. \A k : k \in ScreensBefore(i)' => k \in Nat /\ k + 1 \in ScreensBefore(i + 1)
    BY <1>1 DEF ScreensBefore
<1>3. CASE ScreensBefore(i + 1) = {} /\ model = m
  <2>1. 1 \notin ScreensBefore(i + 1)
      BY <1>3
  <2>2. pipe[1].type # "screen"
      BY <2>1 DEF ScreensBefore
  <2>3. ScreensBefore(i)' = {}
      BY <1>2, <1>3
  <2> QED
      BY <1>1, <1>3, <2>2, <2>3 DEF HasBefore
<1>4. CASE ~(ScreensBefore(i + 1) = {} /\ model = m)
  <2>1. PICK j \in ScreensBefore(i + 1) :
             (\A k \in ScreensBefore(i + 1) : k <= j) /\ model = pipe[j].model
      BY <1>4 DEF HasBefore
  <2>2. j \in 1..i /\ pipe[j].type = "screen"
      BY DEF ScreensBefore
  <2>3. \A k \in ScreensBefore(i)' : k \in Nat /\ k + 1 <= j
      BY <1>2, <2>1
  <2>4. CASE j = 1
    <3>1. m' = model
        BY <1>1, <2>1, <2>2, <2>4
    <3>2. \A k \in ScreensBefore(i)' : k \in 1..(i - 1)
        BY DEF ScreensBefore
    <3>3. ScreensBefore(i)' = {}
        BY <2>3, <2>4, <3>2
    <3> QED
        BY <3>1, <3>3 DEF HasBefore
  <2>5. CASE j # 1
    <3>1. j - 1 \in 1..(i - 1) /\ (j - 1) + 1 = j
        BY <2>2, <2>5
    <3>2. pipe'[j - 1] = pipe[j]
        BY <1>1, <3>1
    <3>3. j - 1 \in ScreensBefore(i)'
        BY <2>2, <3>1, <3>2 DEF ScreensBefore
    <3>4. \A k \in ScreensBefore(i)' : k <= j - 1
        BY <2>2, <2>3
    <3> QED
        BY <2>1, <3>2, <3>3, <3>4 DEF HasBefore
  <2> QED
      BY <2>4, <2>5
<1> QED
    BY <1>3, <1>4

\* The interface has the model that the text it is to write next was printed with.
LEMMA NextTextHasItsModel ==
    ASSUME pipe \in Seq(Messages), ModelsFollow, crashed = "none", pipe # <<>>,
           Head(pipe).type = "text"
    PROVE  Head(pipe).at = m
<1>1. 1 \in 1..Len(pipe) /\ Head(pipe) = pipe[1]
    OBVIOUS
<1>2. HasBefore(1, pipe[1].at)
    BY <1>1 DEF ModelsFollow
<1>3. ScreensBefore(1) = {}
    BY DEF ScreensBefore
<1> QED
    BY <1>1, <1>2, <1>3 DEF HasBefore

-----------------------------------------------------------------------------
(* The invariant is kept when the interpreter sends.                        *)

LEMMA SendingKeepsInv ==
    ASSUME TypeOK, Inv, NEW msgs \in Seq(Messages), Send(msgs),
           z' \in Models, wide' \in BOOLEAN, wide => wide',
           NEW end, end = Len(pipe) + Len(msgs) + 1,
           NEW model, z' = model, HasBefore(end, model)',
           \A i \in 1..Len(msgs) : msgs[i].type = "text" =>
               /\ i = 1 /\ msgs[i].at = z
               /\ ~wide' /\ ~z.lower => msgs[i].text \in Seq(Narrow)
    PROVE  TypeOK' /\ Inv'
<1>1. pipe \in Seq(Messages) /\ Len(pipe) \in Nat /\ Len(msgs) \in Nat
    BY DEF TypeOK
<1>2. /\ pipe' \in Seq(Messages) /\ Len(pipe') = Len(pipe) + Len(msgs)
      /\ \A i \in 1..Len(pipe) : pipe'[i] = pipe[i]
      /\ \A i \in 1..Len(msgs) : pipe'[Len(pipe) + i] = msgs[i]
      /\ UNCHANGED <<version, uiVars>> /\ crashed = "none"
    BY <1>1, Sending
<1>3. /\ version' = version /\ m' = m /\ width' = width /\ height' = height /\ rows' = rows
      /\ crashed' = "none" /\ resized' = resized
    BY <1>2 DEF uiVars
<1>4. ASSUME NEW i \in 1..Len(pipe')
      PROVE  \/ i \in 1..Len(pipe) /\ pipe'[i] = pipe[i]
             \/ i - Len(pipe) \in 1..Len(msgs) /\ pipe'[i] = msgs[i - Len(pipe)]
  <2>1. CASE i <= Len(pipe)
      BY <1>1, <1>2, <2>1
  <2>2. CASE ~(i <= Len(pipe))
    <3>1. i - Len(pipe) \in 1..Len(msgs) /\ Len(pipe) + (i - Len(pipe)) = i
        BY <1>1, <1>2, <2>2
    <3> QED
        BY <1>2, <3>1
  <2> QED
      BY <2>1, <2>2
<1>5. TypeOK'
    BY <1>2, <1>3 DEF TypeOK
<1>6. ModelsFollow'
  <2>1. ASSUME NEW i \in 1..Len(pipe'), pipe'[i].type = "text", NEW at, at = pipe'[i].at
        PROVE  HasBefore(i, at)'
    <3>1. CASE i \in 1..Len(pipe) /\ pipe'[i] = pipe[i]
      <4>1. HasBefore(i, at)
          BY <1>2, <2>1, <3>1 DEF Inv, ModelsFollow
      <4> QED
          BY <1>1, <3>1, <4>1, BeforeIsKept
    <3>2. CASE i - Len(pipe) \in 1..Len(msgs) /\ pipe'[i] = msgs[i - Len(pipe)]
      <4>1. i - Len(pipe) = 1 /\ at = z
          BY <2>1, <3>2
      <4>2. i = Len(pipe) + 1
          BY <1>1, <4>1
      <4>3. HasBefore(i, at)
          BY <1>2, <4>1, <4>2 DEF Inv, ModelsFollow
      <4> QED
          BY <1>1, <4>2, <4>3, BeforeIsKept
    <3> QED
        BY <1>4, <3>1, <3>2
  <2>2. HasBefore(Len(pipe) + 1, z)'
    <3>1. end = Len(pipe') + 1
        BY <1>1, <1>2
    <3> QED
        BY <3>1
  <2> QED
      BY <2>1, <2>2 DEF ModelsFollow
<1>7. NarrowUntilWide'
  <2>1. ASSUME ~wide', NEW i \in 1..Len(pipe'), pipe'[i].type = "text", ~pipe'[i].at.lower
        PROVE  pipe'[i].text \in Seq(Narrow)
    <3>1. CASE i \in 1..Len(pipe) /\ pipe'[i] = pipe[i]
        BY <2>1, <3>1 DEF Inv, NarrowUntilWide
    <3>2. CASE i - Len(pipe) \in 1..Len(msgs) /\ pipe'[i] = msgs[i - Len(pipe)]
        BY <2>1, <3>2
    <3> QED
        BY <1>4, <3>1, <3>2
  <2> QED
      BY <1>3, <2>1 DEF Inv, NarrowUntilWide
<1>8. RowsCoverTheSplit' /\ RowsFitTheScreen' /\ CrashesHaveACause'
    BY <1>2, <1>3 DEF Inv, RowsCoverTheSplit, RowsFitTheScreen, CrashesHaveACause
<1> QED
    BY <1>5, <1>6, <1>7, <1>8 DEF Inv

\* A new screen model is what the interface will have when it has come.
LEMMA SendsModelKeepsInv ==
    ASSUME TypeOK, Inv, NEW model \in Models, SendModel(model)
    PROVE  TypeOK' /\ Inv'
<1> DEFINE msgs == <<Screen(model)>>
<1>1. /\ msgs \in Seq(Messages) /\ Len(msgs) = 1 /\ 1 \in 1..Len(msgs)
      /\ msgs[1] = Screen(model) /\ \A i \in 1..Len(msgs) : msgs[i].type # "text"
    BY DEF Screen, Messages
<1>2. Send(msgs) /\ z' = model /\ wide' = wide
    BY DEF SendModel
<1> HIDE DEF msgs
<1>3. pipe \in Seq(Messages) /\ Len(pipe) \in Nat /\ wide' \in BOOLEAN
    BY <1>2 DEF TypeOK
<1>4. PICK i : i = Len(pipe) + 1
    OBVIOUS
<1>5. i \in Nat \ {0} /\ i + 1 = Len(pipe) + Len(msgs) + 1
    BY <1>1, <1>3, <1>4
<1>6. \A k \in 1..Len(msgs) : pipe'[Len(pipe) + k] = msgs[k]
    BY <1>2, <1>3, <1>1, Sending
<1>7. pipe'[i] = Screen(model)
    BY <1>1, <1>4, <1>6
<1>8. HasBefore(i + 1, model)'
    BY <1>5, <1>7, BeforeScreen DEF Screen
<1> QED
    BY <1>1, <1>2, <1>3, <1>5, <1>8, SendingKeepsInv

LEMMA ErasesKeepsInv ==
    ASSUME TypeOK, Inv, NEW v \in {-2, -1, 0, 1}, EraseWindow(v)
    PROVE  TypeOK' /\ Inv'
<1> DEFINE home == IF v = 0 THEN z ELSE [z EXCEPT !.x = 0, !.y = 0]
           model == IF v = -1 THEN [home EXCEPT !.height = 0, !.lower = TRUE] ELSE home
           msgs == <<Screen(model), Erase(v)>>
<1>1. z' = model /\ Send(msgs) /\ wide' = wide
    BY DEF EraseWindow
<1>2. model \in Models
    BY DEF TypeOK, Models
<1> HIDE DEF model
<1>3. Screen(model) \in Messages /\ Erase(v) \in Messages
    BY <1>2 DEF Screen, Erase, Messages
<1>4. /\ msgs \in Seq(Messages) /\ Len(msgs) = 2 /\ 1 \in 1..Len(msgs) /\ 2 \in 1..Len(msgs)
      /\ msgs[1] = Screen(model) /\ msgs[2] = Erase(v)
    BY <1>3
<1>5. \A i \in 1..Len(msgs) : msgs[i].type # "text"
    BY DEF Screen, Erase
<1> HIDE DEF msgs
<1>6. pipe \in Seq(Messages) /\ Len(pipe) \in Nat /\ wide' \in BOOLEAN
    BY <1>1 DEF TypeOK
<1>7. PICK i : i = Len(pipe) + 1
    OBVIOUS
<1>8. /\ i \in Nat \ {0} /\ i + 1 \in Nat \ {0}
      /\ i + 1 = Len(pipe) + 2 /\ (i + 1) + 1 = Len(pipe) + Len(msgs) + 1
    BY <1>4, <1>6, <1>7
<1>9. \A k \in 1..Len(msgs) : pipe'[Len(pipe) + k] = msgs[k]
    BY <1>1, <1>4, <1>6, Sending
<1>10. pipe'[i] = Screen(model) /\ pipe'[i + 1] = Erase(v)
    BY <1>4, <1>7, <1>8, <1>9
<1>11. PICK mod : mod = model
    OBVIOUS
<1>12. HasBefore(i + 1, mod)'
    BY <1>8, <1>10, <1>11, BeforeScreen DEF Screen
<1>13. HasBefore((i + 1) + 1, mod)'
    BY <1>8, <1>10, <1>12, BeforeOther DEF Erase
<1> QED
    BY <1>1, <1>2, <1>4, <1>5, <1>6, <1>8, <1>11, <1>13, SendingKeepsInv

\* Where text is to go is sent before it and what is left of the line behind it.
LEMMA PrintsKeepsInv ==
    ASSUME TypeOK, Inv, NEW text \in Texts, AppendText(text)
    PROVE  TypeOK' /\ Inv'
<1> DEFINE n == Len(text)
           msg == [type |-> "text", text |-> text, at |-> z]
           moved == [z EXCEPT !.y = @ + n - 1,
                              !.x = IF n = 1 THEN @ + Len(text[1]) ELSE Len(text[n])]
<1>1. text \in Seq(Seq(Bytes)) /\ text # <<>> /\ n \in Nat \ {0}
      /\ 1 \in 1..n /\ n \in 1..n
    BY UpperWindowAssumption
<1>2. /\ pipe \in Seq(Messages) /\ Len(pipe) \in Nat /\ z \in Models
      /\ wide \in BOOLEAN /\ crashed = "none"
    BY DEF TypeOK, AppendText, Send
<1>3. msg \in Messages
    BY <1>2 DEF Messages
<1>4. PICK i : i = Len(pipe) + 1
    OBVIOUS
<1>5. HasBefore(i, z)
    BY <1>2, <1>4 DEF Inv, ModelsFollow
<1>6. PICK old : old = z
    OBVIOUS
<1>7. CASE z.lower
  <2> DEFINE msgs == <<msg>>
  <2>1. Send(msgs) /\ z' = old /\ wide' = wide
      BY <1>6, <1>7 DEF AppendText
  <2>2. /\ msgs \in Seq(Messages) /\ Len(msgs) = 1 /\ 1 \in 1..Len(msgs) /\ msgs[1] = msg
      BY <1>3
  <2>3. \A k \in 1..Len(msgs) : k = 1 /\ msgs[k].at = z
      BY <2>2
  <2> HIDE DEF msgs
  <2>4. i \in Nat \ {0} /\ i \in 1..(Len(pipe) + 1) /\ i + 1 = Len(pipe) + Len(msgs) + 1
      BY <1>2, <1>4, <2>2
  <2>5. \A k \in 1..Len(msgs) : pipe'[Len(pipe) + k] = msgs[k]
      BY <1>2, <2>1, <2>2, Sending
  <2>6. pipe'[i] = msg
      BY <1>4, <2>2, <2>5
  <2>7. HasBefore(i, old)'
      BY <1>2, <1>5, <1>6, <2>1, <2>2, <2>4, BeforeIsKept
  <2>8. HasBefore(i + 1, old)'
      BY <2>4, <2>6, <2>7, BeforeOther
  <2> QED
      BY <1>2, <1>6, <1>7, <2>1, <2>2, <2>3, <2>4, <2>8, SendingKeepsInv
<1>8. CASE ~z.lower
  <2> DEFINE msgs == <<msg, Screen(moved)>>
  <2>1. /\ Send(msgs) /\ z' = moved
        /\ wide' = (wide \/ \E a \in 1..n : \E b \in 1..Len(text[a]) : text[a][b] # "one")
      BY <1>8 DEF AppendText
  <2>2. moved \in Models
    <3>1. z = [lower |-> z.lower, height |-> z.height, x |-> z.x, y |-> z.y]
          /\ z.x \in Nat \cup {-1} /\ z.y \in Nat \cup {-1} /\ z.lower \in BOOLEAN
          /\ z.height \in Nat
        BY <1>2 DEF Models
    <3>2. Len(text[1]) \in Nat /\ Len(text[n]) \in Nat
        BY <1>1
    <3>3. z.y + n - 1 \in Nat \cup {-1}
        BY <1>1, <3>1
    <3>4. (IF n = 1 THEN z.x + Len(text[1]) ELSE Len(text[n])) \in Nat \cup {-1}
        BY <3>1, <3>2
    <3> DEFINE a == IF n = 1 THEN z.x + Len(text[1]) ELSE Len(text[n])
               b == z.y + n - 1
    <3>5. moved = [z EXCEPT !.y = b, !.x = a]
        OBVIOUS
    <3> HIDE DEF moved, a, b
    <3>6. moved = [lower |-> z.lower, height |-> z.height, x |-> a, y |-> b]
        BY <3>1, <3>5
    <3>7. a \in Nat \cup {-1} /\ b \in Nat \cup {-1}
        BY <3>3, <3>4 DEF a, b
    <3> QED
        BY <3>1, <3>6, <3>7 DEF Models
  <2> HIDE DEF moved
  <2>3. Screen(moved) \in Messages
      BY <2>2 DEF Screen, Messages
  <2>4. /\ msgs \in Seq(Messages) /\ Len(msgs) = 2 /\ 1 \in 1..Len(msgs) /\ 2 \in 1..Len(msgs)
        /\ msgs[1] = msg /\ msgs[2] = Screen(moved)
      BY <1>3, <2>3
  <2>5. wide' \in BOOLEAN /\ (wide => wide')
      BY <1>2, <2>1
  <2>6. ASSUME ~wide' PROVE text \in Seq(Narrow)
    <3>1. \A a \in 1..n : \A b \in 1..Len(text[a]) : text[a][b] \in {"one"}
        BY <2>1, <2>6
    <3>2. ASSUME NEW a \in 1..Len(text) PROVE text[a] \in Narrow
      <4>1. text[a] \in Seq(Bytes)
          BY <1>1
      <4> QED
          BY <3>1, <4>1, ElementsMakeSeq DEF Narrow
    <3> QED
        BY <1>1, <3>2, ElementsMakeSeq
  <2>7. \A k \in 1..Len(msgs) : msgs[k].type = "text" =>
            /\ k = 1 /\ msgs[k].at = z
            /\ ~wide' /\ ~z.lower => msgs[k].text \in Seq(Narrow)
    <3> TAKE k \in 1..Len(msgs)
    <3> HAVE msgs[k].type = "text"
    <3>1. k = 1
        BY <2>4 DEF Screen
    <3> QED
        BY <2>4, <2>6, <3>1
  <2> HIDE DEF msgs
  <2>8. /\ i \in Nat \ {0} /\ i + 1 \in Nat \ {0} /\ i + 1 = Len(pipe) + 2
        /\ (i + 1) + 1 = Len(pipe) + Len(msgs) + 1
      BY <1>2, <1>4, <2>4
  <2>9. \A k \in 1..Len(msgs) : pipe'[Len(pipe) + k] = msgs[k]
      BY <1>2, <2>1, <2>4, Sending
  <2>10. pipe'[i + 1] = Screen(moved)
      BY <2>4, <2>8, <2>9
  <2>11. PICK model : model = moved
      OBVIOUS
  <2>12. HasBefore((i + 1) + 1, model)'
      BY <2>8, <2>10, <2>11, BeforeScreen DEF Screen
  <2> QED
      BY <2>1, <2>2, <2>4, <2>5, <2>7, <2>8, <2>11, <2>12, SendingKeepsInv
<1> QED
    BY <1>7, <1>8

-----------------------------------------------------------------------------
(* The invariant is kept when the interface handles a message, when the     *)
(* terminal is resized and when the story is restarted.                     *)

LEMMA RowsHoldNow ==
    ASSUME TypeOK, Inv
    PROVE  RowsHold(Bytes) /\ (~wide => RowsHold({"one"}))
<1>1. rows \in Seq(RowsOf(Bytes, width))
    BY RowsOfAllBytes DEF TypeOK, Inv, RowsFitTheScreen
<1>2. ~wide => rows \in Seq(RowsOf({"one"}, width))
    BY <1>1, NarrowRows DEF TypeOK, Inv, NarrowUntilWide
<1> QED
    BY <1>1, <1>2 DEF RowsHold

\* The rows after a step are what the invariants say of them.
LEMMA RowsHoldThen ==
    ASSUME width' \in Nat, RowsHold(Bytes)', ~wide' => RowsHold({"one"})'
    PROVE  /\ rows' \in Seq(Rows)
           /\ \A i \in 1..Len(rows') : Len(rows'[i].text) = width' /\ rows'[i].styles = width'
           /\ ~wide' => \A i \in 1..Len(rows') : rows'[i].text \in Narrow
<1>1. rows' \in Seq(RowsOf(Bytes, width')) /\ (~wide' => rows' \in Seq(RowsOf({"one"}, width')))
    BY DEF RowsHold
<1> QED
    BY <1>1, RowsOfAllBytes, NarrowRows

\* What handling any message keeps, when the rows it leaves hold.
LEMMA HandlingKeeps ==
    ASSUME TypeOK, Inv, NEW type, Handle(type), m' \in Models, resized' \in BOOLEAN,
           RowsHold(Bytes)', ~wide => RowsHold({"one"})',
           crashed' \in {"none", "rune", "height", "column", "split", "erase"},
           crashed' = "none" =>
               m' = IF Head(pipe).type = "screen" THEN Head(pipe).model ELSE m
    PROVE  /\ TypeOK' /\ ModelsFollow' /\ NarrowUntilWide'
           /\ \A i \in 1..Len(rows') : Len(rows'[i].text) = width' /\ rows'[i].styles = width'
<1>1. /\ pipe \in Seq(Messages) /\ crashed = "none"
      /\ UNCHANGED <<version, z, wide, width, height>>
    BY DEF TypeOK, Handle
<1>2. /\ pipe' \in Seq(Messages) /\ Len(pipe') = Len(pipe) - 1 /\ Len(pipe) \in Nat \ {0}
      /\ \A i \in 1..Len(pipe') : pipe'[i] = pipe[i + 1]
    BY <1>1, Handling
<1>3. width' \in Nat /\ (~wide' => RowsHold({"one"})')
    BY <1>1 DEF TypeOK
<1>4. /\ rows' \in Seq(Rows)
      /\ \A i \in 1..Len(rows') : Len(rows'[i].text) = width' /\ rows'[i].styles = width'
      /\ ~wide' => \A i \in 1..Len(rows') : rows'[i].text \in Narrow
    BY <1>3, RowsHoldThen
<1>5. TypeOK'
    BY <1>1, <1>2, <1>4 DEF TypeOK
<1>6. \A i \in 1..Len(pipe') : i \in 1..Len(pipe) /\ i + 1 \in 1..Len(pipe)
    BY <1>2
<1>7. ModelsFollow'
  <2> SUFFICES ASSUME crashed' = "none"
               PROVE  /\ \A i \in 1..Len(pipe') :
                           pipe'[i].type = "text" => HasBefore(i, pipe[i].at)'
                      /\ HasBefore(Len(pipe) + 1, z)'
      BY DEF ModelsFollow
  <2>1. ASSUME NEW i \in 1..Len(pipe'), pipe'[i].type = "text", NEW at, at = pipe'[i].at
        PROVE  HasBefore(i, at)'
    <3>1. pipe[i + 1].type = "text" /\ pipe[i + 1].at = at
        BY <1>2, <2>1
    <3>2. HasBefore(i + 1, at)
        BY <1>1, <1>6, <3>1 DEF Inv, ModelsFollow
    <3> QED
        BY <1>1, <1>6, <3>2, BeforeMovesUp
  <2>2. HasBefore(Len(pipe) + 1, z)'
    <3>1. PICK n : n = Len(pipe)
        OBVIOUS
    <3>2. PICK model : model = z
        OBVIOUS
    <3>3. n \in 1..Len(pipe) /\ HasBefore(n + 1, model)
        BY <1>1, <1>2, <3>1, <3>2 DEF Inv, ModelsFollow
    <3>4. HasBefore(n, model)'
        BY <1>1, <3>3, BeforeMovesUp
    <3>5. n = Len(pipe') + 1 /\ model = z'
        BY <1>1, <1>2, <3>1, <3>2
    <3> QED
        BY <3>4, <3>5
  <2> QED
      BY <2>1, <2>2
<1>8. NarrowUntilWide'
    BY <1>1, <1>2, <1>4, <1>6 DEF Inv, NarrowUntilWide
<1> QED
    BY <1>4, <1>5, <1>7, <1>8

LEMMA TextKeepsInv ==
    ASSUME TypeOK, Inv, OnText
    PROVE  TypeOK' /\ Inv'
<1>1. /\ Handle("text") /\ resized' = resized /\ m' = m
      /\ Draw \/ (crashed' = "column" /\ m.x < 0)
    BY DEF OnText, Panic
<1>2. /\ pipe \in Seq(Messages) /\ pipe # <<>> /\ Head(pipe).type = "text" /\ crashed = "none"
      /\ UNCHANGED <<version, wide, width, height>>
    BY <1>1 DEF TypeOK, Handle
<1>3. Head(pipe).at = m /\ Head(pipe) \in Messages /\ Head(pipe) = pipe[1] /\ 1 \in 1..Len(pipe)
    BY <1>2, NextTextHasItsModel DEF Inv
<1>4. Head(pipe).text \in Seq(Seq(Bytes))
    BY <1>2, <1>3, UpperWindowAssumption DEF Messages
<1>5. ~wide /\ ~m.lower => Head(pipe).text \in Seq(Seq({"one"}))
    BY <1>2, <1>3 DEF Inv, NarrowUntilWide, Narrow
<1>6. RowsHold(Bytes)' /\ Len(rows') = Len(rows)
    BY <1>2, <1>4, RowsHoldNow, TextKeepsRows DEF TypeOK
<1>7. ~wide => RowsHold({"one"})'
    BY <1>2, <1>5, RowsHoldNow, TextKeepsRows DEF TypeOK
<1>8. Draw => crashed' \in {"none", "rune", "height"} /\ (crashed' = "rune" => wide)
    BY <1>2, <1>7, DrawCrashes, DrawsNarrowRows DEF TypeOK
<1>9. /\ TypeOK' /\ ModelsFollow' /\ NarrowUntilWide'
      /\ \A i \in 1..Len(rows') : Len(rows'[i].text) = width' /\ rows'[i].styles = width'
  <2>1. /\ m' \in Models /\ resized' \in BOOLEAN
        /\ crashed' \in {"none", "rune", "height", "column", "split", "erase"}
        /\ m' = IF Head(pipe).type = "screen" THEN Head(pipe).model ELSE m
      BY <1>1, <1>2, <1>8 DEF TypeOK
  <2> QED
      BY <1>1, <1>6, <1>7, <2>1, HandlingKeeps
<1>10. RowsCoverTheSplit'
    BY <1>1, <1>2, <1>6 DEF Inv, RowsCoverTheSplit
<1>11. RowsFitTheScreen'
    BY <1>1, <1>2, <1>6, <1>9 DEF Inv, RowsFitTheScreen
<1>12. CrashesHaveACause'
  <2>1. m.x \in Nat \cup {-1}
      BY DEF TypeOK, Models
  <2> QED
      BY <1>1, <1>2, <1>8, <2>1 DEF CrashesHaveACause
<1> QED
    BY <1>9, <1>10, <1>11, <1>12 DEF Inv

LEMMA ScreenKeepsInv ==
    ASSUME TypeOK, Inv, OnScreen
    PROVE  TypeOK' /\ Inv'
<1>1. Handle("screen") /\ resized' = FALSE
    BY DEF OnScreen
<1>2. /\ pipe \in Seq(Messages) /\ pipe # <<>> /\ Head(pipe).type = "screen" /\ crashed = "none"
      /\ UNCHANGED <<version, wide, width, height>>
    BY <1>1 DEF TypeOK, Handle
<1>3. /\ RowsHold(Bytes)'
      /\ \/ crashed' = "split" /\ version = 3 /\ UNCHANGED <<m, rows>>
         \/ /\ m' = Head(pipe).model /\ m' \in Models
            /\ Draw
            /\ IF version = 3 THEN Len(rows') = Len(rows) /\ m'.height <= Len(rows)
                              ELSE Len(rows') = m'.height
    BY <1>2, RowsHoldNow, ScreenKeepsRows DEF TypeOK, Bytes
<1>4. ~wide => RowsHold({"one"})'
    BY <1>2, RowsHoldNow, ScreenKeepsRows DEF TypeOK
<1>5. Draw => crashed' \in {"none", "rune", "height"} /\ (crashed' = "rune" => wide)
    BY <1>2, <1>4, DrawCrashes, DrawsNarrowRows DEF TypeOK
<1>6. /\ TypeOK' /\ ModelsFollow' /\ NarrowUntilWide'
      /\ \A i \in 1..Len(rows') : Len(rows'[i].text) = width' /\ rows'[i].styles = width'
  <2>1. /\ m' \in Models /\ resized' \in BOOLEAN
        /\ crashed' \in {"none", "rune", "height", "column", "split", "erase"}
        /\ crashed' = "none" => m' = IF Head(pipe).type = "screen" THEN Head(pipe).model ELSE m
      BY <1>1, <1>2, <1>3, <1>5 DEF TypeOK
  <2> QED
      BY <1>1, <1>3, <1>4, <2>1, HandlingKeeps
<1>7. Len(rows) \in Nat /\ Len(rows') \in Nat /\ height \in Nat
    BY <1>6 DEF TypeOK
<1>8. RowsCoverTheSplit'
  <2>1. m'.height \in Nat
      BY <1>6 DEF TypeOK, Models
  <2> QED
      BY <1>2, <1>3, <1>7, <2>1 DEF Inv, RowsCoverTheSplit
<1>9. RowsFitTheScreen'
  <2>1. m'.height \in Nat
      BY <1>6 DEF TypeOK, Models
  <2>2. Len(rows') <= height' \/ Len(rows') <= m'.height
      BY <1>2, <1>3, <1>7, <2>1 DEF Inv, RowsCoverTheSplit, RowsFitTheScreen
  <2>3. version' # 3 /\ crashed' = "none" /\ ~resized' => Len(rows') = m'.height
      BY <1>2, <1>3
  <2> QED
      BY <1>6, <2>2, <2>3 DEF RowsFitTheScreen
<1>10. CrashesHaveACause'
    BY <1>2, <1>3, <1>5 DEF CrashesHaveACause
<1> QED
    BY <1>6, <1>8, <1>9, <1>10 DEF Inv

LEMMA EraseKeepsInv ==
    ASSUME TypeOK, Inv, OnErase
    PROVE  TypeOK' /\ Inv'
<1>1. Handle("erase") /\ resized' = resized
    BY DEF OnErase
<1>2. /\ pipe \in Seq(Messages) /\ pipe # <<>> /\ Head(pipe).type = "erase" /\ crashed = "none"
      /\ UNCHANGED <<version, wide, width, height>> /\ m \in Models /\ width \in Nat
      /\ rows \in Seq(Rows)
    BY <1>1 DEF TypeOK, Handle
<1>3. /\ RowsHold(Bytes)' /\ Len(rows') = Len(rows) /\ m' = m
      /\ Draw \/ (crashed' = "erase" /\ Len(rows) < m.height)
    BY <1>2, RowsHoldNow, EraseKeepsRows DEF Bytes
<1>4. ~(Len(rows) < m.height)
  <2>1. m.height <= Len(rows) /\ m.height \in Nat /\ Len(rows) \in Nat
      BY <1>2 DEF Inv, RowsCoverTheSplit, Models
  <2> QED
      BY <2>1
<1>5. ~wide => RowsHold({"one"})'
    BY <1>2, RowsHoldNow, EraseKeepsRows
<1>6. crashed' \in {"none", "rune", "height"} /\ (crashed' = "rune" => wide)
    BY <1>2, <1>3, <1>4, <1>5, DrawCrashes, DrawsNarrowRows
<1>7. /\ TypeOK' /\ ModelsFollow' /\ NarrowUntilWide'
      /\ \A i \in 1..Len(rows') : Len(rows'[i].text) = width' /\ rows'[i].styles = width'
  <2>1. /\ m' \in Models /\ resized' \in BOOLEAN
        /\ crashed' \in {"none", "rune", "height", "column", "split", "erase"}
        /\ m' = IF Head(pipe).type = "screen" THEN Head(pipe).model ELSE m
      BY <1>1, <1>2, <1>3, <1>6 DEF TypeOK
  <2> QED
      BY <1>1, <1>3, <1>5, <2>1, HandlingKeeps
<1>8. RowsCoverTheSplit'
    BY <1>2, <1>3 DEF Inv, RowsCoverTheSplit
<1>9. RowsFitTheScreen'
    BY <1>1, <1>2, <1>3, <1>7 DEF Inv, RowsFitTheScreen
<1>10. CrashesHaveACause'
    BY <1>2, <1>6 DEF CrashesHaveACause
<1> QED
    BY <1>7, <1>8, <1>9, <1>10 DEF Inv

LEMMA ResizeKeepsInv ==
    ASSUME TypeOK, Inv, NEW w \in Nat \ {0}, NEW h \in Nat \ {0}, Resize(w, h)
    PROVE  TypeOK' /\ Inv'
<1> DEFINE n == Len(rows)
<1>1. /\ UNCHANGED <<version, z, pipe, wide, m>> /\ width' = w /\ height' = h
      /\ resized' = TRUE /\ crashed = "none" /\ Draw
    BY DEF Resize, zVars
<1>2. n \in Nat /\ m \in Models /\ m.height \in Nat /\ width \in Nat /\ m.height <= n
    BY <1>1 DEF TypeOK, Models, Inv, RowsCoverTheSplit
<1>3. /\ RowsHold(Bytes)'
      /\ Len(rows') = IF h < n THEN h ELSE n + Smaller(h - n, m.height)
    BY <1>2, RowsHoldNow, ResizeKeepsRows DEF Bytes
<1>4. ~wide => RowsHold({"one"})'
    BY <1>2, RowsHoldNow, ResizeKeepsRows
<1>5. /\ crashed' \in {"none", "rune", "height"} /\ (crashed' = "rune" => wide)
      /\ crashed' = "none" => ~(h - m.height < 2)
  <2>1. crashed' \in {"none", "rune", "height"}
        /\ (crashed' = "none" /\ w # 0 /\ h # 0 => ~(h - m.height < 2))
      BY <1>1, DrawCrashes
  <2>2. ~wide => crashed' # "rune"
      BY <1>1, <1>4, DrawsNarrowRows
  <2> QED
      BY <2>1, <2>2
<1>6. /\ rows' \in Seq(Rows)
      /\ \A i \in 1..Len(rows') : Len(rows'[i].text) = width' /\ rows'[i].styles = width'
      /\ ~wide' => \A i \in 1..Len(rows') : rows'[i].text \in Narrow
  <2>1. width' \in Nat /\ (~wide' => RowsHold({"one"})')
      BY <1>1, <1>4
  <2> QED
      BY <1>3, <2>1, RowsHoldThen
<1>7. TypeOK'
    BY <1>1, <1>5, <1>6 DEF TypeOK
<1>8. ModelsFollow'
    BY <1>1 DEF Inv, ModelsFollow, HasBefore, ScreensBefore
<1>9. NarrowUntilWide'
    BY <1>1, <1>6 DEF Inv, NarrowUntilWide
<1>10. Len(rows') <= h /\ Len(rows') \in Nat
  <2>1. CASE h < n
      BY <1>3, <2>1
  <2>2. CASE ~(h < n)
    <3>1. Smaller(h - n, m.height) \in Nat /\ Smaller(h - n, m.height) <= h - n
        BY <1>2, <2>2 DEF Smaller
    <3> QED
        BY <1>2, <1>3, <2>2, <3>1
  <2> QED
      BY <2>1, <2>2
<1>11. h - m.height >= 2 => m.height <= Len(rows')
  <2>1. CASE h < n
      BY <1>2, <1>3, <2>1
  <2>2. CASE ~(h < n)
    <3>1. Smaller(h - n, m.height) \in Nat
        BY <1>2, <2>2 DEF Smaller
    <3> QED
        BY <1>2, <1>3, <2>2, <3>1
  <2> QED
      BY <2>1, <2>2
<1>12. RowsCoverTheSplit'
    BY <1>1, <1>2, <1>5, <1>10, <1>11 DEF RowsCoverTheSplit
<1>13. RowsFitTheScreen'
    BY <1>1, <1>6, <1>10 DEF RowsFitTheScreen
<1>14. CrashesHaveACause'
    BY <1>1, <1>5 DEF CrashesHaveACause
<1> QED
    BY <1>7, <1>8, <1>9, <1>12, <1>13, <1>14 DEF Inv

LEMMA RestartKeepsInv ==
    ASSUME TypeOK, Inv, Restart
    PROVE  TypeOK' /\ Inv'
<1>1. /\ crashed = "none" /\ z' = NewScreenModel /\ pipe' = <<Screen(NewScreenModel)>> /\ Draw
      /\ UNCHANGED <<version, m, width, height, resized, wide>>
    BY DEF Restart
<1>2. NewScreenModel \in Models /\ m \in Models /\ width' \in Nat /\ width \in Nat
    BY <1>1 DEF NewScreenModel, Models, TypeOK
<1>3. RowsHold(Bytes)' /\ Len(rows') = Len(rows)
    BY <1>2, RowsHoldNow, RestartKeepsRows DEF Bytes
<1>4. ~wide => RowsHold({"one"})'
    BY <1>2, RowsHoldNow, RestartKeepsRows
<1>5. crashed' \in {"none", "rune", "height"} /\ (crashed' = "rune" => wide)
    BY <1>1, <1>2, <1>4, DrawCrashes, DrawsNarrowRows
<1>6. /\ rows' \in Seq(Rows)
      /\ \A i \in 1..Len(rows') : Len(rows'[i].text) = width' /\ rows'[i].styles = width'
      /\ ~wide' => \A i \in 1..Len(rows') : rows'[i].text \in Narrow
    BY <1>1, <1>2, <1>3, <1>4, RowsHoldThen
<1>7. /\ Screen(NewScreenModel) \in Messages /\ pipe' \in Seq(Messages) /\ Len(pipe') = 1
      /\ pipe'[1] = Screen(NewScreenModel)
    BY <1>1, <1>2 DEF Screen, Messages
<1>8. TypeOK'
    BY <1>1, <1>2, <1>5, <1>6, <1>7 DEF TypeOK
<1>9. pipe'[1].type = "screen" /\ pipe'[1].model = NewScreenModel
    BY <1>7 DEF Screen
<1>10. ModelsFollow'
  <2>1. HasBefore(1 + 1, NewScreenModel)'
      BY <1>9, BeforeScreen DEF NewScreenModel
  <2>2. HasBefore(Len(pipe) + 1, z)'
      BY <1>1, <1>7, <2>1 DEF NewScreenModel
  <2>3. \A i \in 1..Len(pipe') : pipe'[i].type # "text"
      BY <1>7, <1>9
  <2> QED
      BY <2>2, <2>3 DEF ModelsFollow
<1>11. NarrowUntilWide'
    BY <1>6, <1>7, <1>9 DEF NarrowUntilWide
<1>12. RowsCoverTheSplit' /\ RowsFitTheScreen'
    BY <1>1, <1>3, <1>6 DEF Inv, RowsCoverTheSplit, RowsFitTheScreen
<1>13. CrashesHaveACause'
    BY <1>1, <1>5 DEF CrashesHaveACause
<1> QED
    BY <1>8, <1>10, <1>11, <1>12, <1>13 DEF Inv

-----------------------------------------------------------------------------
(* The inductive invariant and what follows from it.                        *)

LEMMA Initially == Init => TypeOK /\ Inv
<1> SUFFICES ASSUME Init PROVE TypeOK /\ Inv
    OBVIOUS
<1>1. /\ version \in Versions /\ z = NewScreenModel /\ m = ZeroModel
      /\ pipe = <<Screen(NewScreenModel)>> /\ width = 0 /\ height = 0 /\ rows = <<>>
      /\ crashed = "none" /\ resized = FALSE /\ wide = FALSE
    BY DEF Init
<1>2. NewScreenModel \in Models /\ ZeroModel \in Models
    BY DEF NewScreenModel, ZeroModel, Models
<1>3. Screen(NewScreenModel) \in Messages
    BY <1>2 DEF Screen, Messages
<1>4. rows \in Seq(Rows) /\ Len(rows) = 0 /\ pipe \in Seq(Messages) /\ Len(pipe) = 1
    BY <1>1, <1>3
<1>5. TypeOK
    BY <1>1, <1>2, <1>4 DEF TypeOK
<1>6. pipe[1].type = "screen" /\ pipe[1].model = NewScreenModel
    BY <1>1 DEF Screen
<1>7. 1 \in ScreensBefore(2) /\ \A k \in ScreensBefore(2) : k <= 1
    BY <1>6 DEF ScreensBefore
<1>8. HasBefore(2, NewScreenModel)
    BY <1>6, <1>7 DEF HasBefore
<1>9. \A i \in 1..Len(pipe) : pipe[i].type # "text"
    BY <1>4, <1>6
<1>10. ModelsFollow
  <2>1. HasBefore(Len(pipe) + 1, z)
      BY <1>1, <1>4, <1>8
  <2> QED
      BY <1>9, <2>1 DEF ModelsFollow
<1>11. m.height = 0
    BY <1>1 DEF ZeroModel
<1>12. RowsCoverTheSplit /\ NarrowUntilWide
    BY <1>1, <1>4, <1>9, <1>11 DEF RowsCoverTheSplit, NarrowUntilWide
<1>13. RowsFitTheScreen /\ CrashesHaveACause
    BY <1>1, <1>4, <1>11 DEF RowsFitTheScreen, CrashesHaveACause
<1> QED
    BY <1>5, <1>10, <1>12, <1>13 DEF Inv

LEMMA InvInductive == TypeOK /\ Inv /\ [Next]_vars => TypeOK' /\ Inv'
<1> SUFFICES ASSUME TypeOK, Inv, [Next]_vars PROVE TypeOK' /\ Inv'
    OBVIOUS
<1>1. ASSUME NEW text \in Texts, AppendText(text) PROVE TypeOK' /\ Inv'
    BY <1>1, PrintsKeepsInv
<1>2. ASSUME NEW n \in Splits, Split(n) PROVE TypeOK' /\ Inv'
  <2>1. [z EXCEPT !.height = n] \in Models
      BY UpperWindowAssumption DEF TypeOK, Models
  <2> QED
      BY <1>2, <2>1, SendsModelKeepsInv DEF Split
<1>3. ASSUME NEW window \in {0, 1}, SetWindow(window) PROVE TypeOK' /\ Inv'
  <2> DEFINE model == IF window = 1 THEN [z EXCEPT !.lower = FALSE, !.x = 0, !.y = 0]
                      ELSE [z EXCEPT !.lower = (window = 0)]
  <2>1. model \in Models
      BY DEF TypeOK, Models
  <2>2. SendModel(model)
      BY <1>3 DEF SetWindow
  <2> QED
      BY <2>1, <2>2, SendsModelKeepsInv
<1>4. ASSUME NEW line \in Lines, NEW col \in Columns, SetCursor(line, col) PROVE TypeOK' /\ Inv'
  <2>1. line - 1 \in Nat \cup {-1} /\ col - 1 \in Nat \cup {-1}
      BY UpperWindowAssumption
  <2>2. [z EXCEPT !.x = col - 1, !.y = line - 1] \in Models
      BY <2>1 DEF TypeOK, Models
  <2> QED
      BY <1>4, <2>2, SendsModelKeepsInv DEF SetCursor
<1>5. ASSUME NEW v \in {-2, -1, 0, 1}, EraseWindow(v) PROVE TypeOK' /\ Inv'
    BY <1>5, ErasesKeepsInv
<1>6. CASE OnText
    BY <1>6, TextKeepsInv
<1>7. CASE OnScreen
    BY <1>7, ScreenKeepsInv
<1>8. CASE OnErase
    BY <1>8, EraseKeepsInv
<1>9. ASSUME NEW size \in Sizes, Resize(size[1], size[2]) PROVE TypeOK' /\ Inv'
  <2>1. size[1] \in Nat \ {0} /\ size[2] \in Nat \ {0}
      BY UpperWindowAssumption
  <2> QED
      BY <1>9, <2>1, ResizeKeepsInv
<1>10. CASE Restart
    BY <1>10, RestartKeepsInv
<1>11. CASE UNCHANGED vars
  <2>1. UNCHANGED <<version, z, m, pipe, width, height, rows, crashed, resized, wide>>
      BY <1>11 DEF vars
  <2> QED
      BY <2>1 DEF TypeOK, Inv, ModelsFollow, HasBefore, ScreensBefore, RowsCoverTheSplit,
                  NarrowUntilWide, RowsFitTheScreen, CrashesHaveACause
<1> QED
    BY <1>1, <1>2, <1>3, <1>4, <1>5, <1>6, <1>7, <1>8, <1>9, <1>10, <1>11 DEF Next

LEMMA AlwaysInv == Spec => [](TypeOK /\ Inv)
BY Initially, InvInductive, PTL DEF Spec

\* The variables keep their types: whatever is printed, split and resized, rows stay
\* strings with a count of styles and no cursor is more than one before the first column.
THEOREM TypeCorrect == Spec => []TypeOK
BY AlwaysInv, PTL

\* The rows of the upper window have the terminal's width in bytes and in styles, and
\* there are as many as the split has lines, until a resize or version 3 (update of main.go).
THEOREM RowsAlwaysFitTheScreen == Spec => []RowsFitTheScreen
<1>1. Inv => RowsFitTheScreen
    BY DEF Inv
<1> QED
    BY <1>1, AlwaysInv, PTL

\* Text is written in the window and at the position at which the interpreter printed
\* it, though the interface learns of both by message only.
THEOREM TextAlwaysLandsWhereItWasPrinted == Spec => []TextLandsWhereItWasPrinted
<1>1. TypeOK /\ Inv => TextLandsWhereItWasPrinted
    BY NextTextHasItsModel DEF TypeOK, Inv, TextLandsWhereItWasPrinted
<1> QED
    BY <1>1, AlwaysInv, PTL

\* The interface never panics for want of a row that it is to erase; a panic of another
\* kind has the cause that the property names.
THEOREM CrashesAlwaysHaveACause == Spec => []CrashesHaveACause
<1>1. Inv => CrashesHaveACause
    BY DEF Inv
<1> QED
    BY <1>1, AlwaysInv, PTL
=============================================================================

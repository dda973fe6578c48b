------------------------------ MODULE UpperWindow ------------------------------
(****************************************************************************)
(* The upper window: the interpreter's screen model, the copy of it that    *)
(* the user interface holds, and the rows of text and styles the interface  *)
(* draws.  Text and screen models travel one behind the other, and the      *)
(* terminal may be resized between any two of them.                         *)
(*                                                                          *)
(* A row is a Go string, sliced by bytes and drawn by runes; a byte is one  *)
(* of a one-byte character, or the first or second of a two-byte one.       *)
(* Styles are counted, colours are left out, and so is the lower window.    *)
(****************************************************************************)
EXTENDS Integers, Sequences, FiniteSets

CONSTANTS
    Versions,    \* versions the story may be of
    Sizes,       \* <<width, height>> the terminal may have
    Splits,      \* heights SPLIT_WINDOW asks for
    Lines,       \* lines SET_CURSOR asks for, counted from 1
    Columns,     \* columns SET_CURSOR asks for, counted from 1
    Texts,       \* what is printed: texts split at their newlines
    MaxCursor    \* bound on the cursor before text is printed

Bytes == {"one", "lead", "follow"}

ASSUME UpperWindowAssumption ==
    /\ Versions \subseteq 1..8
    /\ Sizes \subseteq (Nat \ {0}) \X (Nat \ {0})
    /\ Splits \subseteq Nat /\ Lines \subseteq Nat /\ Columns \subseteq Nat
    /\ Texts \subseteq (Seq(Seq(Bytes)) \ {<<>>})
    /\ MaxCursor \in Nat

VARIABLES
    version,         \* of the story
    z,               \* the interpreter's screen model
    m,               \* the user interface's copy
    pipe,            \* messages sent and not yet handled
    width, height,   \* the terminal, 0 until it is known
    rows,            \* upperWindowText and upperWindowStyle
    crashed,         \* "none", or where the user interface panicked
    resized,         \* history: since the last screen model was handled
    wide             \* history: two-byte characters went to the upper window

vars == <<version, z, m, pipe, width, height, rows, crashed, resized, wide>>
zVars == <<version, z, pipe, wide>>
uiVars == <<m, width, height, rows, crashed, resized>>

Models == [lower : BOOLEAN, height : Nat, x : Nat \cup {-1}, y : Nat \cup {-1}]

\* newScreenModel, and the zero value the user interface starts with.
NewScreenModel == [lower |-> TRUE, height |-> 0, x |-> 1, y |-> 1]
ZeroModel == [lower |-> FALSE, height |-> 0, x |-> 0, y |-> 0]

Smaller(a, b) == IF a < b THEN a ELSE b

-----------------------------------------------------------------------------
(* The instructions.                                                        *)

Screen(model) == [type |-> "screen", model |-> model]
Erase(v) == [type |-> "erase", value |-> v]

\* The interpreter computes while at most its last message is on its way.
Send(msgs) ==
    /\ crashed = "none"
    /\ Len(pipe) <= 1
    /\ pipe' = pipe \o msgs
    /\ UNCHANGED <<version, uiVars>>

SendModel(model) ==
    /\ z' = model
    /\ Send(<<Screen(model)>>)
    /\ UNCHANGED wide

\* appendText: the cursor moves by bytes, newlines included.  A message notes
\* (for the properties) where the interpreter had the cursor.
AppendText(text) ==
    LET n == Len(text)
        msg == [type |-> "text", text |-> text, at |-> z]
        moved == [z EXCEPT !.y = @ + n - 1,
                           !.x = IF n = 1 THEN @ + Len(text[1]) ELSE Len(text[n])]
    IN  /\ z.x <= MaxCursor /\ z.y <= MaxCursor
        /\ IF z.lower
           THEN Send(<<msg>>) /\ UNCHANGED <<z, wide>>
           ELSE /\ Send(<<msg, Screen(moved)>>)
                /\ z' = moved
                /\ wide' = (wide \/ \E i \in 1..n : \E j \in 1..Len(text[i]) : text[i][j] # "one")

\* SPLIT_WINDOW (an error report before version 3, see Session).
Split(n) ==
    /\ version >= 3
    /\ SendModel([z EXCEPT !.height = n])

SetWindow(window) ==
    /\ version >= 3
    /\ SendModel(IF window = 1 THEN [z EXCEPT !.lower = FALSE, !.x = 0, !.y = 0]
                               ELSE [z EXCEPT !.lower = (window = 0)])

\* Faulty variant: the new position is not sent.
SetCursor_NotSent(line, col) ==
    /\ ~z.lower
    /\ z' = [z EXCEPT !.x = col - 1, !.y = line - 1]
    /\ Send(<<>>)
    /\ UNCHANGED wide

SetCursor(line, col) ==
    /\ ~z.lower
    /\ SendModel([z EXCEPT !.x = col - 1, !.y = line - 1])

\* ERASE_WINDOW (values other than these end the program, see Session).
EraseWindow(v) ==
    LET home == IF v = 0 THEN z ELSE [z EXCEPT !.x = 0, !.y = 0]
        model == IF v = -1 THEN [home EXCEPT !.height = 0, !.lower = TRUE] ELSE home
    IN  /\ z' = model
        /\ Send(<<Screen(model), Erase(v)>>)
        /\ UNCHANGED wide

-----------------------------------------------------------------------------
(* The user interface.                                                      *)

Spaces(n) == [i \in 1..n |-> "one"]
Blank(n) == [text |-> Spaces(n), styles |-> n]
BlankRows(k, n) == [i \in 1..k |-> Blank(n)]

Front(s, n) == SubSeq(s, 1, n)

\* Runes of a row: a lead byte and its follower are one, any other byte is one
\* (a stray half is drawn as the replacement character).
Runes(s) ==
    Len(s) - Cardinality({i \in 1..(Len(s) - 1) : s[i] = "lead" /\ s[i + 1] = "follow"})

\* View, which follows every Update.  The rows are drawn column by column of
\* their styles; the lower window gets what is left of the height.
View(w, h, rs, model) ==
    IF w = 0 \/ h = 0 THEN "none"
    ELSE IF \E i \in 1..Len(rs) : rs[i].styles > Runes(rs[i].text) THEN "rune"
    ELSE IF h - model.height < 2 THEN "height"
    ELSE "none"

Draw == crashed' = View(width', height', rows', m')

Panic(where) == crashed' = where /\ UNCHANGED <<m, rows>>

Handle(type) ==
    /\ crashed = "none"
    /\ pipe # <<>> /\ Head(pipe).type = type
    /\ pipe' = Tail(pipe)
    /\ UNCHANGED <<version, z, wide, width, height>>

\* A segment overwrites the row from column x on; what is too long is cut.
Overwritten(row, segment, x) ==
    IF x >= Len(row.text) THEN row
    ELSE LET s == Front(row.text, x) \o segment
                  \o SubSeq(row.text, x + Len(segment) + 1, Len(row.text))
         IN  [row EXCEPT !.text = Front(s, Smaller(Len(s), width))]

OnText ==
    LET msg == Head(pipe) IN
    /\ Handle("text")
    /\ UNCHANGED resized
    /\ \/ m.lower /\ UNCHANGED <<m, rows>> /\ Draw
       \/ ~m.lower /\ m.x < 0 /\ m.y \in 0..(Len(rows) - 1) /\ Panic("column")
       \/ /\ ~m.lower
          /\ m.x >= 0 \/ m.y \notin 0..(Len(rows) - 1)
          /\ rows' = [r \in 1..Len(rows) |->
                LET k == r - m.y IN
                IF k \in 1..Len(msg.text)
                THEN Overwritten(rows[r], msg.text[k], IF k = 1 THEN m.x ELSE 0)
                ELSE rows[r]]
          /\ UNCHANGED m
          /\ Draw

\* Faulty variant: rows are dropped and never added.
OnScreen_TrimsOnly ==
    LET model == Head(pipe).model
        n == Len(rows)
    IN  /\ Handle("screen")
        /\ resized' = FALSE
        /\ m' = model
        /\ rows' = IF n > model.height THEN Front(rows, model.height) ELSE rows
        /\ Draw

\* Version 3 clears the rows of the split, later ones drop or add rows.
OnScreen ==
    LET model == Head(pipe).model
        n == Len(rows)
    IN  /\ Handle("screen")
        /\ resized' = FALSE
        /\ IF version = 3 /\ n < model.height
           THEN Panic("split")
           ELSE /\ m' = model
                /\ rows' = CASE n = model.height -> rows
                             [] version = 3 /\ n # model.height ->
                                  BlankRows(model.height, width) \o SubSeq(rows, model.height + 1, n)
                             [] version # 3 /\ n > model.height -> Front(rows, model.height)
                             [] OTHER -> rows \o BlankRows(model.height - n, width)
                /\ Draw

OnErase ==
    LET v == Head(pipe).value
        n == Len(rows)
    IN  /\ Handle("erase")
        /\ UNCHANGED resized
        /\ IF v \in {-2, 1} /\ n < m.height
           THEN Panic("erase")
           ELSE /\ rows' = CASE v \in {-2, 1} ->
                                  BlankRows(m.height, width) \o SubSeq(rows, m.height + 1, n)
                             [] v = -1 -> BlankRows(n, width)
                             [] OTHER -> rows
                /\ UNCHANGED m
                /\ Draw

\* Each row is cut or padded to the width.
Fitted(row, w) ==
    LET n == Len(row.text) IN
    IF w < n THEN [text |-> Front(row.text, w), styles |-> w]
    ELSE [text |-> row.text \o Spaces(w - n), styles |-> row.styles + w - n]

\* Faulty variant: rows are added without regard to those there are.
Resize_AddsTheSplit(w, h) ==
    LET n == Len(rows)
        kept == IF h < n THEN Front(rows, h) ELSE rows \o BlankRows(m.height, w)
    IN  /\ crashed = "none"
        /\ width' = w /\ height' = h
        /\ rows' = [i \in 1..Len(kept) |-> Fitted(kept[i], w)]
        /\ resized' = TRUE
        /\ UNCHANGED <<zVars, m>>
        /\ Draw

\* Faulty variant: rows that were there keep their width.
Resize_KeepsRows(w, h) ==
    LET n == Len(rows) IN
    /\ crashed = "none"
    /\ width' = w /\ height' = h
    /\ rows' = IF h < n THEN Front(rows, h)
               ELSE rows \o BlankRows(Smaller(h - n, m.height), w)
    /\ resized' = TRUE
    /\ UNCHANGED <<zVars, m>>
    /\ Draw

Resize(w, h) ==
    LET n == Len(rows)
        kept == IF h < n THEN Front(rows, h)
                ELSE rows \o BlankRows(Smaller(h - n, m.height), w)
    IN  /\ crashed = "none"
        /\ width' = w /\ height' = h
        /\ rows' = [i \in 1..Len(kept) |-> Fitted(kept[i], w)]
        /\ resized' = TRUE
        /\ UNCHANGED <<zVars, m>>
        /\ Draw

\* A restart comes when all messages before it are handled; the copy of the
\* screen model stays until the new machine sends its own.
Restart ==
    /\ crashed = "none"
    /\ pipe = <<>>
    /\ z' = NewScreenModel
    /\ pipe' = <<Screen(NewScreenModel)>>
    /\ rows' = BlankRows(Len(rows), width)
    /\ UNCHANGED <<version, m, width, height, resized, wide>>
    /\ Draw

Init ==
    /\ version \in Versions
    /\ z = NewScreenModel
    /\ m = ZeroModel
    /\ pipe = <<Screen(NewScreenModel)>>
    /\ width = 0 /\ height = 0
    /\ rows = <<>>
    /\ crashed = "none"
    /\ resized = FALSE
    /\ wide = FALSE

Next ==
    \/ \E text \in Texts : AppendText(text)
    \/ \E n \in Splits : Split(n)
    \/ \E window \in {0, 1} : SetWindow(window)
    \/ \E line \in Lines, col \in Columns : SetCursor(line, col)
    \/ \E v \in {-2, -1, 0, 1} : EraseWindow(v)
    \/ OnText \/ OnScreen \/ OnErase
    \/ \E size \in Sizes : Resize(size[1], size[2])
    \/ Restart

Spec == Init /\ [][Next]_vars

-----------------------------------------------------------------------------
(* Properties.                                                              *)

\* "Keep the upper window at exactly the size of the screen" (main.go:176):
\* each row has one byte and one style per column, after any mix of overlong
\* text, newlines, splits and resizes; there are no more rows than lines of the
\* screen or of the split, and unless the terminal was resized since the last
\* screen model there is one for each line of the split.
RowsFitTheScreen ==
    /\ \A i \in 1..Len(rows) : Len(rows[i].text) = width /\ rows[i].styles = width
    /\ Len(rows) <= height \/ Len(rows) <= m.height
    /\ version # 3 /\ crashed = "none" /\ ~resized => Len(rows) = m.height

\* Text that the interface is to write next goes to the window and to the position
\* at which the interpreter printed it: the two copies of the screen model never
\* drift apart in between.
TextLandsWhereItWasPrinted ==
    crashed = "none" /\ pipe # <<>> /\ Head(pipe).type = "text" =>
        LET at == Head(pipe).at IN
        /\ m.lower = at.lower
        /\ ~at.lower => m.x = at.x /\ m.y = at.y

\* Erasing never reaches for a row that a resize has taken away: the terminal
\* would have become too low to draw before.  A column that is missing when the
\* rows are drawn is the doing of a character of several bytes, a position
\* before the first column the doing of SET_CURSOR with column 0, and splitting
\* reaches for rows that do not exist in version 3 only.
CrashesHaveACause ==
    /\ crashed # "erase"
    /\ crashed = "rune" => wide
    /\ crashed = "column" => m.x = -1
    /\ crashed = "split" => version = 3
-----------------------------------------------------------------------------
(* The inductive invariant behind the safety properties: what is on its way *)
(* from the interpreter to the interface.                                   *)

Rows == [text : Seq(Bytes), styles : Nat]

Messages ==
    [type : {"screen"}, model : Models] \cup [type : {"erase"}, value : {-2, -1, 0, 1}]
    \cup [type : {"text"}, text : Texts, at : Models]

\* The variables keep their types; no cursor is farther out than one before the first.
TypeOK ==
    /\ version \in Versions
    /\ z \in Models /\ m \in Models
    /\ pipe \in Seq(Messages)
    /\ width \in Nat /\ height \in Nat
    /\ rows \in Seq(Rows)
    /\ crashed \in {"none", "rune", "height", "column", "split", "erase"}
    /\ resized \in BOOLEAN /\ wide \in BOOLEAN

\* The interface has this model when it has handled the messages before the i-th.
ScreensBefore(i) == {j \in 1..(i - 1) : pipe[j].type = "screen"}

HasBefore(i, model) ==
    \/ ScreensBefore(i) = {} /\ model = m
    \/ \E j \in ScreensBefore(i) :
         (\A k \in ScreensBefore(i) : k <= j) /\ model = pipe[j].model

\* Each text was printed with the model the interface will have when it comes, and the
\* interpreter has the one the interface will have at last.
ModelsFollow ==
    crashed = "none" =>
        /\ \A i \in 1..Len(pipe) : pipe[i].type = "text" => HasBefore(i, pipe[i].at)
        /\ HasBefore(Len(pipe) + 1, z)

\* In version 3 rows come from resizing only; else each split brings its own.
RowsCoverTheSplit ==
    /\ version = 3 => Len(rows) <= height
    /\ crashed = "none" => m.height <= Len(rows)

\* No row holds anything but characters of one byte, nor do texts for the upper window.
Narrow == Seq({"one"})

NarrowUntilWide ==
    ~wide => /\ \A i \in 1..Len(rows) : rows[i].text \in Narrow
             /\ \A i \in 1..Len(pipe) :
                  pipe[i].type = "text" /\ ~pipe[i].at.lower => pipe[i].text \in Seq(Narrow)

Inv ==
    /\ ModelsFollow
    /\ RowsCoverTheSplit
    /\ NarrowUntilWide
    /\ RowsFitTheScreen
    /\ CrashesHaveACause
=============================================================================

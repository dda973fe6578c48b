---------------------------- MODULE SessionConsole ----------------------------
(****************************************************************************)
(* The session implements the console: nothing told is lost, duplicated,    *)
(* reordered, shown in the wrong window or shown behind a prompt.           *)
(* The console is the lower window; the upper window is a grid of its own.  *)
(****************************************************************************)
EXTENDS Session

ClearItem == Entry("clear", 0)

\* The items of the lower window a message carries.
Items(m) ==
    CASE m.type = "text" /\ m.win = "lower" -> <<Entry("story", m.id)>>
      [] m.type = "eraseWindow" /\ m.value \in {-2, -1, 0} -> <<ClearItem>>
      [] OTHER -> <<>>

\* Messages of the current machine in the order they were sent: at most one is
\* in flight (OneListener), at most two are still to be sent.
ItemsOf(S) == IF S = {} THEN <<>> ELSE Items((CHOOSE e \in S : TRUE).msg)
InFlight == ItemsOf(FromPump(gen))

ItemsIn(o) ==
    (IF Len(o) >= 1 THEN Items(o[1]) ELSE <<>>) \o (IF Len(o) >= 2 THEN Items(o[2]) ELSE <<>>)
Unsent == ItemsIn(out[gen])

Phase ==
    CASE ui = "exited" -> "over"
      [] ui # "exited" /\ appState = "input" -> "awaitLine"
      [] ui # "exited" /\ appState = "character" -> "awaitKey"
      [] OTHER -> "telling"

C == INSTANCE Console WITH
        Told <- {Entry("story", n) : n \in 1..MaxTexts} \cup {ClearItem},
        Answers <- {Entry("player", n) : n \in 0..MaxBox},
        Clear <- ClearItem,
        phase <- Phase,
        pending <- InFlight \o Unsent,
        display <- lowerText

\* The messages of waitForInterpreter and the handlers of Update carry the
\* story's text to the display as the console promises.
ImplementsConsole == C!Spec

-----------------------------------------------------------------------------
(* The inductive invariant behind the refinement: a text comes when the     *)
(* interface has the window the interpreter printed it in.                  *)

Turned(w, m) == IF m.type = "screen" THEN m.win ELSE w

\* The interface's window, now w, when the messages S in flight, or the first k of o,
\* are handled.
Ahead(S, w) == IF S = {} THEN w ELSE Turned(w, (CHOOSE e \in S : TRUE).msg)

WindowAfter(w, o, k) ==
    IF k = 0 THEN w
    ELSE IF k = 1 THEN Turned(w, o[1])
    ELSE Turned(Turned(w, o[1]), o[2])

\* From window w on, the messages o lead to the window the interpreter has.
LeadsTo(w, o, interpreter) ==
    /\ Len(o) <= 2
    /\ \A i \in 1..Len(o) : o[i].type = "text" => o[i].win = WindowAfter(w, o, i - 1)
    /\ interpreter = WindowAfter(w, o, Len(o))

ConsoleInv ==
    /\ \A e \in FromPump(gen) : e.msg.type = "text" => e.msg.win = uiWin
    /\ LeadsTo(Ahead(FromPump(gen), uiWin), out[gen], win[gen])
    /\ \A g \in Gens : g > gen => win[g] = "lower"
=============================================================================

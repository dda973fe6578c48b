------------------------------- MODULE Console -------------------------------
(****************************************************************************)
(* What a playing session promises, seen from the player's chair: the story *)
(* tells, the console shows what was told in the order it was told, and a   *)
(* prompt comes up only when everything told before it is on display.       *)
(* While the console awaits the player nothing is told and nothing shown.   *)
(****************************************************************************)
EXTENDS Sequences

CONSTANTS Told,    \* what the story can tell: entries and Clear
          Answers, \* what the player can enter
          Clear    \* the item that clears the display

VARIABLES phase,   \* "telling", "awaitLine", "awaitKey" or "over"
          pending, \* told and not yet shown
          display  \* shown

consoleVars == <<phase, pending, display>>

Init == phase = "telling" /\ pending = <<>> /\ display = <<>>

Tell(item) ==
    /\ phase = "telling"
    /\ pending' = Append(pending, item)
    /\ UNCHANGED <<phase, display>>

Show ==
    /\ phase = "telling"
    /\ pending # <<>>
    /\ display' = IF Head(pending) = Clear THEN <<>> ELSE Append(display, Head(pending))
    /\ pending' = Tail(pending)
    /\ UNCHANGED phase

Ask ==
    /\ phase = "telling"
    /\ pending = <<>>
    /\ phase' \in {"awaitLine", "awaitKey"}
    /\ UNCHANGED <<pending, display>>

EnterLine(a) ==
    /\ phase = "awaitLine"
    /\ phase' = "telling"
    /\ display' = Append(display, a)
    /\ UNCHANGED pending

EnterKey ==
    /\ phase = "awaitKey"
    /\ phase' = "telling"
    /\ UNCHANGED <<pending, display>>

StartAgain ==
    /\ phase = "telling"
    /\ pending = <<>>
    /\ display' = <<>>
    /\ UNCHANGED <<phase, pending>>

Stop ==
    /\ phase # "over"
    /\ phase' = "over"
    /\ UNCHANGED <<pending, display>>

Next ==
    \/ \E item \in Told : Tell(item)
    \/ Show \/ Ask \/ EnterKey \/ StartAgain \/ Stop
    \/ \E a \in Answers : EnterLine(a)

Spec == Init /\ [][Next]_consoleVars
=============================================================================

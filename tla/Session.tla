------------------------------- MODULE Session -------------------------------
(****************************************************************************)
(* A playing session: the interpreter goroutine (zmachine.Run), the pump    *)
(* commands that carry its messages (waitForInterpreter) and the Bubble Tea *)
(* model that shows them and answers (runStoryModel.Update).                *)
(*                                                                          *)
(* The three channels between them are unbuffered, so a send is one step    *)
(* with its receive.  A restart makes new channels and a new machine and    *)
(* abandons the old goroutine: machines are numbered by generation, and     *)
(* every machine of the session works on the same story bytes.              *)
(****************************************************************************)
EXTENDS Integers, Sequences

CONSTANTS
    Version,      \* story file version
    Mem,          \* contents of the story's dynamic memory
    Pristine,     \* the contents the story file was read with
    Stack,        \* call stacks
    BootStack,    \* the call stack LoadRom builds
    MaxGen,       \* bound: machines of a session (restarts + 1)
    MaxTexts,     \* bound: texts the story prints
    MaxBox,       \* bound: characters in the input box (CharLimit 156)
    MaxLog        \* bound: entries of the lower window when a line is entered

ASSUME MemAssumption == Pristine \in Mem
ASSUME StackAssumption == BootStack \in Stack
ASSUME BoundsAssumption ==
    /\ Version \in 1..8
    /\ MaxGen \in Nat \ {0}
    /\ MaxTexts \in Nat
    /\ MaxBox \in Nat
    /\ MaxLog \in Nat

VARIABLES
    ipc,          \* per machine: what it does once its sends are taken
    out,          \* per machine: messages the instruction under way still has to send
    win,          \* per machine: the window that is active (LowerWindowActive)
    want,         \* per machine: terminators of its latest InputRequest
    stack,        \* per machine: its call stack
    mem,          \* story bytes, shared by every machine and by romBytes
    texts,        \* texts printed so far (numbers them)
    armed,        \* per machine: waitForInterpreter commands blocked on its channel
    inbox,        \* messages in flight to the event loop
    ui,           \* where the event loop is
    gen,          \* the machine whose channels the model holds
    appState,     \* appRunning, appWaitingForInput, appWaitingForCharacter
    terms,        \* validTerminators
    box,          \* number of characters in the input box
    uiWin,        \* active window of the UI's copy of the screen model
    lowerText,    \* lowerWindowText, as a sequence of entries
    runtimeError, \* runtimeError: "none", or what it was set for
    export,       \* the save state Update is working with
    reply,        \* the value Update is blocked sending
    disk          \* the save file

interpVars == <<ipc, out, win, want, stack, texts>>
uiVars == <<gen, appState, terms, box, uiWin, lowerText, runtimeError>>
fileVars == <<export, reply, disk>>
vars == <<interpVars, mem, armed, inbox, ui, uiVars, fileVars>>

Gens == 1..MaxGen
Windows == {"lower", "upper"}
Keys == {"enter", "fn", "rune"}
TerminatorSets == IF Version >= 5 THEN {{"enter"}, {"enter", "fn"}} ELSE {{"enter"}}
EraseValues == {-2, -1, 0, 1, 2}

-----------------------------------------------------------------------------
(* Messages.                                                                *)

Plain == {"status", "warning", "char", "eraseLine", "sound", "restart", "quit", "error"}

Msg == [type : Plain]
       \cup [type : {"text"}, id : 1..MaxTexts, win : Windows]
       \cup [type : {"screen"}, win : Windows]
       \cup [type : {"input"}, terms : TerminatorSets]
       \cup [type : {"save", "restore"}, full : BOOLEAN]
       \cup [type : {"eraseWindow"}, value : EraseValues]

\* waitForInterpreter has no case for these two and turns them into an error.
Unforwarded == {"eraseLine", "sound"}
Invalid == [type : {"invalid"}, was : Unforwarded]

Screen(w) == [type |-> "screen", win |-> w]
Bare(t) == [type |-> t]

Snapshot(m, s) == [kind |-> "snapshot", mem |-> m, stack |-> s]
NotASnapshot(k) == [kind |-> k, mem |-> Pristine, stack |-> BootStack]
Files == [kind : {"none", "torn", "foreign", "snapshot"}, mem : Mem, stack : Stack]

Entry(by, n) == [by |-> by, n |-> n]

Line(b, k) == [to |-> "readLine", text |-> b, key |-> k]
Char(k) == [to |-> "readChar", text |-> IF k = "rune" THEN 1 ELSE 0, key |-> k]
SaveResult(ok) == [to |-> "save", success |-> ok]
RestoreResult(ok) == [to |-> "restore", success |-> ok]
NoReply == [to |-> "nobody"]

-----------------------------------------------------------------------------
(* The interpreter goroutine of machine g.  An instruction computes, then   *)
(* sends its messages one at a time, then waits or goes on.                 *)

Running(g) == ipc[g] = "step" /\ out[g] = <<>>

Issue(g, msgs, next) ==
    /\ ui # "exited"
    /\ Running(g)
    /\ out' = [out EXCEPT ![g] = msgs]
    /\ ipc' = [ipc EXCEPT ![g] = next]
    /\ UNCHANGED <<armed, inbox, ui, uiVars, fileVars>>

\* Any instruction that sends nothing: it may write memory and the stack.
Compute(g) ==
    /\ Issue(g, <<>>, "step")
    /\ \E m \in Mem, s \in Stack : mem' = m /\ stack' = [stack EXCEPT ![g] = s]
    /\ UNCHANGED <<win, want, texts>>

\* appendText with the screen stream selected.
AppendText(g) ==
    /\ texts < MaxTexts
    /\ texts' = texts + 1
    /\ LET text == [type |-> "text", id |-> texts + 1, win |-> win[g]] IN
       Issue(g, IF win[g] = "lower" THEN <<text>> ELSE <<text, Screen("upper")>>, "step")
    /\ UNCHANGED <<win, want, stack, mem>>

\* The instructions that change the screen model and send it: SET_WINDOW
\* chooses the window, SPLIT_WINDOW, SET_CURSOR and the styles keep it.
SetWindow(g) ==
    /\ \E w \in Windows : /\ win' = [win EXCEPT ![g] = w]
                          /\ Issue(g, <<Screen(w)>>, "step")
    /\ UNCHANGED <<want, stack, mem, texts>>

EraseWindow(g) ==
    /\ \E v \in EraseValues :
         LET w == IF v = -1 THEN "lower" ELSE win[g] IN
         /\ win' = [win EXCEPT ![g] = w]
         /\ Issue(g, <<Screen(w), [type |-> "eraseWindow", value |-> v]>>, "step")
    /\ UNCHANGED <<want, stack, mem, texts>>

\* ERASE_LINE 1, SOUND_EFFECT, and an instruction that calls warnOnce.
Notify(g) ==
    /\ \E t \in {"eraseLine", "sound", "warning"} : Issue(g, <<Bare(t)>>, "step")
    /\ UNCHANGED <<win, want, stack, mem, texts>>

Read(g) ==
    /\ \E t \in TerminatorSets :
         /\ want' = [want EXCEPT ![g] = t]
         /\ LET request == [type |-> "input", terms |-> t] IN
            Issue(g, IF Version <= 3 THEN <<Bare("status"), request>> ELSE <<request>>,
                  "readLine")
    /\ UNCHANGED <<win, stack, mem, texts>>

\* Faulty variant: the instruction goes on without receiving the answer.
ReadChar_DoesNotWait(g) ==
    /\ Issue(g, <<Bare("char")>>, "step")
    /\ UNCHANGED <<win, want, stack, mem, texts>>

ReadChar(g) ==
    /\ Issue(g, <<Bare("char")>>, "readChar")
    /\ UNCHANGED <<win, want, stack, mem, texts>>

\* Faulty variant: the request is sent and the story goes on meanwhile.
SaveOrRestore_DoesNotWait(g) ==
    /\ \E t \in {"save", "restore"} : Issue(g, <<[type |-> t, full |-> TRUE]>>, "step")
    /\ UNCHANGED <<win, want, stack, mem, texts>>

\* SAVE / EXT_SAVE and RESTORE / EXT_RESTORE; only the EXT forms can be
\* partial ("auxiliary").
SaveOrRestore(g) ==
    /\ \E t \in {"save", "restore"}, full \in IF Version >= 5 THEN BOOLEAN ELSE {TRUE} :
         Issue(g, <<[type |-> t, full |-> full]>>, t)
    /\ UNCHANGED <<win, want, stack, mem, texts>>

\* RESTART returns false, so Run sends Quit after it.
Restart(g) ==
    /\ g < MaxGen
    /\ Issue(g, <<Bare("restart"), Bare("quit")>>, "halt")
    /\ UNCHANGED <<win, want, stack, mem, texts>>

QuitOp(g) ==
    /\ Issue(g, <<Bare("quit")>>, "halt")
    /\ UNCHANGED <<win, want, stack, mem, texts>>

\* reportError, or a panic that Run recovers from.
Fail(g) ==
    /\ Issue(g, <<Bare("error"), Bare("quit")>>, "halt")
    /\ UNCHANGED <<win, want, stack, mem, texts>>

Instruction(g) ==
    \/ Compute(g) \/ AppendText(g) \/ SetWindow(g) \/ EraseWindow(g) \/ Notify(g)
    \/ Read(g) \/ ReadChar(g) \/ SaveOrRestore(g)
    \/ Restart(g) \/ QuitOp(g) \/ Fail(g)

-----------------------------------------------------------------------------
(* The pump: one waitForInterpreter command takes one message.              *)

Forward(m) == IF m.type \in Unforwarded THEN [type |-> "invalid", was |-> m.type] ELSE m

\* Faulty variant: the command goes on listening for a message it was not armed for.
Pump_Unarmed(g) ==
    /\ ui # "exited"
    /\ out[g] # <<>>
    /\ armed' = [armed EXCEPT ![g] = @ - 1]
    /\ inbox' = inbox \cup {[from |-> g, msg |-> Forward(Head(out[g]))]}
    /\ out' = [out EXCEPT ![g] = Tail(@)]
    /\ UNCHANGED <<ipc, win, want, stack, texts, mem, ui, uiVars, fileVars>>

Pump(g) ==
    /\ ui # "exited"
    /\ armed[g] > 0
    /\ out[g] # <<>>
    /\ armed' = [armed EXCEPT ![g] = @ - 1]
    /\ inbox' = inbox \cup {[from |-> g, msg |-> Forward(Head(out[g]))]}
    /\ out' = [out EXCEPT ![g] = Tail(@)]
    /\ UNCHANGED <<ipc, win, want, stack, texts, mem, ui, uiVars, fileVars>>

-----------------------------------------------------------------------------
(* The event loop: Update on one message at a time.                         *)

\* The result of a tea.Quit command.
QuitCmd == [from |-> 0, msg |-> Bare("quit")]

Take(e, types) ==
    /\ ui = "loop"
    /\ e \in inbox
    /\ e.msg.type \in types

\* A handler that ends in waitForInterpreter(m.outputChannel).
TakeAndRearm(e, types) ==
    /\ Take(e, types)
    /\ inbox' = inbox \ {e}
    /\ armed' = [armed EXCEPT ![gen] = @ + 1]

OnText(e) ==
    /\ TakeAndRearm(e, {"text"})
    /\ lowerText' = IF uiWin = "lower" THEN Append(lowerText, Entry("story", e.msg.id))
                                       ELSE lowerText
    /\ UNCHANGED <<interpVars, mem, ui, gen, appState, terms, box, uiWin, runtimeError, fileVars>>

\* Faulty variant: the UI keeps the window it had.
OnScreenModel_KeepsWindow(e) ==
    /\ TakeAndRearm(e, {"screen"})
    /\ uiWin' = IF lowerText = <<>> THEN e.msg.win ELSE uiWin
    /\ UNCHANGED <<interpVars, mem, ui, gen, appState, terms, box, lowerText, runtimeError, fileVars>>

OnScreenModel(e) ==
    /\ TakeAndRearm(e, {"screen"})
    /\ uiWin' = e.msg.win
    /\ UNCHANGED <<interpVars, mem, ui, gen, appState, terms, box, lowerText, runtimeError, fileVars>>

\* Faulty variant: the case falls out of the switch without a new listener.
OnNotice_NoRearm(e) ==
    /\ Take(e, {"status", "warning"})
    /\ inbox' = inbox \ {e}
    /\ UNCHANGED <<interpVars, mem, armed, ui, uiVars, fileVars>>

\* The status bar and warnings: nothing here depends on what they show.
OnNotice(e) ==
    /\ TakeAndRearm(e, {"status", "warning"})
    /\ UNCHANGED <<interpVars, mem, ui, uiVars, fileVars>>

OnInputRequest(e) ==
    /\ TakeAndRearm(e, {"input"})
    /\ appState' = "input"
    /\ terms' = e.msg.terms
    /\ UNCHANGED <<interpVars, mem, ui, gen, box, uiWin, lowerText, runtimeError, fileVars>>

OnWaitForCharacter(e) ==
    /\ TakeAndRearm(e, {"char"})
    /\ appState' = "character"
    /\ UNCHANGED <<interpVars, mem, ui, gen, terms, box, uiWin, lowerText, runtimeError, fileVars>>

OnEraseWindow(e) ==
    /\ Take(e, {"eraseWindow"})
    /\ IF e.msg.value \in {-2, -1, 0, 1}
       THEN /\ TakeAndRearm(e, {"eraseWindow"})
            /\ lowerText' = IF e.msg.value = 1 THEN lowerText ELSE <<>>
            /\ UNCHANGED runtimeError
       ELSE /\ inbox' = (inbox \ {e}) \cup {QuitCmd}
            /\ runtimeError' = "eraseWindow"
            /\ UNCHANGED <<armed, lowerText>>
    /\ UNCHANGED <<interpVars, mem, ui, gen, appState, terms, box, uiWin, fileVars>>

\* Faulty variant: the error is shown and the program stays.
OnRuntimeError_Stays(e) ==
    /\ Take(e, {"error", "invalid"})
    /\ inbox' = inbox \ {e}
    /\ runtimeError' = IF e.msg.type = "error" THEN "reported" ELSE e.msg.was
    /\ UNCHANGED <<interpVars, mem, armed, ui, gen, appState, terms, box, uiWin, lowerText, fileVars>>

OnRuntimeError(e) ==
    /\ Take(e, {"error", "invalid"})
    /\ inbox' = (inbox \ {e}) \cup {QuitCmd}
    /\ runtimeError' = IF e.msg.type = "error" THEN "reported" ELSE e.msg.was
    /\ UNCHANGED <<interpVars, mem, armed, ui, gen, appState, terms, box, uiWin, lowerText, fileVars>>

\* Faulty variant: the old channel is listened to as well.
OnRestart_KeepsListener(e) ==
    /\ Take(e, {"restart"})
    /\ gen < MaxGen
    /\ inbox' = inbox \ {e}
    /\ gen' = gen + 1
    /\ ipc' = [ipc EXCEPT ![gen + 1] = "step"]
    /\ out' = [out EXCEPT ![gen + 1] = <<Screen("lower")>>]
    /\ armed' = [armed EXCEPT ![gen] = @ + 1, ![gen + 1] = @ + 1]
    /\ appState' = "running"
    /\ lowerText' = <<>>
    /\ UNCHANGED <<win, want, stack, texts, mem, ui, terms, box, uiWin, runtimeError, fileVars>>

\* LoadRom on romBytes: a new machine on the bytes the old one wrote to.
OnRestart(e) ==
    /\ Take(e, {"restart"})
    /\ gen < MaxGen
    /\ inbox' = inbox \ {e}
    /\ gen' = gen + 1
    /\ ipc' = [ipc EXCEPT ![gen + 1] = "step"]
    /\ out' = [out EXCEPT ![gen + 1] = <<Screen("lower")>>]
    /\ armed' = [armed EXCEPT ![gen + 1] = @ + 1]
    /\ appState' = "running"
    /\ lowerText' = <<>>
    /\ UNCHANGED <<win, want, stack, texts, mem, ui, terms, box, uiWin, runtimeError, fileVars>>

OnQuit(e) ==
    /\ Take(e, {"quit"})
    /\ inbox' = inbox \ {e}
    /\ ui' = "exited"
    /\ UNCHANGED <<interpVars, mem, armed, uiVars, fileVars>>

-----------------------------------------------------------------------------
(* Saving and restoring: Update works while the interpreter is blocked.     *)

\* Faulty variant: the auxiliary save is dropped without a response.
OnSave_NoResponse(e) ==
    /\ Take(e, {"save"})
    /\ IF e.msg.full
       THEN /\ inbox' = inbox \ {e}
            /\ ui' = "copyStack" /\ export' = Snapshot(mem, BootStack)
            /\ UNCHANGED armed
       ELSE TakeAndRearm(e, {"save"}) /\ UNCHANGED <<ui, export>>
    /\ UNCHANGED <<interpVars, mem, uiVars, reply, disk>>

\* captureState copies dynamic memory, then (CopyStack) the call stack.
OnSave(e) ==
    /\ Take(e, {"save"})
    /\ inbox' = inbox \ {e}
    /\ IF e.msg.full
       THEN ui' = "copyStack" /\ export' = Snapshot(mem, BootStack) /\ UNCHANGED reply
       ELSE ui' = "respond" /\ reply' = SaveResult(FALSE) /\ UNCHANGED export
    /\ UNCHANGED <<interpVars, mem, armed, uiVars, disk>>

CopyStack ==
    /\ ui = "copyStack"
    /\ export' = [export EXCEPT !.stack = stack[gen]]
    /\ ui' = "writeFile"
    /\ UNCHANGED <<interpVars, mem, armed, inbox, uiVars, reply, disk>>

\* Faulty variant: the error of os.WriteFile is ignored.
WriteFile_IgnoresError ==
    /\ ui = "writeFile"
    /\ ui' = "respond"
    /\ disk' \in {export, disk, NotASnapshot("torn")}
    /\ reply' = SaveResult(TRUE)
    /\ UNCHANGED <<interpVars, mem, armed, inbox, uiVars, export>>

\* os.WriteFile: done, failed before it truncated the file, or failed after.
WriteFile ==
    /\ ui = "writeFile"
    /\ ui' = "respond"
    /\ \/ disk' = export /\ reply' = SaveResult(TRUE)
       \/ disk' \in {disk, NotASnapshot("torn")} /\ reply' = SaveResult(FALSE)
    /\ UNCHANGED <<interpVars, mem, armed, inbox, uiVars, export>>

OnRestore(e) ==
    /\ Take(e, {"restore"})
    /\ inbox' = inbox \ {e}
    /\ ui' = "respond"
    /\ \/ /\ e.msg.full /\ disk.kind # "none"
          /\ reply' = RestoreResult(TRUE)
          /\ export' = disk
       \/ reply' = RestoreResult(FALSE) /\ UNCHANGED export
    /\ UNCHANGED <<interpVars, mem, armed, uiVars, disk>>

\* The blocking send on saveRestoreChannel, and what the interpreter does with
\* the value: ImportSaveState refuses a file that is not a save of this story
\* and then changes nothing.
Respond ==
    /\ ui = "respond"
    /\ ipc[gen] \in {"save", "restore"} /\ out[gen] = <<>>
    /\ ipc' = [ipc EXCEPT ![gen] = "step"]
    /\ IF reply = RestoreResult(TRUE) /\ ipc[gen] = "restore" /\ export.kind = "snapshot"
       THEN mem' = export.mem /\ stack' = [stack EXCEPT ![gen] = export.stack]
       ELSE UNCHANGED <<mem, stack>>
    /\ ui' = "loop"
    /\ reply' = NoReply
    /\ export' = NotASnapshot("none")
    /\ armed' = [armed EXCEPT ![gen] = @ + 1]
    /\ UNCHANGED <<out, win, want, texts, inbox, uiVars, disk>>

-----------------------------------------------------------------------------
(* The player's keys.                                                       *)

CtrlC ==
    /\ ui = "loop"
    /\ inbox' = inbox \cup {QuitCmd}
    /\ UNCHANGED <<interpVars, mem, armed, ui, uiVars, fileVars>>

\* Faulty variant: the UI goes on waiting for a character.
KeyForCharacter_StaysWaiting(k) ==
    /\ ui = "loop"
    /\ appState = "character"
    /\ reply' = Char(k)
    /\ ui' = "answer"
    /\ UNCHANGED <<interpVars, mem, armed, inbox, uiVars, export, disk>>

KeyForCharacter(k) ==
    /\ ui = "loop"
    /\ appState = "character"
    /\ appState' = "running"
    /\ reply' = Char(k)
    /\ ui' = "answer"
    /\ UNCHANGED <<interpVars, mem, armed, inbox, gen, terms, box, uiWin, lowerText, runtimeError, export, disk>>

\* Faulty variant: any key that maps to a story character ends the line.
KeyEndsLine_AnyKey(k) ==
    /\ ui = "loop"
    /\ appState = "input"
    /\ Len(lowerText) < MaxLog
    /\ appState' = "running"
    /\ lowerText' = Append(lowerText, Entry("player", box))
    /\ reply' = Line(box, k)
    /\ ui' = "answer"
    /\ UNCHANGED <<interpVars, mem, armed, inbox, gen, terms, box, uiWin, runtimeError, export, disk>>

KeyEndsLine(k) ==
    /\ ui = "loop"
    /\ appState = "input"
    /\ k = "enter" \/ k \in terms
    /\ Len(lowerText) < MaxLog
    /\ appState' = "running"
    /\ lowerText' = Append(lowerText, Entry("player", box))
    /\ reply' = Line(box, k)
    /\ ui' = "answer"
    /\ UNCHANGED <<interpVars, mem, armed, inbox, gen, terms, box, uiWin, runtimeError, export, disk>>

\* The text input handles the keys that do not end the line.
KeyTyped ==
    /\ ui = "loop"
    /\ appState = "input"
    /\ box < MaxBox
    /\ box' = box + 1
    /\ UNCHANGED <<interpVars, mem, armed, inbox, ui, gen, appState, terms, uiWin, lowerText, runtimeError, fileVars>>

\* Faulty variant: the handler also listens again, as the others do.
SendAnswer_Rearms ==
    /\ ui = "answer"
    /\ ipc[gen] \in {"readLine", "readChar"} /\ out[gen] = <<>>
    /\ ipc' = [ipc EXCEPT ![gen] = "step"]
    /\ ui' = "loop"
    /\ reply' = NoReply
    /\ box' = IF reply.to = "readLine" THEN 0 ELSE box
    /\ armed' = [armed EXCEPT ![gen] = @ + 1]
    /\ UNCHANGED <<out, win, want, stack, mem, texts, inbox, gen, appState, terms, uiWin, lowerText, runtimeError, export, disk>>

\* Faulty variant: the input box is not emptied.
SendAnswer_KeepsBox ==
    /\ ui = "answer"
    /\ ipc[gen] \in {"readLine", "readChar"} /\ out[gen] = <<>>
    /\ ipc' = [ipc EXCEPT ![gen] = "step"]
    /\ ui' = "loop"
    /\ reply' = NoReply
    /\ UNCHANGED <<out, win, want, stack, mem, texts, armed, inbox, uiVars, export, disk>>

\* The blocking send on sendChannel, and what read() or READ_CHAR does with the
\* value: it goes into the text buffer or a variable.
SendAnswer ==
    /\ ui = "answer"
    /\ ipc[gen] \in {"readLine", "readChar"} /\ out[gen] = <<>>
    /\ ipc' = [ipc EXCEPT ![gen] = "step"]
    /\ \E m \in Mem, s \in Stack : mem' = m /\ stack' = [stack EXCEPT ![gen] = s]
    /\ ui' = "loop"
    /\ reply' = NoReply
    /\ box' = IF reply.to = "readLine" THEN 0 ELSE box
    /\ UNCHANGED <<out, win, want, texts, armed, inbox, gen, appState, terms, uiWin, lowerText, runtimeError, export, disk>>

-----------------------------------------------------------------------------
Init ==
    /\ ipc = [g \in Gens |-> IF g = 1 THEN "step" ELSE "none"]
    /\ out = [g \in Gens |-> IF g = 1 THEN <<Screen("lower")>> ELSE <<>>]
    /\ win = [g \in Gens |-> "lower"]
    /\ want = [g \in Gens |-> {"enter"}]
    /\ stack = [g \in Gens |-> BootStack]
    /\ mem = Pristine
    /\ texts = 0
    /\ armed = [g \in Gens |-> IF g = 1 THEN 1 ELSE 0]
    /\ inbox = {}
    /\ ui = "loop"
    /\ gen = 1
    /\ appState = "running"
    /\ terms = {"enter"}
    /\ box = 0
    /\ uiWin = "upper"
    /\ lowerText = <<>>
    /\ runtimeError = "none"
    /\ export = NotASnapshot("none")
    /\ reply = NoReply
    /\ disk \in {NotASnapshot("none"), NotASnapshot("foreign")}

Interpreter == \E g \in Gens : Instruction(g)

Handle(e) ==
    \/ OnText(e) \/ OnScreenModel(e) \/ OnNotice(e)
    \/ OnInputRequest(e) \/ OnWaitForCharacter(e)
    \/ OnEraseWindow(e) \/ OnRuntimeError(e) \/ OnRestart(e) \/ OnQuit(e)
    \/ OnSave(e) \/ OnRestore(e)

Player ==
    \/ CtrlC
    \/ \E k \in Keys : KeyForCharacter(k) \/ KeyEndsLine(k)
    \/ KeyTyped

Blocked == CopyStack \/ WriteFile \/ Respond \/ SendAnswer

\* When the program has exited every goroutine is gone.
Exited == ui = "exited" /\ UNCHANGED vars

Next ==
    \/ Interpreter
    \/ \E g \in Gens : Pump(g)
    \/ \E e \in inbox : Handle(e)
    \/ Player
    \/ Blocked
    \/ Exited

Spec == Init /\ [][Next]_vars

\* The Go scheduler runs every goroutine that can run, and Bubble Tea's loop
\* takes the messages that wait for it.  Nothing is assumed of the player, nor
\* that the story ever stops computing.
Fairness ==
    /\ WF_vars(\E g \in Gens : Pump(g))
    /\ WF_vars(\E e \in inbox : Handle(e))
    /\ WF_vars(Blocked)

FairSpec == Spec /\ Fairness

-----------------------------------------------------------------------------
(* Properties.                                                              *)

Replies == [to : {"readLine"}, text : 0..MaxBox, key : Keys]
           \cup [to : {"readChar"}, text : 0..1, key : Keys]
           \cup [to : {"save", "restore"}, success : BOOLEAN]
           \cup {NoReply}

\* Every variable keeps its type.
TypeOK ==
    /\ ipc \in [Gens -> {"none", "step", "readLine", "readChar", "save", "restore", "halt"}]
    /\ out \in [Gens -> Seq(Msg)]
    /\ win \in [Gens -> Windows]
    /\ want \in [Gens -> TerminatorSets]
    /\ stack \in [Gens -> Stack]
    /\ mem \in Mem
    /\ texts \in 0..MaxTexts
    /\ armed \in [Gens -> Nat]
    /\ inbox \subseteq [from : 0..MaxGen, msg : Msg \cup Invalid]
    /\ ui \in {"loop", "copyStack", "writeFile", "respond", "answer", "exited"}
    /\ gen \in Gens
    /\ appState \in {"running", "input", "character"}
    /\ terms \in TerminatorSets
    /\ box \in 0..MaxBox
    /\ uiWin \in Windows
    /\ lowerText \in Seq([by : {"story", "player"}, n : Nat])
    /\ runtimeError \in {"none", "reported", "eraseWindow"} \cup Unforwarded
    /\ export \in Files
    /\ reply \in Replies
    /\ disk \in Files

Waiting(g, what) == ipc[g] = what /\ out[g] = <<>>

FromPump(g) == {e \in inbox : e.from = g}

\* The prompt and the read agree: while the UI takes keys for a line (or for a
\* character) the interpreter is blocked in that same read, and the
\* terminators the UI accepts are the ones that read asked for.
PromptMatchesRead ==
    /\ appState = "input" => Waiting(gen, "readLine") /\ terms = want[gen]
    /\ appState = "character" => Waiting(gen, "readChar")

\* Update never freezes: whenever it blocks on a channel send inside a
\* handler, the interpreter is already waiting for that very kind of value, and
\* a line ends with a terminator that read asked for.
UpdateNeverFreezes ==
    /\ ui = "answer" => Waiting(gen, reply.to)
    /\ ui = "answer" /\ reply.to = "readLine" => reply.key \in {"enter"} \cup want[gen]
    /\ ui \in {"copyStack", "writeFile"} => Waiting(gen, "save")
    /\ ui = "respond" => Waiting(gen, reply.to)

\* One listener: until the program is on its way out, the current machine's
\* channel has one waitForInterpreter on it, or one message of it is on its
\* way to Update or in Update's hands; never two, and never none.
Leaving == ui = "exited" \/ runtimeError # "none"
           \/ \E e \in inbox : e.msg.type = "quit"

OneListener ==
    LET inHands == ui \in {"copyStack", "writeFile", "respond"} IN
    /\ armed[gen] \in {0, 1}
    /\ \A d, e \in FromPump(gen) : d = e
    /\ armed[gen] = 1 => FromPump(gen) = {} /\ ~inHands
    /\ inHands => FromPump(gen) = {}
    /\ ~Leaving => armed[gen] = 1 \/ FromPump(gen) # {} \/ inHands

\* A machine that was restarted away is inert: its goroutine is stuck for good
\* on the Quit that follows Restart, nobody listens to it, and nothing of it
\* is still in flight; the program ends only for the player (the Quit command),
\* for an error on display, or when the current machine has stopped.
AbandonedMachinesAreInert ==
    /\ \A g \in 1..(gen - 1) :
         /\ ipc[g] = "halt" /\ out[g] = <<Bare("quit")>>
         /\ armed[g] = 0 /\ FromPump(g) = {}
    /\ \A e \in inbox : e.msg.type = "quit" /\ e.from # 0 => e.from = gen /\ Waiting(gen, "halt")

\* What ExportSaveState reads is one state of the machine: no write to the
\* story bytes or the call stack falls between or after its two copies.
ExportIsASnapshot ==
    /\ ui = "copyStack" => export = Snapshot(mem, export.stack)
    /\ ui = "writeFile" => export = Snapshot(mem, stack[gen])

\* A save that is reported successful is on disk, and is the present state.
SuccessMeansSaved ==
    ui = "respond" /\ reply = SaveResult(TRUE) => disk = Snapshot(mem, stack[gen])

\* The input box is empty whenever no line is being typed, so that a line
\* never starts with characters of an earlier one.
BoxIsEmptyBetweenLines ==
    appState = "input" \/ box = 0 \/ (ui = "answer" /\ reply.to = "readLine")

\* A restart begins on the story as it was loaded (main.go:368, "Reload the
\* ROM from stored bytes").
RestartReloadsTheStory == [][gen' # gen => mem' = Pristine]_vars

\* A save or restore request of the current machine gets its response.
Resumes(what) == ipc[gen] = what ~> ipc[gen] # what \/ ui = "exited"

SaveRestoreCompletes == Resumes("save") /\ Resumes("restore")

\* A read gets its prompt, however many messages come before it.
PromptAppears ==
    /\ ipc[gen] = "readLine" ~> appState = "input" \/ ipc[gen] # "readLine" \/ ui = "exited"
    /\ ipc[gen] = "readChar" ~> appState = "character" \/ ipc[gen] # "readChar" \/ ui = "exited"

\* When the current machine has stopped, the program restarts it or exits.
StopIsNoticed == Resumes("halt")

\* An answer that was given reaches the interpreter.
AnswerArrives == ui = "answer" ~> ui = "loop"

\* Every turn is completed: saves, restores and reads are served, a stop is noticed,
\* and answers arrive, whatever else is going on.
TurnsComplete == SaveRestoreCompletes /\ PromptAppears /\ StopIsNoticed /\ AnswerArrives

-----------------------------------------------------------------------------
(* The inductive invariant behind the safety properties: where each message *)
(* that hands the turn over may be, and what the interpreter does meanwhile.*)

\* A message that hands the turn over is the last one its instruction sends:
\* o is what a machine has to send, pc what it does then, t what it asked for.
Ordered(o, pc, t) ==
    \A i \in 1..Len(o) :
        LET last == i = Len(o) IN
        /\ o[i].type = "input" => last /\ pc = "readLine" /\ o[i].terms = t
        /\ o[i].type = "char" => last /\ pc = "readChar"
        /\ o[i].type \in {"save", "restore"} => last /\ pc = o[i].type
        /\ o[i].type = "restart" => /\ i + 1 = Len(o) /\ o[i + 1] = Bare("quit")
                                   /\ pc = "halt" /\ gen < MaxGen
        /\ o[i].type = "quit" => last /\ pc = "halt"

SendsAreOrdered == Ordered(out[gen], ipc[gen], want[gen])

\* While such a message is in flight its sender waits.
SendersWait ==
    \A e \in inbox :
        /\ e.from \in {0, gen}
        /\ e.from = 0 => e = QuitCmd
        /\ e.from = gen =>
            /\ e.msg.type = "input" => Waiting(gen, "readLine") /\ e.msg.terms = want[gen]
            /\ e.msg.type = "char" => Waiting(gen, "readChar")
            /\ e.msg.type \in {"save", "restore"} => Waiting(gen, e.msg.type)
            /\ e.msg.type = "restart" => /\ ipc[gen] = "halt" /\ out[gen] = <<Bare("quit")>>
                                         /\ gen < MaxGen
            /\ e.msg.type = "quit" => Waiting(gen, "halt")

OtherMachines ==
    /\ \A g \in Gens : g < gen => ipc[g] = "halt" /\ out[g] = <<Bare("quit")>> /\ armed[g] = 0
    /\ \A g \in Gens : g > gen => ipc[g] = "none" /\ out[g] = <<>> /\ armed[g] = 0

\* Nothing of the machine is in flight while the player has the turn or gives
\* it back, and the UI has one thing to do at a time.
TurnIsHeld ==
    /\ appState # "running" => FromPump(gen) = {} /\ ui \in {"loop", "exited"}
    /\ ui = "answer" => FromPump(gen) = {} /\ reply.to \in {"readLine", "readChar"}
    /\ ui = "respond" => reply.to \in {"save", "restore"}

Inv ==
    /\ SendsAreOrdered
    /\ SendersWait
    /\ OtherMachines
    /\ TurnIsHeld
    /\ PromptMatchesRead
    /\ UpdateNeverFreezes
    /\ OneListener
    /\ ExportIsASnapshot
    /\ SuccessMeansSaved
=============================================================================

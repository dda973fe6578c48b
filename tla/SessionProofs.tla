---------------------------- MODULE SessionProofs ----------------------------
(****************************************************************************)
(* Proofs about Session, for any number of machines, texts and contents:    *)
(* type correctness; that the prompt the player sees and the read the       *)
(* interpreter is blocked in always agree; that Update never freezes on a   *)
(* channel; that each machine has one listener; that a machine that was     *)
(* restarted away is inert; and that the session implements the console:    *)
(* every step of the interpreter, the pump, Update and the player is a step *)
(* of the console or none.                                                  *)
(****************************************************************************)
EXTENDS SessionConsole, TLAPS

(* A sequence of messages, its head and its tail.                           *)
LEMMA HeadTail ==
    ASSUME NEW S, NEW s \in Seq(S), s # <<>>
    PROVE  /\ Len(s) \in Nat \ {0}
           /\ Head(s) = s[1] /\ Head(s) \in S
           /\ Tail(s) \in Seq(S)
           /\ Len(Tail(s)) = Len(s) - 1
           /\ \A i \in 1..Len(Tail(s)) : Tail(s)[i] = s[i + 1]
OBVIOUS

LEMMA Singleton ==
    ASSUME NEW S, NEW s \in Seq(S), Len(s) = 1
    PROVE  s = <<s[1]>>
OBVIOUS

LEMMA EmptySequence ==
    ASSUME NEW S, NEW s \in Seq(S), Len(s) = 0
    PROVE  s = <<>>
OBVIOUS

(* What a machine can send is a message.                                    *)
LEMMA Sendable ==
    /\ \A t \in Plain : Bare(t) \in Msg
    /\ \A w \in Windows : Screen(w) \in Msg
    /\ \A n \in 1..MaxTexts, w \in Windows : [type |-> "text", id |-> n, win |-> w] \in Msg
    /\ \A v \in EraseValues : [type |-> "eraseWindow", value |-> v] \in Msg
    /\ \A t \in TerminatorSets : [type |-> "input", terms |-> t] \in Msg
    /\ \A t \in {"save", "restore"}, full \in BOOLEAN : [type |-> t, full |-> full] \in Msg
BY DEF Msg, Bare, Screen

LEMMA Forwarded ==
    ASSUME NEW m \in Msg
    PROVE  Forward(m) \in Msg \cup Invalid
BY DEF Msg, Forward, Invalid, Unforwarded

LEMMA GensFacts ==
    /\ MaxGen \in Nat \ {0} /\ MaxTexts \in Nat /\ MaxBox \in Nat
    /\ 1 \in Gens /\ Gens \subseteq Int
    /\ \A g \in Gens : g < MaxGen => g + 1 \in Gens
    /\ {"enter"} \in TerminatorSets
BY BoundsAssumption DEF Gens, TerminatorSets

(* Type correctness.                                                        *)
LEMMA TypeInit == Init => TypeOK
<1> USE GensFacts, MemAssumption, StackAssumption
<1> SUFFICES ASSUME Init PROVE TypeOK
    OBVIOUS
<1>1. out \in [Gens -> Seq(Msg)]
    BY Sendable DEF Init, Windows
<1>2. NotASnapshot("none") \in Files /\ NotASnapshot("foreign") \in Files
    BY DEF NotASnapshot, Files
<1>3. want \in [Gens -> TerminatorSets] /\ terms \in TerminatorSets
    BY DEF Init
<1>4. QED
    BY <1>1, <1>2, <1>3 DEF Init, TypeOK, Windows, Replies

(* Each step keeps the types: first the interpreter's, then the UI's.       *)
LEMMA TypeIssue ==
    ASSUME TypeOK, NEW g \in Gens, NEW msgs \in Seq(Msg),
           NEW next \in {"step", "readLine", "readChar", "save", "restore", "halt"},
           Issue(g, msgs, next),
           win' \in [Gens -> Windows], want' \in [Gens -> TerminatorSets],
           stack' \in [Gens -> Stack], mem' \in Mem, texts' \in 0..MaxTexts
    PROVE  TypeOK'
BY DEF Issue, TypeOK, uiVars, fileVars

LEMMA TypeInstruction ==
    ASSUME TypeOK, NEW g \in Gens, Instruction(g)
    PROVE  TypeOK'
<1> USE Sendable, GensFacts, TypeIssue
<1>1. CASE Compute(g)
    <2>1. <<>> \in Seq(Msg)
        OBVIOUS
    <2>2. QED
        BY <1>1, <2>1 DEF Compute, TypeOK
<1>2. CASE AppendText(g)
    <2> DEFINE text == [type |-> "text", id |-> texts + 1, win |-> win[g]]
               msgs == IF win[g] = "lower" THEN <<text>> ELSE <<text, Screen("upper")>>
    <2>1. texts + 1 \in 1..MaxTexts /\ win[g] \in Windows
        BY <1>2 DEF AppendText, TypeOK
    <2>2. text \in Msg /\ Screen("upper") \in Msg
        BY <2>1 DEF Windows
    <2>3. msgs \in Seq(Msg)
        BY <2>2
    <2>4. Issue(g, msgs, "step")
        BY <1>2 DEF AppendText
    <2>5. texts' \in 0..MaxTexts
        BY <1>2, <2>1 DEF AppendText
    <2>6. win' \in [Gens -> Windows] /\ want' \in [Gens -> TerminatorSets]
          /\ stack' \in [Gens -> Stack] /\ mem' \in Mem
        BY <1>2 DEF AppendText, TypeOK
    <2> HIDE DEF msgs
    <2>7. QED
        BY <2>3, <2>4, <2>5, <2>6
<1>3. CASE SetWindow(g)
    <2>1. PICK w \in Windows : win' = [win EXCEPT ![g] = w] /\ Issue(g, <<Screen(w)>>, "step")
        BY <1>3 DEF SetWindow
    <2>2. <<Screen(w)>> \in Seq(Msg)
        OBVIOUS
    <2>3. QED
        BY <1>3, <2>1, <2>2 DEF SetWindow, TypeOK
<1>4. CASE EraseWindow(g)
    <2>1. PICK v \in EraseValues :
            LET w == IF v = -1 THEN "lower" ELSE win[g] IN
            /\ win' = [win EXCEPT ![g] = w]
            /\ Issue(g, <<Screen(w), [type |-> "eraseWindow", value |-> v]>>, "step")
        BY <1>4 DEF EraseWindow
    <2> DEFINE w == IF v = -1 THEN "lower" ELSE win[g]
    <2>2. w \in Windows
        BY DEF TypeOK, Windows
    <2>3. <<Screen(w), [type |-> "eraseWindow", value |-> v]>> \in Seq(Msg)
        BY <2>2
    <2>4. win' = [win EXCEPT ![g] = w] /\ Issue(g, <<Screen(w), [type |-> "eraseWindow", value |-> v]>>, "step")
        BY <2>1
    <2> HIDE DEF w
    <2>5. QED
        BY <1>4, <2>2, <2>3, <2>4 DEF EraseWindow, TypeOK
<1>5. CASE Notify(g)
    <2>1. PICK t \in {"eraseLine", "sound", "warning"} : Issue(g, <<Bare(t)>>, "step")
        BY <1>5 DEF Notify
    <2>2. <<Bare(t)>> \in Seq(Msg)
        BY DEF Plain
    <2>3. QED
        BY <1>5, <2>1, <2>2 DEF Notify, TypeOK
<1>6. CASE Read(g)
    <2>1. PICK t \in TerminatorSets :
            /\ want' = [want EXCEPT ![g] = t]
            /\ LET request == [type |-> "input", terms |-> t] IN
               Issue(g, IF Version <= 3 THEN <<Bare("status"), request>> ELSE <<request>>, "readLine")
        BY <1>6 DEF Read
    <2> DEFINE request == [type |-> "input", terms |-> t]
               msgs == IF Version <= 3 THEN <<Bare("status"), request>> ELSE <<request>>
    <2>2. request \in Msg /\ Bare("status") \in Msg
        BY DEF Plain
    <2>3. msgs \in Seq(Msg)
        BY <2>2
    <2>4. Issue(g, msgs, "readLine")
        BY <2>1
    <2> HIDE DEF msgs
    <2>5. QED
        BY <1>6, <2>1, <2>3, <2>4 DEF Read, TypeOK
<1>7. CASE ReadChar(g)
    <2>1. <<Bare("char")>> \in Seq(Msg)
        BY DEF Plain
    <2>2. QED
        BY <1>7, <2>1 DEF ReadChar, TypeOK
<1>8. CASE SaveOrRestore(g)
    <2>1. PICK t \in {"save", "restore"}, full \in BOOLEAN : Issue(g, <<[type |-> t, full |-> full]>>, t)
        BY <1>8 DEF SaveOrRestore
    <2>2. <<[type |-> t, full |-> full]>> \in Seq(Msg)
        OBVIOUS
    <2>3. /\ t \in {"step", "readLine", "readChar", "save", "restore", "halt"}
          /\ win' \in [Gens -> Windows] /\ want' \in [Gens -> TerminatorSets]
          /\ stack' \in [Gens -> Stack] /\ mem' \in Mem /\ texts' \in 0..MaxTexts
        BY <1>8 DEF SaveOrRestore, TypeOK
    <2>4. QED
        BY <2>1, <2>2, <2>3
<1>9. CASE Restart(g)
    <2>1. <<Bare("restart"), Bare("quit")>> \in Seq(Msg)
        BY DEF Plain
    <2>2. QED
        BY <1>9, <2>1 DEF Restart, TypeOK
<1>10. CASE QuitOp(g)
    <2>1. <<Bare("quit")>> \in Seq(Msg)
        BY DEF Plain
    <2>2. QED
        BY <1>10, <2>1 DEF QuitOp, TypeOK
<1>11. CASE Fail(g)
    <2>1. <<Bare("error"), Bare("quit")>> \in Seq(Msg)
        BY DEF Plain
    <2>2. QED
        BY <1>11, <2>1 DEF Fail, TypeOK
<1>12. QED
    BY <1>1, <1>2, <1>3, <1>4, <1>5, <1>6, <1>7, <1>8, <1>9, <1>10, <1>11 DEF Instruction

LEMMA TypePump ==
    ASSUME TypeOK, NEW g \in Gens, Pump(g)
    PROVE  TypeOK'
<1>1. out[g] \in Seq(Msg) /\ out[g] # <<>>
    BY DEF TypeOK, Pump
<1>2. Head(out[g]) \in Msg /\ Tail(out[g]) \in Seq(Msg)
    BY <1>1, HeadTail
<1>3. [from |-> g, msg |-> Forward(Head(out[g]))] \in [from : 0..MaxGen, msg : Msg \cup Invalid]
    BY <1>2, Forwarded, GensFacts DEF Gens
<1>4. armed' \in [Gens -> Nat]
    BY DEF Pump, TypeOK
<1>5. QED
    BY <1>2, <1>3, <1>4 DEF Pump, TypeOK, uiVars, fileVars

LEMMA QuitCmdFact == QuitCmd \in [from : 0..MaxGen, msg : Msg \cup Invalid]
BY Sendable, GensFacts DEF QuitCmd, Plain

(* The values Update sends.                                                 *)
LEMMA ReplyFacts ==
    /\ \A ok \in BOOLEAN : SaveResult(ok) \in Replies /\ RestoreResult(ok) \in Replies
    /\ \A b \in 0..MaxBox, k \in Keys : Line(b, k) \in Replies
    /\ \A k \in Keys : Char(k) \in Replies
    /\ NoReply \in Replies
<1>1. \A ok \in BOOLEAN : SaveResult(ok) \in [to : {"save", "restore"}, success : BOOLEAN]
                         /\ RestoreResult(ok) \in [to : {"save", "restore"}, success : BOOLEAN]
    BY DEF SaveResult, RestoreResult
<1>2. \A b \in 0..MaxBox, k \in Keys : Line(b, k) \in [to : {"readLine"}, text : 0..MaxBox, key : Keys]
    BY DEF Line
<1>3. \A k \in Keys : Char(k) \in [to : {"readChar"}, text : 0..1, key : Keys]
    BY DEF Char
<1>4. QED
    BY <1>1, <1>2, <1>3 DEF Replies

LogEntry == [by : {"story", "player"}, n : Nat]

LEMMA LogFacts ==
    ASSUME NEW log \in Seq(LogEntry), NEW entry \in LogEntry
    PROVE  Append(log, entry) \in Seq(LogEntry) /\ <<>> \in Seq(LogEntry)
OBVIOUS

(* A message in flight has the fields its type promises.                    *)
LEMMA InFlightFields ==
    ASSUME NEW e \in [from : 0..MaxGen, msg : Msg \cup Invalid]
    PROVE  /\ e.msg.type = "text" => e.msg.id \in 1..MaxTexts /\ e.msg.win \in Windows
           /\ e.msg.type = "screen" => e.msg.win \in Windows
           /\ e.msg.type = "input" => e.msg.terms \in TerminatorSets
           /\ e.msg.type = "invalid" => e.msg.was \in Unforwarded
           /\ e.msg.type \in {"save", "restore"} => e.msg.full \in BOOLEAN
BY DEF Msg, Invalid, Plain

LEMMA TypeHandle ==
    ASSUME TypeOK, NEW e \in inbox, Handle(e)
    PROVE  TypeOK'
<1> USE GensFacts, QuitCmdFact
<1> DEFINE Inbox == SUBSET [from : 0..MaxGen, msg : Msg \cup Invalid]
<1>e. e \in [from : 0..MaxGen, msg : Msg \cup Invalid]
    BY DEF TypeOK
<1>i. inbox \ {e} \in Inbox /\ (inbox \ {e}) \cup {QuitCmd} \in Inbox
    BY DEF TypeOK
<1>a. [armed EXCEPT ![gen] = @ + 1] \in [Gens -> Nat]
    BY DEF TypeOK
<1> HIDE DEF Inbox
<1>1. CASE OnText(e)
    <2>1. Entry("story", e.msg.id) \in LogEntry
        BY <1>1, <1>e, InFlightFields DEF OnText, TakeAndRearm, Take, Entry, LogEntry
    <2>2. lowerText \in Seq(LogEntry)
        BY DEF TypeOK, LogEntry
    <2>3. Append(lowerText, Entry("story", e.msg.id)) \in Seq(LogEntry)
        BY <2>1, <2>2, LogFacts
    <2>4. lowerText' \in Seq(LogEntry)
        BY <1>1, <2>2, <2>3 DEF OnText
    <2>5. QED
        BY <1>1, <1>i, <1>a, <2>4 DEF LogEntry, OnText, TakeAndRearm, TypeOK, interpVars, fileVars, Inbox
<1>2. CASE OnScreenModel(e)
    <2>1. e.msg.win \in Windows
        BY <1>2, <1>e, InFlightFields DEF OnScreenModel, TakeAndRearm, Take
    <2>2. QED
        BY <1>2, <1>i, <1>a, <2>1 DEF OnScreenModel, TakeAndRearm, TypeOK, interpVars, fileVars, Inbox
<1>3. CASE OnNotice(e)
    BY <1>3, <1>i, <1>a DEF OnNotice, TakeAndRearm, TypeOK, interpVars, uiVars, fileVars, Inbox
<1>4. CASE OnInputRequest(e)
    <2>1. e.msg.terms \in TerminatorSets
        BY <1>4, <1>e, InFlightFields DEF OnInputRequest, TakeAndRearm, Take
    <2>2. QED
        BY <1>4, <1>i, <1>a, <2>1 DEF OnInputRequest, TakeAndRearm, TypeOK, interpVars, fileVars, Inbox
<1>5. CASE OnWaitForCharacter(e)
    BY <1>5, <1>i, <1>a DEF OnWaitForCharacter, TakeAndRearm, TypeOK, interpVars, fileVars, Inbox
<1>6. CASE OnEraseWindow(e)
    <2>1. inbox' \in Inbox /\ armed' \in [Gens -> Nat]
        BY <1>6, <1>i, <1>a DEF OnEraseWindow, TakeAndRearm, TypeOK
    <2>2. lowerText' \in {lowerText, <<>>} /\ runtimeError' \in {runtimeError, "eraseWindow"}
        BY <1>6 DEF OnEraseWindow
    <2>3. lowerText \in Seq(LogEntry) /\ <<>> \in Seq(LogEntry)
        BY DEF TypeOK, LogEntry
    <2>4. lowerText' \in Seq(LogEntry)
        BY <2>2, <2>3
    <2>5. runtimeError' \in {"none", "reported", "eraseWindow"} \cup Unforwarded
        BY <2>2 DEF TypeOK
    <2>6. QED
        BY <1>6, <2>1, <2>4, <2>5 DEF LogEntry, OnEraseWindow, TypeOK, interpVars, fileVars, Inbox
<1>7. CASE OnRuntimeError(e)
    <2>1. runtimeError' \in {"none", "reported", "eraseWindow"} \cup Unforwarded
        BY <1>7, <1>e, InFlightFields DEF OnRuntimeError, Take
    <2>2. QED
        BY <1>7, <1>i, <2>1 DEF OnRuntimeError, TypeOK, interpVars, fileVars, Inbox
<1>8. CASE OnRestart(e)
    <2>1. gen + 1 \in Gens
        BY <1>8 DEF OnRestart, TypeOK
    <2>2. <<Screen("lower")>> \in Seq(Msg)
        BY Sendable DEF Windows
    <2>3. out' \in [Gens -> Seq(Msg)]
        BY <1>8, <2>1, <2>2 DEF OnRestart, TypeOK
    <2>4. armed' \in [Gens -> Nat]
        BY <1>8, <2>1 DEF OnRestart, TypeOK
    <2>5. ipc' \in [Gens -> {"none", "step", "readLine", "readChar", "save", "restore", "halt"}]
        BY <1>8, <2>1 DEF OnRestart, TypeOK
    <2>6. lowerText' \in Seq([by : {"story", "player"}, n : Nat])
        BY <1>8 DEF OnRestart
    <2>7. QED
        BY <1>8, <1>i, <2>1, <2>3, <2>4, <2>5, <2>6 DEF OnRestart, TypeOK, fileVars, Inbox
<1>9. CASE OnQuit(e)
    BY <1>9, <1>i DEF OnQuit, TypeOK, interpVars, uiVars, fileVars, Inbox
<1>10. CASE OnSave(e)
    <2>1. Snapshot(mem, BootStack) \in Files
        BY StackAssumption DEF Snapshot, Files, TypeOK
    <2>2. export' \in Files /\ reply' \in Replies
        BY <1>10, <2>1, ReplyFacts DEF OnSave, TypeOK
    <2>3. QED
        BY <1>10, <1>i, <2>2 DEF OnSave, TypeOK, interpVars, uiVars, Inbox
<1>11. CASE OnRestore(e)
    <2>1. export' \in Files /\ reply' \in Replies
        BY <1>11, ReplyFacts DEF OnRestore, TypeOK
    <2>2. QED
        BY <1>11, <1>i, <2>1 DEF OnRestore, TypeOK, interpVars, uiVars, Inbox
<1>12. QED
    BY <1>1, <1>2, <1>3, <1>4, <1>5, <1>6, <1>7, <1>8, <1>9, <1>10, <1>11 DEF Handle

LEMMA TypePlayer ==
    ASSUME TypeOK, Player
    PROVE  TypeOK'
<1> USE GensFacts
<1>1. CASE CtrlC
    BY <1>1, QuitCmdFact DEF CtrlC, TypeOK, interpVars, uiVars, fileVars
<1>2. ASSUME NEW k \in Keys, KeyForCharacter(k) PROVE TypeOK'
    <2>1. reply' \in Replies
        BY <1>2, ReplyFacts DEF KeyForCharacter
    <2>2. QED
        BY <1>2, <2>1 DEF KeyForCharacter, TypeOK, interpVars
<1>3. ASSUME NEW k \in Keys, KeyEndsLine(k) PROVE TypeOK'
    <2>1. reply' \in Replies
        BY <1>3, ReplyFacts DEF KeyEndsLine, TypeOK
    <2>2. lowerText' \in Seq([by : {"story", "player"}, n : Nat])
        BY <1>3 DEF KeyEndsLine, Entry, TypeOK
    <2>3. QED
        BY <1>3, <2>1, <2>2 DEF KeyEndsLine, TypeOK, interpVars
<1>4. CASE KeyTyped
    BY <1>4 DEF KeyTyped, TypeOK, interpVars, fileVars
<1>5. QED
    BY <1>1, <1>2, <1>3, <1>4 DEF Player

LEMMA TypeBlocked ==
    ASSUME TypeOK, Blocked
    PROVE  TypeOK'
<1> USE GensFacts
<1>n. \A k \in {"none", "torn", "foreign"} : NotASnapshot(k) \in Files
    BY MemAssumption, StackAssumption DEF NotASnapshot, Files
<1>1. CASE CopyStack
    <2>1. export' \in Files
        BY <1>1 DEF CopyStack, TypeOK, Files
    <2>2. QED
        BY <1>1, <2>1 DEF CopyStack, TypeOK, interpVars, uiVars
<1>2. CASE WriteFile
    <2>1. disk' \in Files /\ reply' \in Replies
        BY <1>2, <1>n, ReplyFacts DEF WriteFile, TypeOK
    <2>2. QED
        BY <1>2, <2>1 DEF WriteFile, TypeOK, interpVars, uiVars
<1>3. CASE Respond
    <2>1. export.mem \in Mem /\ export.stack \in Stack
        BY DEF TypeOK, Files
    <2>2. mem' \in Mem /\ stack' \in [Gens -> Stack]
        BY <1>3, <2>1 DEF Respond, TypeOK
    <2>3. export' \in Files /\ reply' \in Replies
        BY <1>3, <1>n, ReplyFacts DEF Respond
    <2>4. armed' \in [Gens -> Nat]
          /\ ipc' \in [Gens -> {"none", "step", "readLine", "readChar", "save", "restore", "halt"}]
        BY <1>3 DEF Respond, TypeOK
    <2>5. QED
        BY <1>3, <2>2, <2>3, <2>4 DEF Respond, TypeOK, uiVars
<1>4. CASE SendAnswer
    <2>1. mem' \in Mem /\ stack' \in [Gens -> Stack]
        BY <1>4 DEF SendAnswer, TypeOK
    <2>2. reply' \in Replies /\ box' \in 0..MaxBox
        BY <1>4, ReplyFacts DEF SendAnswer, TypeOK
    <2>3. ipc' \in [Gens -> {"none", "step", "readLine", "readChar", "save", "restore", "halt"}]
        BY <1>4 DEF SendAnswer, TypeOK
    <2>4. QED
        BY <1>4, <2>1, <2>2, <2>3 DEF SendAnswer, TypeOK
<1>5. QED
    BY <1>1, <1>2, <1>3, <1>4 DEF Blocked

(* Every variable keeps its type, whatever the bounds and contents.         *)
THEOREM TypeCorrect == Spec => []TypeOK
<1>1. TypeOK /\ [Next]_vars => TypeOK'
    <2> SUFFICES ASSUME TypeOK, [Next]_vars PROVE TypeOK'
        OBVIOUS
    <2>1. CASE UNCHANGED vars
        BY <2>1 DEF TypeOK, vars, interpVars, uiVars, fileVars
    <2>2. CASE Interpreter
        BY <2>2, TypeInstruction DEF Interpreter
    <2>3. ASSUME NEW g \in Gens, Pump(g) PROVE TypeOK'
        BY <2>3, TypePump
    <2>4. ASSUME NEW e \in inbox, Handle(e) PROVE TypeOK'
        BY <2>4, TypeHandle
    <2>5. QED
        BY <2>1, <2>2, <2>3, <2>4, TypePlayer, TypeBlocked DEF Next, Exited
<1>2. QED
    BY TypeInit, <1>1, PTL DEF Spec

(****************************************************************************)
(* The safety invariants.                                                   *)
(****************************************************************************)

LEMMA InvInit == Init => Inv
<1> USE GensFacts
<1> SUFFICES ASSUME Init PROVE Inv
    OBVIOUS
<1>1. gen = 1 /\ ipc[1] = "step" /\ out[1] = <<Screen("lower")>> /\ armed[1] = 1
    BY DEF Init
<1>2. SendsAreOrdered
    BY <1>1 DEF SendsAreOrdered, Ordered, Screen
<1>3. OtherMachines
    BY DEF Init, OtherMachines, Gens
<1>4. OneListener
    BY <1>1 DEF Init, OneListener, FromPump
<1>5. QED
    BY <1>1, <1>2, <1>3, <1>4 DEF Init, Inv, SendersWait, TurnIsHeld, PromptMatchesRead,
        UpdateNeverFreezes, ExportIsASnapshot, SuccessMeansSaved

(* Only the current machine runs, and while it runs the UI waits for it.    *)
LEMMA RunningIsCurrent ==
    ASSUME TypeOK, Inv, NEW g \in Gens, Running(g)
    PROVE  /\ g = gen
           /\ appState = "running"
           /\ ui \in {"loop", "exited"}
           /\ \A e \in inbox : e.msg.type \notin {"input", "char", "save", "restore", "restart"}
           /\ \A e \in inbox : e.msg.type = "quit" => e = QuitCmd
<1> USE GensFacts
<1>1. g = gen
    <2>1. g \in Int /\ gen \in Int
        BY DEF TypeOK
    <2>2. ~(g < gen) /\ ~(g > gen)
        BY DEF Running, Inv, OtherMachines
    <2>3. QED
        BY <2>1, <2>2
<1>2. ipc[gen] = "step" /\ out[gen] = <<>>
    BY <1>1 DEF Running
<1>3. appState = "running"
    BY <1>2 DEF Inv, PromptMatchesRead, Waiting, TypeOK
<1>4. ui \in {"loop", "exited"}
    <2>1. ui # "answer"
        BY <1>2 DEF Inv, UpdateNeverFreezes, Waiting, TurnIsHeld
    <2>2. ui # "respond"
        BY <1>2 DEF Inv, UpdateNeverFreezes, Waiting, TurnIsHeld
    <2>3. ui \notin {"copyStack", "writeFile"}
        BY <1>2 DEF Inv, UpdateNeverFreezes, Waiting
    <2>4. QED
        BY <2>1, <2>2, <2>3 DEF TypeOK
<1>5. ASSUME NEW e \in inbox
      PROVE  /\ e.msg.type \notin {"input", "char", "save", "restore", "restart"}
             /\ e.msg.type = "quit" => e = QuitCmd
    <2>1. CASE e.from = 0
        BY <2>1 DEF Inv, SendersWait, QuitCmd, Bare
    <2>2. CASE e.from = gen
        BY <1>2, <2>2 DEF Inv, SendersWait, Waiting
    <2>3. QED
        BY <2>1, <2>2 DEF Inv, SendersWait
<1>6. QED
    BY <1>1, <1>3, <1>4, <1>5

LEMMA InvIssue ==
    ASSUME TypeOK, Inv, NEW g \in Gens, NEW msgs, NEW next, Issue(g, msgs, next),
           Ordered(msgs, next, want'[g])
    PROVE  Inv'
<1> USE GensFacts
<1>1. Running(g) /\ ui = "loop" /\ g = gen /\ appState = "running"
    BY RunningIsCurrent DEF Issue
<1>2. /\ ipc' = [ipc EXCEPT ![gen] = next] /\ out' = [out EXCEPT ![gen] = msgs]
      /\ gen' = gen /\ appState' = "running" /\ ui' = "loop" /\ inbox' = inbox /\ armed' = armed
      /\ runtimeError' = runtimeError
    BY <1>1 DEF Issue, uiVars
<1>3. gen \in Gens /\ ipc'[gen] = next /\ out'[gen] = msgs
    BY <1>2 DEF TypeOK
<1>4. SendsAreOrdered'
    BY <1>1, <1>2, <1>3 DEF SendsAreOrdered, Ordered
<1>5. SendersWait'
    <2> SUFFICES ASSUME NEW e \in inbox
                 PROVE  /\ e.from \in {0, gen}
                        /\ e.from = 0 => e = QuitCmd
                        /\ e.msg.type \notin {"input", "char", "save", "restore", "restart"}
                        /\ e.from = gen => e.msg.type # "quit"
        BY <1>2 DEF SendersWait
    <2>1. (e.from \in {0, gen}) /\ (e.from = 0 => e = QuitCmd)
        BY DEF Inv, SendersWait
    <2>2. e.msg.type \notin {"input", "char", "save", "restore", "restart"}
        BY <1>1, RunningIsCurrent
    <2>3. ASSUME e.from = gen, e.msg.type = "quit" PROVE FALSE
        <3>1. e = QuitCmd /\ gen # 0
            BY <1>1, <2>3, RunningIsCurrent DEF TypeOK, Gens
        <3>2. QED
            BY <2>3, <3>1 DEF QuitCmd
    <2>4. QED
        BY <2>1, <2>2, <2>3
<1>6. OtherMachines'
    BY <1>1, <1>2 DEF Inv, OtherMachines, TypeOK, Gens
<1>7. OneListener'
    BY <1>1, <1>2 DEF Inv, OneListener, FromPump, Leaving
<1>8. QED
    BY <1>1, <1>2, <1>4, <1>5, <1>6, <1>7 DEF Inv, TurnIsHeld, PromptMatchesRead,
        UpdateNeverFreezes, ExportIsASnapshot, SuccessMeansSaved

(* What each instruction sends is in order.                                 *)
LEMMA InvInstruction ==
    ASSUME TypeOK, TypeOK', Inv, NEW g \in Gens, Instruction(g)
    PROVE  Inv'
<1> USE GensFacts, InvIssue
<1>1. CASE Compute(g)
    <2>1. Ordered(<<>>, "step", want'[g])
        BY DEF Ordered
    <2>2. QED
        BY <1>1, <2>1 DEF Compute
<1>2. CASE AppendText(g)
    <2> DEFINE text == [type |-> "text", id |-> texts + 1, win |-> win[g]]
               msgs == IF win[g] = "lower" THEN <<text>> ELSE <<text, Screen("upper")>>
    <2>1. Ordered(msgs, "step", want'[g])
        BY DEF Ordered, Screen
    <2>2. Issue(g, msgs, "step")
        BY <1>2 DEF AppendText
    <2> HIDE DEF msgs
    <2>3. QED
        BY <2>1, <2>2
<1>3. CASE SetWindow(g)
    <2>1. PICK w \in Windows : Issue(g, <<Screen(w)>>, "step")
        BY <1>3 DEF SetWindow
    <2>2. Ordered(<<Screen(w)>>, "step", want'[g])
        BY DEF Ordered, Screen
    <2>3. QED
        BY <2>1, <2>2
<1>4. CASE EraseWindow(g)
    <2>1. PICK v \in EraseValues :
            LET w == IF v = -1 THEN "lower" ELSE win[g] IN
            Issue(g, <<Screen(w), [type |-> "eraseWindow", value |-> v]>>, "step")
        BY <1>4 DEF EraseWindow
    <2> DEFINE w == IF v = -1 THEN "lower" ELSE win[g]
               msgs == <<Screen(w), [type |-> "eraseWindow", value |-> v]>>
    <2>2. Ordered(msgs, "step", want'[g])
        BY DEF Ordered, Screen
    <2>3. Issue(g, msgs, "step")
        BY <2>1
    <2> HIDE DEF msgs
    <2>4. QED
        BY <2>2, <2>3
<1>5. CASE Notify(g)
    <2>1. PICK t \in {"eraseLine", "sound", "warning"} : Issue(g, <<Bare(t)>>, "step")
        BY <1>5 DEF Notify
    <2>2. Ordered(<<Bare(t)>>, "step", want'[g])
        BY DEF Ordered, Bare
    <2>3. QED
        BY <2>1, <2>2
<1>6. CASE Read(g)
    <2>1. PICK t \in TerminatorSets :
            /\ want' = [want EXCEPT ![g] = t]
            /\ LET request == [type |-> "input", terms |-> t] IN
               Issue(g, IF Version <= 3 THEN <<Bare("status"), request>> ELSE <<request>>, "readLine")
        BY <1>6 DEF Read
    <2> DEFINE request == [type |-> "input", terms |-> t]
               msgs == IF Version <= 3 THEN <<Bare("status"), request>> ELSE <<request>>
    <2>2. want'[g] = t
        BY <2>1 DEF TypeOK
    <2>3. Ordered(msgs, "readLine", want'[g])
        BY <2>2 DEF Ordered, Bare
    <2>4. Issue(g, msgs, "readLine")
        BY <2>1
    <2> HIDE DEF msgs
    <2>5. QED
        BY <2>3, <2>4
<1>7. CASE ReadChar(g)
    <2>1. Ordered(<<Bare("char")>>, "readChar", want'[g])
        BY DEF Ordered, Bare
    <2>2. QED
        BY <1>7, <2>1 DEF ReadChar
<1>8. CASE SaveOrRestore(g)
    <2>1. PICK t \in {"save", "restore"}, full \in BOOLEAN : Issue(g, <<[type |-> t, full |-> full]>>, t)
        BY <1>8 DEF SaveOrRestore
    <2>2. Ordered(<<[type |-> t, full |-> full]>>, t, want'[g])
        BY DEF Ordered
    <2>3. QED
        BY <2>1, <2>2
<1>9. CASE Restart(g)
    <2>1. Running(g) /\ g < MaxGen
        BY <1>9 DEF Restart, Issue
    <2>2. gen < MaxGen
        BY <2>1, RunningIsCurrent
    <2>3. Ordered(<<Bare("restart"), Bare("quit")>>, "halt", want'[g])
        BY <2>2 DEF Ordered, Bare
    <2>4. QED
        BY <1>9, <2>3 DEF Restart
<1>10. CASE QuitOp(g)
    <2>1. Ordered(<<Bare("quit")>>, "halt", want'[g])
        BY DEF Ordered, Bare
    <2>2. QED
        BY <1>10, <2>1 DEF QuitOp
<1>11. CASE Fail(g)
    <2>1. Ordered(<<Bare("error"), Bare("quit")>>, "halt", want'[g])
        BY DEF Ordered, Bare
    <2>2. QED
        BY <1>11, <2>1 DEF Fail
<1>12. QED
    BY <1>1, <1>2, <1>3, <1>4, <1>5, <1>6, <1>7, <1>8, <1>9, <1>10, <1>11 DEF Instruction

(* Taking the first message leaves the others in order; a message that      *)
(* hands the turn over leaves nothing, a Restart leaves its Quit.           *)
LEMMA OrderedRest ==
    ASSUME NEW o \in Seq(Msg), NEW q \in Seq(Msg), NEW pc, NEW t, Ordered(o, pc, t),
           Len(o) \in Nat \ {0}, Len(q) \in Nat, Len(o) = Len(q) + 1,
           \A i \in 1..Len(q) : q[i] = o[i + 1]
    PROVE  /\ Ordered(q, pc, t)
           /\ o[1].type = "input" => q = <<>> /\ pc = "readLine" /\ o[1].terms = t
           /\ o[1].type = "char" => q = <<>> /\ pc = "readChar"
           /\ o[1].type \in {"save", "restore"} => q = <<>> /\ pc = o[1].type
           /\ o[1].type = "restart" => q = <<Bare("quit")>> /\ pc = "halt" /\ gen < MaxGen
           /\ o[1].type = "quit" => q = <<>> /\ pc = "halt"
<1>1. ASSUME NEW i \in 1..Len(q)
      PROVE  /\ q[i].type = "input" => i = Len(q) /\ pc = "readLine" /\ q[i].terms = t
             /\ q[i].type = "char" => i = Len(q) /\ pc = "readChar"
             /\ q[i].type \in {"save", "restore"} => i = Len(q) /\ pc = q[i].type
             /\ q[i].type = "restart" => /\ i + 1 = Len(q) /\ q[i + 1] = Bare("quit")
                                        /\ pc = "halt" /\ gen < MaxGen
             /\ q[i].type = "quit" => i = Len(q) /\ pc = "halt"
    <2> DEFINE j == i + 1
    <2>1. j \in 1..Len(o) /\ q[i] = o[j] /\ (j = Len(o) => i = Len(q))
        OBVIOUS
    <2>2. j + 1 = Len(o) => i + 1 = Len(q) /\ q[i + 1] = o[j + 1]
        <3> SUFFICES ASSUME j + 1 = Len(o) PROVE i + 1 = Len(q) /\ q[i + 1] = o[j + 1]
            OBVIOUS
        <3>1. i + 1 = Len(q) /\ i + 1 \in 1..Len(q)
            OBVIOUS
        <3>2. QED
            BY <3>1
    <2> HIDE DEF j
    <2>3. QED
        BY <2>1, <2>2 DEF Ordered
<1>2. 1 \in 1..Len(o)
    OBVIOUS
<1>3. 1 = Len(o) => q = <<>>
    BY EmptySequence
<1>4. 1 + 1 = Len(o) => q = <<o[1 + 1]>>
    <2> SUFFICES ASSUME 1 + 1 = Len(o) PROVE q = <<o[1 + 1]>>
        OBVIOUS
    <2> DEFINE n == Len(q)
    <2> n \in Nat /\ n + 1 = 1 + 1
        OBVIOUS
    <2> HIDE DEF n
    <2>0. n = 1 /\ 1 \in 1..n
        OBVIOUS
    <2>1. Len(q) = 1 /\ 1 \in 1..Len(q)
        BY <2>0 DEF n
    <2>2. q[1] = o[1 + 1]
        BY <2>1
    <2>3. q = <<q[1]>>
        BY <2>1, Singleton
    <2>4. QED
        BY <2>2, <2>3
<1>5. QED
    BY <1>1, <1>2, <1>3, <1>4 DEF Ordered

LEMMA OrderedTail ==
    ASSUME NEW o \in Seq(Msg), o # <<>>, NEW pc, NEW t, Ordered(o, pc, t)
    PROVE  /\ Ordered(Tail(o), pc, t)
           /\ Head(o).type = "input" => Tail(o) = <<>> /\ pc = "readLine" /\ Head(o).terms = t
           /\ Head(o).type = "char" => Tail(o) = <<>> /\ pc = "readChar"
           /\ Head(o).type \in {"save", "restore"} => Tail(o) = <<>> /\ pc = Head(o).type
           /\ Head(o).type = "restart" => Tail(o) = <<Bare("quit")>> /\ pc = "halt" /\ gen < MaxGen
           /\ Head(o).type = "quit" => Tail(o) = <<>> /\ pc = "halt"
<1>1. /\ Len(o) \in Nat \ {0} /\ Head(o) = o[1]
      /\ Tail(o) \in Seq(Msg) /\ Len(Tail(o)) = Len(o) - 1
      /\ \A i \in 1..Len(Tail(o)) : Tail(o)[i] = o[i + 1]
    BY HeadTail
<1>2. PICK q : q = Tail(o)
    OBVIOUS
<1>3. q \in Seq(Msg) /\ Len(q) = Len(o) - 1 /\ \A i \in 1..Len(q) : q[i] = o[i + 1]
    BY <1>1, <1>2, Zenon
<1>4. Len(q) \in Nat /\ Len(o) \in Nat \ {0} /\ Len(o) = Len(q) + 1
    BY <1>1, <1>3
<1>5. /\ Ordered(q, pc, t)
      /\ o[1].type = "input" => q = <<>> /\ pc = "readLine" /\ o[1].terms = t
      /\ o[1].type = "char" => q = <<>> /\ pc = "readChar"
      /\ o[1].type \in {"save", "restore"} => q = <<>> /\ pc = o[1].type
      /\ o[1].type = "restart" => q = <<Bare("quit")>> /\ pc = "halt" /\ gen < MaxGen
      /\ o[1].type = "quit" => q = <<>> /\ pc = "halt"
    BY <1>3, <1>4, OrderedRest
<1>6. Head(o) = o[1]
    BY <1>1
<1>7. QED
    BY <1>2, <1>5, <1>6, Zenon

(* The pump takes messages of the current machine, and only while the UI    *)
(* holds nothing of it.                                                     *)
LEMMA InvPump ==
    ASSUME TypeOK, Inv, NEW g \in Gens, Pump(g)
    PROVE  Inv'
<1> USE GensFacts
<1>1. g = gen /\ armed[gen] = 1 /\ FromPump(gen) = {} /\ ui \notin {"copyStack", "writeFile", "respond"}
    <2>1. g \in Int /\ gen \in Int /\ armed[g] > 0
        BY DEF TypeOK, Pump
    <2>2. ~(g < gen) /\ ~(g > gen)
        BY <2>1 DEF Inv, OtherMachines
    <2>3. QED
        BY <2>1, <2>2 DEF Inv, OneListener
<1> DEFINE o == out[gen]
           m == Head(o)
           e == [from |-> gen, msg |-> Forward(m)]
<1>2. o \in Seq(Msg) /\ o # <<>> /\ m \in Msg
    BY <1>1, HeadTail DEF Pump, TypeOK
<1>3. /\ inbox' = inbox \cup {e} /\ out' = [out EXCEPT ![gen] = Tail(o)]
      /\ armed' = [armed EXCEPT ![gen] = 0]
      /\ UNCHANGED <<ipc, want, gen, appState, ui, terms, mem, stack, export, reply, disk, runtimeError>>
    BY <1>1 DEF Pump, uiVars, fileVars
<1>4. gen \in Gens /\ out'[gen] = Tail(o) /\ armed'[gen] = 0
    BY <1>3 DEF TypeOK
<1>5. Ordered(o, ipc[gen], want[gen])
    BY DEF Inv, SendsAreOrdered
<1>6. appState = "running" /\ ui # "answer"
    BY <1>2 DEF Inv, PromptMatchesRead, UpdateNeverFreezes, Waiting, TypeOK
<1>7. SendsAreOrdered'
    BY <1>2, <1>3, <1>4, <1>5, OrderedTail DEF SendsAreOrdered, Ordered
<1>8. /\ m.type = "input" => Tail(o) = <<>> /\ ipc[gen] = "readLine" /\ m.terms = want[gen]
      /\ m.type = "char" => Tail(o) = <<>> /\ ipc[gen] = "readChar"
      /\ m.type \in {"save", "restore"} => Tail(o) = <<>> /\ ipc[gen] = m.type
      /\ m.type = "restart" => Tail(o) = <<Bare("quit")>> /\ ipc[gen] = "halt" /\ gen < MaxGen
      /\ m.type = "quit" => Tail(o) = <<>> /\ ipc[gen] = "halt"
    BY <1>2, <1>5, OrderedTail
<1>9. Forward(m).type \in {"input", "char", "save", "restore", "restart", "quit"} => Forward(m) = m
    BY DEF Forward
<1>10. SendersWait'
    <2> SUFFICES ASSUME NEW d \in inbox'
                 PROVE  /\ d.from \in {0, gen}
                        /\ d.from = 0 => d = QuitCmd
                        /\ d.from = gen =>
                            /\ d.msg.type = "input" => ipc[gen] = "readLine" /\ Tail(o) = <<>> /\ d.msg.terms = want[gen]
                            /\ d.msg.type = "char" => ipc[gen] = "readChar" /\ Tail(o) = <<>>
                            /\ d.msg.type \in {"save", "restore"} => ipc[gen] = d.msg.type /\ Tail(o) = <<>>
                            /\ d.msg.type = "restart" => /\ ipc[gen] = "halt" /\ Tail(o) = <<Bare("quit")>>
                                                         /\ gen < MaxGen
                            /\ d.msg.type = "quit" => ipc[gen] = "halt" /\ Tail(o) = <<>>
        BY <1>3, <1>4 DEF SendersWait, Waiting, QuitCmd, Bare
    <2>1. CASE d \in inbox
        BY <1>1, <2>1 DEF Inv, SendersWait, FromPump
    <2>2. CASE d = e
        <3>1. d.from = gen /\ d.msg = Forward(m) /\ gen # 0
            BY <2>2 DEF TypeOK, Gens
        <3>2. QED
            BY <3>1, <1>8, <1>9
    <2>3. QED
        BY <1>3, <2>1, <2>2
<1>11. OtherMachines'
    BY <1>3 DEF Inv, OtherMachines, TypeOK, Gens
<1>12. FromPump(gen)' = {e}
    BY <1>1, <1>3 DEF FromPump
<1>13. OneListener'
    BY <1>1, <1>3, <1>4, <1>12 DEF Inv, OneListener
<1>14. QED
    BY <1>1, <1>3, <1>6, <1>7, <1>10, <1>11, <1>13 DEF Inv, TurnIsHeld, PromptMatchesRead,
        UpdateNeverFreezes, ExportIsASnapshot, SuccessMeansSaved

(* Update handles one message of the machine at a time: nothing else of it  *)
(* is in flight, nobody else listens, and the UI holds nothing.             *)
LEMMA HandledAlone ==
    ASSUME TypeOK, Inv, NEW e \in inbox, ui = "loop", e.msg.type # "quit"
    PROVE  /\ e.from = gen /\ gen \in Gens /\ gen # 0
           /\ armed[gen] = 0
           /\ \A d \in inbox \ {e} : d = QuitCmd
           /\ FromPump(gen) = {e}
           /\ {d \in inbox \ {e} : d.from = gen} = {}
           /\ appState = "running"
<1>1. gen \in Gens /\ gen # 0
    BY DEF TypeOK, Gens
<1>2. e.from = gen
    BY <1>1 DEF Inv, SendersWait, QuitCmd, Bare
<1>3. FromPump(gen) = {e}
    BY <1>2 DEF FromPump, Inv, OneListener
<1>4. armed[gen] = 0
    BY <1>3 DEF Inv, OneListener
<1>5. ASSUME NEW d \in inbox \ {e} PROVE d = QuitCmd /\ d.from # gen
    BY <1>1, <1>3 DEF FromPump, Inv, SendersWait, QuitCmd
<1>6. appState = "running"
    BY <1>3 DEF Inv, TurnIsHeld
<1>7. QED
    BY <1>1, <1>2, <1>3, <1>4, <1>5, <1>6

(* The machines and what they send stay as they are.                        *)
LEMMA InvRearm ==
    ASSUME TypeOK, Inv, NEW e \in inbox, ui = "loop", e.msg.type # "quit",
           UNCHANGED <<interpVars, gen, ui>>,
           inbox' = inbox \ {e}, armed' = [armed EXCEPT ![gen] = @ + 1],
           PromptMatchesRead'
    PROVE  Inv'
<1> USE GensFacts
<1>1. armed'[gen] = 1 /\ gen' = gen /\ gen \in Gens /\ FromPump(gen)' = {} /\ ui' = "loop"
    BY HandledAlone DEF TypeOK, FromPump
<1>2. SendsAreOrdered'
    BY DEF Inv, SendsAreOrdered, Ordered, interpVars
<1>3. SendersWait'
    BY HandledAlone, <1>1 DEF SendersWait, QuitCmd, Bare
<1>4. OtherMachines'
    BY DEF Inv, OtherMachines, TypeOK, Gens, interpVars
<1>5. OneListener'
    BY <1>1 DEF OneListener
<1>6. QED
    BY <1>1, <1>2, <1>3, <1>4, <1>5 DEF Inv, TurnIsHeld, UpdateNeverFreezes,
        ExportIsASnapshot, SuccessMeansSaved

(* A handler that leaves the loop for good: its Quit is on the way.         *)
LEMMA InvLeave ==
    ASSUME TypeOK, Inv, NEW e \in inbox, ui = "loop", e.msg.type # "quit",
           UNCHANGED <<interpVars, mem, gen, ui, appState, armed>>,
           inbox' = (inbox \ {e}) \cup {QuitCmd}
    PROVE  Inv'
<1> USE GensFacts
<1>1. armed'[gen] = 0 /\ gen' = gen /\ gen \in Gens /\ ui' = "loop" /\ appState' = "running"
    BY HandledAlone
<1>2. \A d \in inbox' : d = QuitCmd
    BY HandledAlone
<1>3. FromPump(gen)' = {} /\ QuitCmd \in inbox'
    BY <1>1, <1>2, HandledAlone DEF FromPump, QuitCmd
<1>4. SendsAreOrdered'
    BY DEF Inv, SendsAreOrdered, Ordered, interpVars
<1>5. SendersWait'
    BY <1>1, <1>2, HandledAlone DEF SendersWait, QuitCmd, Bare
<1>6. OtherMachines'
    BY DEF Inv, OtherMachines, TypeOK, Gens, interpVars
<1>7. Leaving'
    BY <1>3 DEF Leaving, QuitCmd, Bare
<1>8. OneListener'
    BY <1>1, <1>3, <1>7 DEF OneListener
<1>9. QED
    BY <1>1, <1>3, <1>4, <1>5, <1>6, <1>8 DEF Inv, TurnIsHeld, UpdateNeverFreezes,
        PromptMatchesRead, ExportIsASnapshot, SuccessMeansSaved

LEMMA InvHandle ==
    ASSUME TypeOK, Inv, NEW e \in inbox, Handle(e)
    PROVE  Inv'
<1> USE GensFacts
<1>1. ASSUME OnText(e) \/ OnScreenModel(e) \/ OnNotice(e) PROVE Inv'
    <2>1. ui = "loop" /\ e.msg.type # "quit"
        BY <1>1 DEF OnText, OnScreenModel, OnNotice, TakeAndRearm, Take
    <2>2. /\ UNCHANGED <<interpVars, gen, ui, appState>>
          /\ inbox' = inbox \ {e} /\ armed' = [armed EXCEPT ![gen] = @ + 1]
        BY <1>1 DEF OnText, OnScreenModel, OnNotice, TakeAndRearm, Take, uiVars
    <2>3. PromptMatchesRead'
        BY <2>1, <2>2, HandledAlone DEF PromptMatchesRead
    <2>4. QED
        BY <2>1, <2>2, <2>3, InvRearm
<1>2. CASE OnInputRequest(e)
    <2>1. ui = "loop" /\ e.msg.type = "input"
        BY <1>2 DEF OnInputRequest, TakeAndRearm, Take
    <2>2. /\ UNCHANGED <<interpVars, gen, ui>>
          /\ inbox' = inbox \ {e} /\ armed' = [armed EXCEPT ![gen] = @ + 1]
          /\ appState' = "input" /\ terms' = e.msg.terms
        BY <1>2 DEF OnInputRequest, TakeAndRearm, Take
    <2>3. Waiting(gen, "readLine") /\ e.msg.terms = want[gen]
        BY <2>1, HandledAlone DEF Inv, SendersWait
    <2>4. PromptMatchesRead'
        BY <2>2, <2>3 DEF PromptMatchesRead, Waiting, interpVars
    <2>5. QED
        BY <2>1, <2>2, <2>4, InvRearm
<1>3. CASE OnWaitForCharacter(e)
    <2>1. ui = "loop" /\ e.msg.type = "char"
        BY <1>3 DEF OnWaitForCharacter, TakeAndRearm, Take
    <2>2. /\ UNCHANGED <<interpVars, gen, ui>>
          /\ inbox' = inbox \ {e} /\ armed' = [armed EXCEPT ![gen] = @ + 1]
          /\ appState' = "character"
        BY <1>3 DEF OnWaitForCharacter, TakeAndRearm, Take
    <2>3. Waiting(gen, "readChar")
        BY <2>1, HandledAlone DEF Inv, SendersWait
    <2>4. PromptMatchesRead'
        BY <2>2, <2>3 DEF PromptMatchesRead, Waiting, interpVars
    <2>5. QED
        BY <2>1, <2>2, <2>4, InvRearm
<1>4. CASE OnEraseWindow(e)
    <2>1. ui = "loop" /\ e.msg.type # "quit" /\ UNCHANGED <<interpVars, mem, gen, ui, appState>>
        BY <1>4 DEF OnEraseWindow, Take
    <2>2. CASE e.msg.value \in {-2, -1, 0, 1}
        <3>1. inbox' = inbox \ {e} /\ armed' = [armed EXCEPT ![gen] = @ + 1]
            BY <1>4, <2>2 DEF OnEraseWindow, TakeAndRearm
        <3>2. PromptMatchesRead'
            BY <2>1, HandledAlone DEF PromptMatchesRead
        <3>3. QED
            BY <2>1, <3>1, <3>2, InvRearm
    <2>3. CASE e.msg.value \notin {-2, -1, 0, 1}
        <3>1. inbox' = (inbox \ {e}) \cup {QuitCmd} /\ UNCHANGED armed
            BY <1>4, <2>3 DEF OnEraseWindow
        <3>2. QED
            BY <2>1, <3>1, InvLeave
    <2>4. QED
        BY <2>2, <2>3
<1>5. CASE OnRuntimeError(e)
    <2>1. /\ ui = "loop" /\ e.msg.type # "quit" /\ UNCHANGED <<interpVars, mem, gen, ui, appState, armed>>
          /\ inbox' = (inbox \ {e}) \cup {QuitCmd}
        BY <1>5 DEF OnRuntimeError, Take
    <2>2. QED
        BY <2>1, InvLeave
<1>6. CASE OnRestart(e)
    <2>1. ui = "loop" /\ e.msg.type = "restart"
        BY <1>6 DEF OnRestart, Take
    <2>2. ipc[gen] = "halt" /\ out[gen] = <<Bare("quit")>> /\ gen < MaxGen
        BY <2>1, HandledAlone DEF Inv, SendersWait
    <2>3. gen \in Gens /\ gen + 1 \in Gens /\ gen + 1 # gen
        BY <2>2 DEF TypeOK, Gens
    <2>4. /\ gen' = gen + 1 /\ inbox' = inbox \ {e} /\ appState' = "running" /\ ui' = "loop"
          /\ ipc' = [ipc EXCEPT ![gen + 1] = "step"]
          /\ out' = [out EXCEPT ![gen + 1] = <<Screen("lower")>>]
          /\ armed' = [armed EXCEPT ![gen + 1] = @ + 1]
        BY <1>6, <2>1 DEF OnRestart
    <2>5. armed[gen] = 0 /\ armed[gen + 1] = 0
        BY <2>1, <2>3, HandledAlone DEF Inv, OtherMachines, Gens
    <2>6. armed'[gen + 1] = 1 /\ ipc'[gen + 1] = "step" /\ out'[gen + 1] = <<Screen("lower")>>
        BY <2>3, <2>4, <2>5 DEF TypeOK
    <2>7. SendsAreOrdered'
        BY <2>4, <2>6 DEF SendsAreOrdered, Ordered, Screen
    <2>8. \A d \in inbox' : d = QuitCmd
        BY <2>1, <2>4, HandledAlone
    <2>9. SendersWait'
        BY <2>3, <2>4, <2>8 DEF SendersWait, QuitCmd, Gens
    <2>10. FromPump(gen)' = {}
        BY <2>3, <2>4, <2>8 DEF FromPump, QuitCmd, Gens
    <2>11. OtherMachines'
        <3>1. ASSUME NEW g \in Gens, g < gen + 1
              PROVE  ipc'[g] = "halt" /\ out'[g] = <<Bare("quit")>> /\ armed'[g] = 0
            <4>1. g # gen + 1 /\ (g = gen \/ g < gen)
                BY <2>3, <3>1 DEF Gens
            <4>2. ipc[g] = "halt" /\ out[g] = <<Bare("quit")>> /\ armed[g] = 0
                BY <2>2, <2>5, <4>1 DEF Inv, OtherMachines
            <4>3. QED
                BY <2>4, <4>1, <4>2 DEF TypeOK
        <3>2. ASSUME NEW g \in Gens, g > gen + 1
              PROVE  ipc'[g] = "none" /\ out'[g] = <<>> /\ armed'[g] = 0
            <4>1. g # gen + 1 /\ g > gen
                BY <2>3, <3>2 DEF Gens
            <4>2. ipc[g] = "none" /\ out[g] = <<>> /\ armed[g] = 0
                BY <4>1 DEF Inv, OtherMachines
            <4>3. QED
                BY <2>4, <4>1, <4>2 DEF TypeOK
        <3>3. QED
            BY <2>4, <3>1, <3>2 DEF OtherMachines
    <2>12. OneListener'
        BY <2>4, <2>6, <2>10 DEF OneListener
    <2>13. QED
        BY <2>4, <2>7, <2>9, <2>10, <2>11, <2>12 DEF Inv, TurnIsHeld, UpdateNeverFreezes,
            PromptMatchesRead, ExportIsASnapshot, SuccessMeansSaved
<1>7. CASE OnQuit(e)
    <2>1. /\ ui = "loop" /\ ui' = "exited" /\ inbox' = inbox \ {e}
          /\ UNCHANGED <<interpVars, armed, gen, appState, terms, runtimeError>>
        BY <1>7 DEF OnQuit, Take, uiVars
    <2>2. SendsAreOrdered' /\ OtherMachines' /\ PromptMatchesRead'
        <3>1. SendsAreOrdered'
            BY <2>1 DEF Inv, SendsAreOrdered, Ordered, interpVars
        <3>2. OtherMachines'
            BY <2>1 DEF Inv, OtherMachines, interpVars
        <3>3. PromptMatchesRead'
            BY <2>1 DEF Inv, PromptMatchesRead, Waiting, interpVars
        <3>4. QED
            BY <3>1, <3>2, <3>3
    <2>3. SendersWait'
        BY <2>1 DEF Inv, SendersWait, Waiting, interpVars
    <2>4. FromPump(gen)' \subseteq FromPump(gen)
        BY <2>1 DEF FromPump
    <2>5. OneListener'
        BY <2>1, <2>4 DEF Inv, OneListener, Leaving
    <2>6. QED
        BY <2>1, <2>2, <2>3, <2>4, <2>5 DEF Inv, TurnIsHeld, UpdateNeverFreezes,
            ExportIsASnapshot, SuccessMeansSaved
<1>8. CASE OnSave(e) \/ OnRestore(e)
    <2>1. ui = "loop" /\ e.msg.type \in {"save", "restore"}
        BY <1>8 DEF OnSave, OnRestore, Take
    <2>2. inbox' = inbox \ {e} /\ UNCHANGED <<interpVars, mem, armed, gen, appState, terms, disk>>
        BY <1>8 DEF OnSave, OnRestore, uiVars
    <2>3. Waiting(gen, e.msg.type)
        BY <2>1, HandledAlone DEF Inv, SendersWait
    <2>4. \/ /\ ui' = "copyStack" /\ e.msg.type = "save" /\ export' = Snapshot(mem, BootStack)
          \/ /\ ui' = "respond" /\ e.msg.type = "save" /\ reply' = SaveResult(FALSE)
          \/ /\ ui' = "respond" /\ e.msg.type = "restore"
             /\ reply' \in {RestoreResult(TRUE), RestoreResult(FALSE)}
        BY <1>8 DEF OnSave, OnRestore, Take
    <2>5. FromPump(gen)' = {} /\ armed'[gen] = 0 /\ gen' = gen /\ gen \in Gens /\ appState' = "running"
        BY <2>1, <2>2, HandledAlone DEF FromPump
    <2>6. SendsAreOrdered' /\ OtherMachines' /\ PromptMatchesRead'
        BY <2>2, <2>5 DEF Inv, SendsAreOrdered, Ordered, OtherMachines, PromptMatchesRead,
            TypeOK, Gens, interpVars
    <2>7. SendersWait'
        <3>1. gen' # 0 /\ \A d \in inbox' : d = QuitCmd
            BY <2>1, <2>2, HandledAlone
        <3>2. QED
            BY <3>1 DEF SendersWait, QuitCmd
    <2>8. OneListener'
        <3>1. ui' \in {"copyStack", "respond"}
            BY <2>4
        <3>2. QED
            BY <2>5, <3>1 DEF OneListener, FromPump
    <2>9. UpdateNeverFreezes' /\ TurnIsHeld'
        BY <2>2, <2>3, <2>4, <2>5 DEF UpdateNeverFreezes, TurnIsHeld, Waiting, interpVars,
            SaveResult, RestoreResult
    <2>10. ExportIsASnapshot' /\ SuccessMeansSaved'
        BY <2>2, <2>4 DEF ExportIsASnapshot, SuccessMeansSaved, Snapshot, SaveResult, RestoreResult
    <2>11. QED
        BY <2>6, <2>7, <2>8, <2>9, <2>10 DEF Inv
<1>9. QED
    BY <1>1, <1>2, <1>3, <1>4, <1>5, <1>6, <1>7, <1>8 DEF Handle

(* What the invariant does not speak of may change.                         *)
LEMMA InvUnchanged ==
    ASSUME TypeOK, Inv,
           UNCHANGED <<ipc, out, want, stack, mem, armed, inbox, ui, gen, appState, terms,
                       runtimeError, export, reply, disk>>
    PROVE  Inv'
<1>1. SendsAreOrdered'
    BY DEF Inv, SendsAreOrdered, Ordered
<1>2. SendersWait'
    BY DEF Inv, SendersWait, Waiting
<1>3. OtherMachines'
    BY DEF Inv, OtherMachines
<1>4. FromPump(gen)' = FromPump(gen)
    BY DEF FromPump
<1>5. TurnIsHeld' /\ PromptMatchesRead' /\ UpdateNeverFreezes'
    BY <1>4 DEF Inv, TurnIsHeld, PromptMatchesRead, UpdateNeverFreezes, Waiting
<1>6. OneListener'
    BY <1>4 DEF Inv, OneListener, Leaving
<1>7. ExportIsASnapshot' /\ SuccessMeansSaved'
    BY DEF Inv, ExportIsASnapshot, SuccessMeansSaved
<1>8. QED
    BY <1>1, <1>2, <1>3, <1>5, <1>6, <1>7 DEF Inv

LEMMA InvPlayer ==
    ASSUME TypeOK, Inv, Player
    PROVE  Inv'
<1> USE GensFacts
<1>g. gen \in Gens /\ gen # 0
    BY DEF TypeOK, Gens
<1>1. CASE CtrlC
    <2>1. /\ ui = "loop" /\ inbox' = inbox \cup {QuitCmd}
          /\ UNCHANGED <<interpVars, mem, armed, ui, gen, appState, terms, runtimeError, reply, export, disk>>
        BY <1>1 DEF CtrlC, uiVars, fileVars
    <2>2. SendsAreOrdered' /\ OtherMachines' /\ PromptMatchesRead'
        BY <2>1 DEF Inv, SendsAreOrdered, Ordered, OtherMachines, PromptMatchesRead, Waiting,
            TypeOK, Gens, interpVars
    <2>3. FromPump(gen)' = FromPump(gen)
        BY <1>g, <2>1 DEF FromPump, QuitCmd
    <2>4. SendersWait'
        BY <1>g, <2>1 DEF Inv, SendersWait, Waiting, interpVars, QuitCmd
    <2>5. OneListener'
        BY <2>1, <2>3 DEF Inv, OneListener, Leaving, QuitCmd, Bare
    <2>6. QED
        BY <2>1, <2>2, <2>3, <2>4, <2>5 DEF Inv, TurnIsHeld, UpdateNeverFreezes,
            ExportIsASnapshot, SuccessMeansSaved
<1>2. ASSUME NEW k \in Keys, KeyForCharacter(k) \/ KeyEndsLine(k) PROVE Inv'
    <2>1. /\ ui = "loop" /\ appState # "running" /\ appState' = "running" /\ ui' = "answer"
          /\ UNCHANGED <<interpVars, mem, armed, inbox, gen, terms, runtimeError>>
        BY <1>2 DEF KeyForCharacter, KeyEndsLine
    <2>2. \/ reply'.to = "readChar" /\ Waiting(gen, "readChar")
          \/ /\ reply'.to = "readLine" /\ Waiting(gen, "readLine")
             /\ reply'.key \in {"enter"} \cup want[gen]
        BY <1>2 DEF KeyForCharacter, KeyEndsLine, Char, Line, Inv, PromptMatchesRead
    <2>3. SendsAreOrdered' /\ OtherMachines' /\ PromptMatchesRead'
        BY <2>1 DEF Inv, SendsAreOrdered, Ordered, OtherMachines, PromptMatchesRead,
            TypeOK, Gens, interpVars
    <2>4. FromPump(gen)' = {}
        BY <2>1 DEF FromPump, Inv, TurnIsHeld
    <2>5. SendersWait'
        BY <2>1 DEF Inv, SendersWait, Waiting, interpVars
    <2>6. OneListener'
        BY <2>1, <2>4 DEF Inv, OneListener, Leaving, FromPump
    <2>7. UpdateNeverFreezes' /\ TurnIsHeld'
        BY <2>1, <2>2, <2>4 DEF UpdateNeverFreezes, TurnIsHeld, Waiting, interpVars
    <2>8. QED
        BY <2>1, <2>3, <2>5, <2>6, <2>7 DEF Inv, ExportIsASnapshot, SuccessMeansSaved
<1>3. CASE KeyTyped
    <2>1. UNCHANGED <<interpVars, mem, armed, inbox, ui, gen, appState, terms, runtimeError, export, reply, disk>>
        BY <1>3 DEF KeyTyped, fileVars
    <2>2. QED
        BY <2>1, InvUnchanged DEF interpVars
<1>4. QED
    BY <1>1, <1>2, <1>3 DEF Player

(* A value handed over: the machine goes on, and no message of it is in     *)
(* flight yet.                                                              *)
LEMMA InvHandOver ==
    ASSUME TypeOK, Inv, Waiting(gen, "readLine") \/ Waiting(gen, "readChar")
                        \/ Waiting(gen, "save") \/ Waiting(gen, "restore"),
           ui \in {"answer", "respond"}, ui' = "loop",
           ipc' = [ipc EXCEPT ![gen] = "step"],
           UNCHANGED <<out, want, inbox, gen, appState, runtimeError>>,
           IF ui = "answer" THEN armed' = armed ELSE armed' = [armed EXCEPT ![gen] = @ + 1]
    PROVE  Inv'
<1> USE GensFacts
<1>g. gen \in Gens /\ gen # 0
    BY DEF TypeOK, Gens
<1>1. appState = "running"
    BY DEF Inv, TurnIsHeld, TypeOK
<1>2. FromPump(gen) = {}
    BY DEF Inv, TurnIsHeld, OneListener
<1>3. SendsAreOrdered'
    BY <1>g DEF SendsAreOrdered, Ordered, Waiting
<1>4. \A e \in inbox : e.from # gen
    BY <1>2 DEF FromPump
<1>5. SendersWait'
    BY <1>4 DEF Inv, SendersWait
<1>6. OtherMachines'
    BY <1>g DEF Inv, OtherMachines, TypeOK, Gens
<1>7. FromPump(gen)' = {}
    BY <1>2 DEF FromPump
<1>8. OneListener'
    <2>1. CASE ui = "answer"
        BY <2>1, <1>2, <1>7 DEF Inv, OneListener, Leaving
    <2>2. CASE ui = "respond"
        <3>1. armed[gen] = 0
            BY <2>2 DEF Inv, OneListener
        <3>2. armed'[gen] = 1
            BY <1>g, <2>2, <3>1 DEF TypeOK
        <3>3. QED
            BY <1>7, <3>2 DEF OneListener
    <2>3. QED
        BY <2>1, <2>2
<1>9. QED
    BY <1>1, <1>3, <1>5, <1>6, <1>8 DEF Inv, TurnIsHeld, UpdateNeverFreezes, PromptMatchesRead,
        ExportIsASnapshot, SuccessMeansSaved

LEMMA InvBlocked ==
    ASSUME TypeOK, Inv, Blocked
    PROVE  Inv'
<1> USE GensFacts
<1>1. ASSUME CopyStack \/ WriteFile PROVE Inv'
    <2>1. UNCHANGED <<interpVars, mem, armed, inbox, gen, appState, terms, runtimeError>>
        BY <1>1 DEF CopyStack, WriteFile, uiVars
    <2>2. ui \in {"copyStack", "writeFile"} /\ ui' \in {"writeFile", "respond"}
        BY <1>1 DEF CopyStack, WriteFile
    <2>3. Waiting(gen, "save")
        BY <2>2 DEF Inv, UpdateNeverFreezes
    <2>4. ui' = "respond" => reply' = SaveResult(TRUE) \/ reply' = SaveResult(FALSE)
        BY <1>1 DEF CopyStack, WriteFile
    <2>5. ExportIsASnapshot'
        <3>1. CASE CopyStack
            <4>1. export = Snapshot(mem, export.stack)
                BY <3>1 DEF CopyStack, Inv, ExportIsASnapshot
            <4>2. export' = Snapshot(mem, stack[gen])
                BY <3>1, <4>1 DEF CopyStack, Snapshot
            <4>3. QED
                BY <2>1, <3>1, <4>2 DEF CopyStack, ExportIsASnapshot, interpVars
        <3>2. CASE WriteFile
            BY <3>2 DEF WriteFile, ExportIsASnapshot
        <3>3. QED
            BY <1>1, <3>1, <3>2
    <2>6. SuccessMeansSaved'
        <3>1. CASE CopyStack
            BY <3>1 DEF CopyStack, SuccessMeansSaved
        <3>2. CASE WriteFile
            <4>1. export = Snapshot(mem, stack[gen])
                BY <3>2 DEF WriteFile, Inv, ExportIsASnapshot
            <4>2. UNCHANGED <<mem, gen, stack>>
                BY <2>1 DEF interpVars
            <4>3. reply' = SaveResult(TRUE) => disk' = export
                BY <3>2 DEF WriteFile, SaveResult
            <4>4. QED
                BY <4>1, <4>2, <4>3 DEF SuccessMeansSaved, Snapshot
        <3>3. QED
            BY <1>1, <3>1, <3>2
    <2>7. SendsAreOrdered' /\ OtherMachines' /\ SendersWait' /\ PromptMatchesRead'
        <3>1. /\ UNCHANGED <<out, ipc, want, inbox, gen>>
              /\ \A what : Waiting(gen, what)' <=> Waiting(gen, what)
            BY <2>1 DEF Waiting, interpVars
        <3>5. SendsAreOrdered'
            BY <3>1 DEF Inv, SendsAreOrdered, Ordered
        <3>6. SendersWait'
            BY <3>1 DEF Inv, SendersWait, Waiting
        <3>2. OtherMachines'
            BY <2>1 DEF Inv, OtherMachines, interpVars
        <3>3. PromptMatchesRead'
            BY <2>1 DEF Inv, PromptMatchesRead, Waiting, interpVars
        <3>4. QED
            BY <3>2, <3>3, <3>5, <3>6
    <2>8. OneListener'
        BY <2>1, <2>2 DEF Inv, OneListener, FromPump, Leaving
    <2>9. UpdateNeverFreezes' /\ TurnIsHeld'
        BY <2>1, <2>2, <2>3, <2>4 DEF Inv, UpdateNeverFreezes, TurnIsHeld, FromPump, Waiting,
            SaveResult, interpVars
    <2>10. QED
        BY <2>5, <2>6, <2>7, <2>8, <2>9 DEF Inv
<1>2. CASE Respond
    <2>1. ui = "respond" /\ Waiting(gen, reply.to) /\ reply.to \in {"save", "restore"}
        BY <1>2 DEF Respond, Inv, UpdateNeverFreezes, TurnIsHeld
    <2>2. QED
        BY <1>2, <2>1, InvHandOver DEF Respond, uiVars
<1>3. CASE SendAnswer
    <2>1. ui = "answer" /\ Waiting(gen, reply.to) /\ reply.to \in {"readLine", "readChar"}
        BY <1>3 DEF SendAnswer, Inv, UpdateNeverFreezes, TurnIsHeld
    <2>2. QED
        BY <1>3, <2>1, InvHandOver DEF SendAnswer
<1>4. QED
    BY <1>1, <1>2, <1>3 DEF Blocked

(* The prompt and the read, the channels, the listener, the snapshot: every *)
(* part of the inductive invariant holds, for any number of machines.       *)
THEOREM InvariantHolds == Spec => []Inv
<1>1. TypeOK /\ TypeOK' /\ Inv /\ [Next]_vars => Inv'
    <2> SUFFICES ASSUME TypeOK, TypeOK', Inv, [Next]_vars PROVE Inv'
        OBVIOUS
    <2>1. CASE UNCHANGED vars
        BY <2>1, InvUnchanged DEF vars, interpVars, uiVars, fileVars
    <2>2. CASE Interpreter
        BY <2>2, InvInstruction DEF Interpreter
    <2>3. ASSUME NEW g \in Gens, Pump(g) PROVE Inv'
        BY <2>3, InvPump
    <2>4. ASSUME NEW e \in inbox, Handle(e) PROVE Inv'
        BY <2>4, InvHandle
    <2>5. QED
        BY <2>1, <2>2, <2>3, <2>4, InvPlayer, InvBlocked DEF Next, Exited
<1>2. QED
    BY InvInit, TypeCorrect, <1>1, PTL DEF Spec

(* While the UI takes keys, the interpreter is blocked in the read they are *)
(* for.                                                                     *)
THEOREM PromptAlwaysMatchesRead == Spec => []PromptMatchesRead
<1>1. Inv => PromptMatchesRead
    BY DEF Inv
<1>2. QED
    BY <1>1, InvariantHolds, PTL

(* A channel send inside Update always finds its receiver waiting.          *)
THEOREM UpdateIsNeverFrozen == Spec => []UpdateNeverFreezes
<1>1. Inv => UpdateNeverFreezes
    BY DEF Inv
<1>2. QED
    BY <1>1, InvariantHolds, PTL

(* Exactly one pump command or message carries the current machine's output. *)
THEOREM ListenerIsUnique == Spec => []OneListener
<1>1. Inv => OneListener
    BY DEF Inv
<1>2. QED
    BY <1>1, InvariantHolds, PTL

(* ExportSaveState, run by the UI goroutine, reads one state of the machine. *)
THEOREM ExportIsAlwaysASnapshot == Spec => []ExportIsASnapshot
<1>1. Inv => ExportIsASnapshot
    BY DEF Inv
<1>2. QED
    BY <1>1, InvariantHolds, PTL

(* A save reported as successful is on disk and is the present state.       *)
THEOREM SuccessAlwaysMeansSaved == Spec => []SuccessMeansSaved
<1>1. Inv => SuccessMeansSaved
    BY DEF Inv
<1>2. QED
    BY <1>1, InvariantHolds, PTL

(* The goroutine a restart leaves behind never writes or speaks again.      *)
THEOREM AbandonedMachinesStayInert == Spec => []AbandonedMachinesAreInert
<1>1. ASSUME TypeOK, Inv, NEW g \in 1..(gen - 1)
      PROVE  /\ ipc[g] = "halt" /\ out[g] = <<Bare("quit")>>
             /\ armed[g] = 0 /\ FromPump(g) = {}
    <2>1. g \in Gens /\ g < gen /\ g # 0 /\ g # gen
        BY <1>1, GensFacts DEF TypeOK, Gens
    <2>2. FromPump(g) = {}
        BY <1>1, <2>1 DEF FromPump, Inv, SendersWait
    <2>3. QED
        BY <1>1, <2>1, <2>2 DEF Inv, OtherMachines
<1>2. ASSUME Inv, NEW e \in inbox, e.msg.type = "quit", e.from # 0
      PROVE  e.from = gen /\ Waiting(gen, "halt")
    BY <1>2 DEF Inv, SendersWait
<1>3. TypeOK /\ Inv => AbandonedMachinesAreInert
    BY <1>1, <1>2 DEF AbandonedMachinesAreInert
<1>4. QED
    BY <1>3, InvariantHolds, TypeCorrect, PTL

(* What is typed stays in the box until the line is sent, and no handler    *)
(* runs meanwhile that would turn the player to something else.             *)
LEMMA BoxInductive ==
    ASSUME TypeOK, Inv, BoxIsEmptyBetweenLines, [Next]_vars
    PROVE  BoxIsEmptyBetweenLines'
<1>1. CASE UNCHANGED vars
    BY <1>1 DEF vars, uiVars, fileVars, BoxIsEmptyBetweenLines
<1>2. ASSUME NEW g \in Gens, Instruction(g) PROVE BoxIsEmptyBetweenLines'
    <2>1. UNCHANGED <<appState, box, ui, reply>>
        BY <1>2 DEF Instruction, Issue, uiVars, fileVars, Compute, AppendText, SetWindow,
            EraseWindow, Notify, Read, ReadChar, SaveOrRestore, Restart, QuitOp, Fail
    <2>2. QED
        BY <2>1 DEF BoxIsEmptyBetweenLines
<1>3. ASSUME NEW g \in Gens, Pump(g) PROVE BoxIsEmptyBetweenLines'
    BY <1>3 DEF Pump, uiVars, fileVars, BoxIsEmptyBetweenLines
<1>4. ASSUME NEW e \in inbox, Handle(e) PROVE BoxIsEmptyBetweenLines'
    <2>1. ui = "loop" /\ box' = box
        BY <1>4 DEF Handle, OnText, OnScreenModel, OnNotice, OnInputRequest, OnWaitForCharacter,
            OnEraseWindow, OnRuntimeError, OnRestart, OnQuit, OnSave, OnRestore, TakeAndRearm,
            Take, uiVars
    <2>2. CASE e.msg.type # "quit"
        <3>1. appState = "running"
            BY <2>1, <2>2, HandledAlone
        <3>2. QED
            BY <2>1, <3>1 DEF BoxIsEmptyBetweenLines
    <2>3. CASE e.msg.type = "quit"
        <3>1. OnQuit(e)
            BY <1>4, <2>3 DEF Handle, OnText, OnScreenModel, OnNotice, OnInputRequest,
                OnWaitForCharacter, OnEraseWindow, OnRuntimeError, OnRestart, OnSave, OnRestore,
                TakeAndRearm, Take
        <3>2. QED
            BY <2>1, <3>1 DEF OnQuit, uiVars, BoxIsEmptyBetweenLines
    <2>4. QED
        BY <2>2, <2>3
<1>5. CASE Player
    <2>1. CASE CtrlC \/ KeyTyped
        BY <2>1 DEF CtrlC, KeyTyped, uiVars, fileVars, BoxIsEmptyBetweenLines
    <2>2. ASSUME NEW k \in Keys, KeyForCharacter(k) \/ KeyEndsLine(k)
          PROVE  BoxIsEmptyBetweenLines'
        BY <2>2 DEF KeyForCharacter, KeyEndsLine, Line, BoxIsEmptyBetweenLines
    <2>3. QED
        BY <1>5, <2>1, <2>2 DEF Player
<1>6. CASE Blocked
    <2>1. CASE SendAnswer
        BY <2>1 DEF SendAnswer, BoxIsEmptyBetweenLines
    <2>2. CASE CopyStack \/ WriteFile \/ Respond
        BY <2>2 DEF CopyStack, WriteFile, Respond, uiVars, BoxIsEmptyBetweenLines
    <2>3. QED
        BY <1>6, <2>1, <2>2 DEF Blocked
<1>7. QED
    BY <1>1, <1>2, <1>3, <1>4, <1>5, <1>6 DEF Next, Interpreter, Exited

(* A line never begins with characters typed for an earlier one.            *)
THEOREM BoxIsAlwaysEmptyBetweenLines == Spec => []BoxIsEmptyBetweenLines
<1>1. Init => BoxIsEmptyBetweenLines
    BY DEF Init, BoxIsEmptyBetweenLines
<1>2. QED
    BY <1>1, BoxInductive, TypeCorrect, InvariantHolds, PTL DEF Spec

-----------------------------------------------------------------------------
(* The session implements the console.  What messages carry.                *)

Tellable == {Entry("story", n) : n \in 1..MaxTexts} \cup {ClearItem}

LEMMA ItemsCarried ==
    ASSUME NEW m
    PROVE  /\ m.type = "text" /\ m.win = "lower" => Items(m) = <<Entry("story", m.id)>>
           /\ m.type = "eraseWindow" /\ m.value \in {-2, -1, 0} => Items(m) = <<ClearItem>>
           /\ ~(m.type = "text" /\ m.win = "lower")
              /\ ~(m.type = "eraseWindow" /\ m.value \in {-2, -1, 0}) => Items(m) = <<>>
<1>1. CASE m.type = "text"
    BY <1>1 DEF Items
<1>2. CASE m.type = "eraseWindow"
    BY <1>2 DEF Items
<1>3. CASE m.type # "text" /\ m.type # "eraseWindow"
    BY <1>3 DEF Items
<1> QED
    BY <1>1, <1>2, <1>3

LEMMA ItemsAreTellable ==
    ASSUME NEW m \in Msg \cup Invalid
    PROVE  Items(m) \in Seq(Tellable)
<1>1. m.type = "text" => Entry("story", m.id) \in Tellable
    BY DEF Tellable, Msg, Invalid, Plain
<1>2. ClearItem \in Tellable
    BY DEF Tellable
<1>3. CASE m.type = "text" /\ m.win = "lower"
  <2>1. Items(m) = <<Entry("story", m.id)>>
      BY <1>3, ItemsCarried
  <2> QED
      BY <1>1, <1>3, <2>1
<1>4. CASE m.type = "eraseWindow" /\ m.value \in {-2, -1, 0}
  <2>1. Items(m) = <<ClearItem>>
      BY <1>4, ItemsCarried
  <2> QED
      BY <1>2, <2>1
<1>5. CASE /\ ~(m.type = "text" /\ m.win = "lower")
           /\ ~(m.type = "eraseWindow" /\ m.value \in {-2, -1, 0})
  <2>1. Items(m) = <<>>
      BY <1>5, ItemsCarried
  <2> QED
      BY <2>1
<1> QED
    BY <1>3, <1>4, <1>5

\* The pump forwards what it takes, or an error that carries nothing either.
LEMMA ForwardCarries ==
    ASSUME NEW m \in Msg
    PROVE  /\ Items(Forward(m)) = Items(m)
           /\ \A w : Turned(w, Forward(m)) = Turned(w, m)
           /\ Forward(m).type = "text" => m = Forward(m)
<1>1. CASE m.type \in Unforwarded
  <2>1. Forward(m).type = "invalid" /\ m.type \in {"eraseLine", "sound"}
      BY <1>1 DEF Forward, Unforwarded
  <2> QED
      BY <2>1, ItemsCarried DEF Turned
<1>2. CASE m.type \notin Unforwarded
    BY <1>2 DEF Forward
<1> QED
    BY <1>1, <1>2

-----------------------------------------------------------------------------
(* What is still to be sent.                                                *)

LEMMA NothingToSend ==
    /\ ItemsIn(<<>>) = <<>>
    /\ \A w, v : LeadsTo(w, <<>>, v) <=> v = w
BY DEF ItemsIn, LeadsTo, WindowAfter

LEMMA OneToSend ==
    ASSUME NEW a \in Msg, NEW w, NEW v
    PROVE  /\ ItemsIn(<<a>>) = Items(a)
           /\ LeadsTo(w, <<a>>, v) <=> (a.type = "text" => a.win = w) /\ v = Turned(w, a)
<1>1. Items(a) \in Seq(Tellable)
    BY ItemsAreTellable
<1>2. ItemsIn(<<a>>) = Items(a) \o <<>>
    BY DEF ItemsIn
<1>3. LeadsTo(w, <<a>>, v) <=> (a.type = "text" => a.win = w) /\ v = Turned(w, a)
    BY DEF LeadsTo, WindowAfter
<1> QED
    BY <1>1, <1>2, <1>3

LEMMA TwoToSend ==
    ASSUME NEW a \in Msg, NEW b \in Msg, NEW w, NEW v
    PROVE  /\ ItemsIn(<<a, b>>) = Items(a) \o Items(b)
           /\ LeadsTo(w, <<a, b>>, v) <=>
                /\ a.type = "text" => a.win = w
                /\ b.type = "text" => b.win = Turned(w, a)
                /\ v = Turned(Turned(w, a), b)
<1> DEFINE o == <<a, b>>
<1>1. Len(o) = 2 /\ o[1] = a /\ o[2] = b /\ 1..Len(o) = {1, 2}
    OBVIOUS
<1> HIDE DEF o
<1>2. ItemsIn(o) = Items(a) \o Items(b)
    BY <1>1 DEF ItemsIn
<1>3. WindowAfter(w, o, 0) = w /\ WindowAfter(w, o, 1) = Turned(w, a)
      /\ WindowAfter(w, o, 2) = Turned(Turned(w, a), b)
    BY <1>1 DEF WindowAfter
<1>4. LeadsTo(w, o, v) <=>
        /\ a.type = "text" => a.win = w
        /\ b.type = "text" => b.win = Turned(w, a)
        /\ v = Turned(Turned(w, a), b)
    BY <1>1, <1>3 DEF LeadsTo
<1> QED
    BY <1>2, <1>4 DEF o

LEMMA ShortSequences ==
    ASSUME NEW o \in Seq(Msg), Len(o) <= 2
    PROVE  \/ o = <<>>
           \/ \E a \in Msg : o = <<a>>
           \/ \E a, b \in Msg : o = <<a, b>>
<1>1. CASE Len(o) = 0
    BY <1>1
<1>2. CASE Len(o) = 1
  <2>1. o[1] \in Msg /\ o = <<o[1]>>
      BY <1>2
  <2> QED
      BY <2>1
<1>3. CASE Len(o) = 2
  <2>1. o[1] \in Msg /\ o[2] \in Msg /\ o = <<o[1], o[2]>>
      BY <1>3
  <2> QED
      BY <2>1
<1>4. Len(o) = 0 \/ Len(o) = 1 \/ Len(o) = 2
  <2> DEFINE n == Len(o)
  <2>1. n \in Nat /\ n <= 2
      OBVIOUS
  <2> HIDE DEF n
  <2>2. n = 0 \/ n = 1 \/ n = 2
      BY <2>1
  <2> QED
      BY <2>2 DEF n
<1> QED
    BY <1>1, <1>2, <1>3, <1>4, Zenon

\* What the first message carries comes first, and the others lead on from it.
LEMMA FirstIsSent ==
    ASSUME NEW o \in Seq(Msg), o # <<>>, NEW w, NEW v, LeadsTo(w, o, v)
    PROVE  /\ Head(o) \in Msg
           /\ ItemsIn(o) = Items(Head(o)) \o ItemsIn(Tail(o))
           /\ Head(o).type = "text" => Head(o).win = w
           /\ LeadsTo(Turned(w, Head(o)), Tail(o), v)
<1>1. Len(o) <= 2
    BY DEF LeadsTo
<1>2. ASSUME NEW a \in Msg, o = <<a>>
      PROVE  /\ Head(o) \in Msg
             /\ ItemsIn(o) = Items(Head(o)) \o ItemsIn(Tail(o))
             /\ Head(o).type = "text" => Head(o).win = w
             /\ LeadsTo(Turned(w, Head(o)), Tail(o), v)
  <2>1. Head(o) = a /\ Tail(o) = <<>>
      BY <1>2
  <2>2. Items(a) \in Seq(Tellable)
      BY ItemsAreTellable
  <2>3. Items(a) \o <<>> = Items(a)
      BY <2>2
  <2>4. /\ ItemsIn(o) = Items(a)
        /\ a.type = "text" => a.win = w
        /\ v = Turned(w, a)
      BY <1>2, OneToSend
  <2>5. ItemsIn(<<>>) = <<>> /\ LeadsTo(Turned(w, a), <<>>, v)
      BY <2>4, NothingToSend
  <2> QED
      BY <2>1, <2>3, <2>4, <2>5
<1>3. ASSUME NEW a \in Msg, NEW b \in Msg, o = <<a, b>>
      PROVE  /\ Head(o) \in Msg
             /\ ItemsIn(o) = Items(Head(o)) \o ItemsIn(Tail(o))
             /\ Head(o).type = "text" => Head(o).win = w
             /\ LeadsTo(Turned(w, Head(o)), Tail(o), v)
  <2>1. Head(o) = a /\ Tail(o) = <<b>>
      BY <1>3
  <2>2. /\ ItemsIn(o) = Items(a) \o Items(b)
        /\ a.type = "text" => a.win = w
        /\ b.type = "text" => b.win = Turned(w, a)
        /\ v = Turned(Turned(w, a), b)
      BY <1>3, TwoToSend
  <2>3. ItemsIn(<<b>>) = Items(b) /\ LeadsTo(Turned(w, a), <<b>>, v)
      BY <2>2, OneToSend
  <2> QED
      BY <2>1, <2>2, <2>3
<1> QED
    BY <1>1, <1>2, <1>3, ShortSequences

-----------------------------------------------------------------------------
(* What is in flight.                                                       *)

LEMMA NothingInFlight ==
    /\ ItemsOf({}) = <<>>
    /\ \A w : Ahead({}, w) = w
BY DEF ItemsOf, Ahead

LEMMA OneInFlight ==
    ASSUME NEW e
    PROVE  /\ ItemsOf({e}) = Items(e.msg)
           /\ \A w : Ahead({e}, w) = Turned(w, e.msg)
<1>1. (CHOOSE x \in {e} : TRUE) = e /\ {e} # {}
    OBVIOUS
<1> QED
    BY <1>1 DEF ItemsOf, Ahead

LEMMA FlightIsTellable ==
    ASSUME TypeOK, Inv
    PROVE  InFlight \in Seq(Tellable) /\ Unsent \in Seq(Tellable)
<1>1. InFlight \in Seq(Tellable)
  <2>1. CASE FromPump(gen) = {}
    <3>1. InFlight = <<>>
        BY <2>1, NothingInFlight DEF InFlight
    <3> QED
        BY <3>1
  <2>2. CASE FromPump(gen) # {}
    <3>1. PICK e \in FromPump(gen) : TRUE
        BY <2>2
    <3>2. FromPump(gen) = {e}
        BY <3>1 DEF Inv, OneListener
    <3>3. e.msg \in Msg \cup Invalid
        BY DEF FromPump, TypeOK
    <3> QED
        BY <3>2, <3>3, OneInFlight, ItemsAreTellable DEF InFlight
  <2> QED
      BY <2>1, <2>2
<1>2. Unsent \in Seq(Tellable)
  <2>1. out[gen] \in Seq(Msg)
      BY DEF TypeOK
  <2>2. Len(out[gen]) >= 1 => out[gen][1] \in Msg
      BY <2>1
  <2>3. Len(out[gen]) >= 2 => out[gen][2] \in Msg
      BY <2>1
  <2> DEFINE first == IF Len(out[gen]) >= 1 THEN Items(out[gen][1]) ELSE <<>>
             second == IF Len(out[gen]) >= 2 THEN Items(out[gen][2]) ELSE <<>>
  <2>4. first \in Seq(Tellable) /\ second \in Seq(Tellable)
      BY <2>2, <2>3, ItemsAreTellable
  <2>5. Unsent = first \o second
      BY DEF Unsent, ItemsIn
  <2> HIDE DEF first, second
  <2> QED
      BY <2>4, <2>5
<1> QED
    BY <1>1, <1>2

-----------------------------------------------------------------------------
(* The console's view of a step.                                            *)

Pending == InFlight \o Unsent

LEMMA Phases ==
    /\ ui = "exited" => Phase = "over"
    /\ ui # "exited" /\ appState = "input" => Phase = "awaitLine"
    /\ ui # "exited" /\ appState = "character" => Phase = "awaitKey"
    /\ ui # "exited" /\ appState \notin {"input", "character"} => Phase = "telling"
BY DEF Phase

LEMMA PhasesThen ==
    /\ ui' = "exited" => Phase' = "over"
    /\ ui' # "exited" /\ appState' = "input" => Phase' = "awaitLine"
    /\ ui' # "exited" /\ appState' = "character" => Phase' = "awaitKey"
    /\ ui' # "exited" /\ appState' \notin {"input", "character"} => Phase' = "telling"
BY DEF Phase

LEMMA ConsoleStutters ==
    ASSUME Phase' = Phase, Pending' = Pending, lowerText' = lowerText
    PROVE  [C!Next]_C!consoleVars
BY DEF Pending, C!consoleVars

LEMMA ConsoleTells ==
    ASSUME Phase = "telling", Phase' = "telling", lowerText' = lowerText,
           NEW item \in Tellable, Pending' = Append(Pending, item)
    PROVE  [C!Next]_C!consoleVars
BY DEF Pending, C!Next, C!Tell, Tellable

LEMMA ConsoleShows ==
    ASSUME Phase = "telling", Phase' = "telling", Pending # <<>>,
           lowerText' = IF Head(Pending) = ClearItem THEN <<>>
                        ELSE Append(lowerText, Head(Pending)),
           Pending' = Tail(Pending)
    PROVE  [C!Next]_C!consoleVars
BY DEF Pending, C!Next, C!Show

LEMMA ConsoleAsks ==
    ASSUME Phase = "telling", Pending = <<>>, Phase' \in {"awaitLine", "awaitKey"},
           Pending' = Pending, lowerText' = lowerText
    PROVE  [C!Next]_C!consoleVars
BY DEF Pending, C!Next, C!Ask

LEMMA ConsoleHears ==
    ASSUME Phase' = "telling", Pending' = Pending,
           \/ Phase = "awaitKey" /\ lowerText' = lowerText
           \/ /\ Phase = "awaitLine"
              /\ \E n \in 0..MaxBox : lowerText' = Append(lowerText, Entry("player", n))
    PROVE  [C!Next]_C!consoleVars
BY DEF Pending, C!Next, C!EnterKey, C!EnterLine

LEMMA ConsoleStartsAgain ==
    ASSUME Phase = "telling", Phase' = "telling", Pending = <<>>, Pending' = <<>>,
           lowerText' = <<>>
    PROVE  [C!Next]_C!consoleVars
BY DEF Pending, C!Next, C!StartAgain

LEMMA ConsoleStops ==
    ASSUME Phase # "over", Phase' = "over", Pending' = Pending, lowerText' = lowerText
    PROVE  [C!Next]_C!consoleVars
BY DEF Pending, C!Next, C!Stop

-----------------------------------------------------------------------------
(* The interpreter: an instruction tells at most one item, and the windows  *)
(* its messages lead through end in the one it leaves active.               *)

LEMMA Flight ==
    /\ InFlight = ItemsOf(FromPump(gen))
    /\ InFlight' = ItemsOf(FromPump(gen)')
    /\ Unsent = ItemsIn(out[gen])
    /\ Unsent' = ItemsIn(out'[gen'])
    /\ Pending' = InFlight' \o Unsent'
BY DEF InFlight, Unsent, Pending

LEMMA ConsoleInvThen ==
    ASSUME \A e \in FromPump(gen)' : e.msg.type = "text" => e.msg.win = uiWin',
           LeadsTo(Ahead(FromPump(gen)', uiWin'), out'[gen'], win'[gen']),
           \A g \in Gens : g > gen' => win'[g] = "lower"
    PROVE  ConsoleInv'
BY DEF ConsoleInv

LEMMA IssueTells ==
    ASSUME TypeOK, Inv, ConsoleInv, NEW g \in Gens, NEW msgs \in Seq(Msg), NEW next,
           Issue(g, msgs, next), NEW w, win' = [win EXCEPT ![g] = w],
           LeadsTo(win[g], msgs, w)
    PROVE  /\ ConsoleInv'
           /\ Phase = "telling" /\ Phase' = "telling" /\ lowerText' = lowerText
           /\ Pending \in Seq(Tellable)
           /\ Pending' = Pending \o ItemsIn(msgs)
<1> USE GensFacts
<1>1. /\ g = gen /\ appState = "running" /\ out[gen] = <<>> /\ ui # "exited"
      /\ UNCHANGED <<inbox, ui, gen, appState, uiWin, lowerText>>
      /\ out' = [out EXCEPT ![gen] = msgs]
    BY RunningIsCurrent DEF Issue, Running, uiVars
<1>2. gen \in Gens /\ gen \in Int /\ out'[gen] = msgs /\ win'[gen] = w
    BY <1>1 DEF TypeOK
<1>3. FromPump(gen)' = FromPump(gen)
    BY <1>1 DEF FromPump
<1>4. win[gen] = Ahead(FromPump(gen), uiWin)
    BY <1>1, NothingToSend DEF ConsoleInv
<1>5. \A h \in Gens : h > gen' => win'[h] = "lower"
    BY <1>1, <1>2 DEF ConsoleInv, TypeOK
<1>6. ConsoleInv'
  <2>1. \A e \in FromPump(gen)' : e.msg.type = "text" => e.msg.win = uiWin'
      BY <1>1, <1>3 DEF ConsoleInv
  <2>2. LeadsTo(Ahead(FromPump(gen)', uiWin'), out'[gen'], win'[gen'])
      BY <1>1, <1>2, <1>3, <1>4
  <2> QED
      BY <1>5, <2>1, <2>2, ConsoleInvThen
<1>7. Phase = "telling" /\ Phase' = "telling"
    BY <1>1, Phases, PhasesThen
<1>8. InFlight \in Seq(Tellable)
    BY FlightIsTellable
<1>9. Unsent = <<>>
    BY <1>1, Flight, NothingToSend
<1>10. Pending = InFlight
    BY <1>8, <1>9 DEF Pending
<1>11. Pending' = InFlight \o ItemsIn(msgs)
    BY <1>1, <1>2, <1>3, Flight
<1> QED
    BY <1>1, <1>6, <1>7, <1>8, <1>10, <1>11

\* Messages that carry no item, and messages that carry one.
LEMMA IssueStep ==
    ASSUME TypeOK, Inv, ConsoleInv, NEW g \in Gens, NEW msgs \in Seq(Msg), NEW next,
           Issue(g, msgs, next), NEW w, win' = [win EXCEPT ![g] = w],
           LeadsTo(win[g], msgs, w),
           ItemsIn(msgs) = <<>> \/ \E item \in Tellable : ItemsIn(msgs) = <<item>>
    PROVE  ConsoleInv' /\ [C!Next]_C!consoleVars
<1>1. /\ ConsoleInv'
      /\ Phase = "telling" /\ Phase' = "telling" /\ lowerText' = lowerText
      /\ Pending \in Seq(Tellable)
      /\ Pending' = Pending \o ItemsIn(msgs)
    BY IssueTells
<1>2. CASE ItemsIn(msgs) = <<>>
  <2>1. Pending' = Pending
      BY <1>1, <1>2
  <2> QED
      BY <1>1, <2>1, ConsoleStutters
<1>3. ASSUME NEW item \in Tellable, ItemsIn(msgs) = <<item>>
      PROVE  [C!Next]_C!consoleVars
  <2>1. Pending' = Append(Pending, item)
    <3> DEFINE p == Pending
               q == Pending'
    <3>1. p \in Seq(Tellable) /\ q = p \o <<item>>
        BY <1>1, <1>3
    <3> HIDE DEF p, q
    <3>2. q = Append(p, item)
        BY <3>1
    <3> QED
        BY <3>2 DEF p, q
  <2> QED
      BY <1>1, <2>1, ConsoleTells
<1> QED
    BY <1>1, <1>2, <1>3

LEMMA CarriesNothing ==
    /\ \A t \in Plain : Items(Bare(t)) = <<>> /\ Bare(t) \in Msg /\ \A w : Turned(w, Bare(t)) = w
    /\ \A w \in Windows : /\ Items(Screen(w)) = <<>> /\ Screen(w) \in Msg
                          /\ Screen(w).type = "screen" /\ \A v : Turned(v, Screen(w)) = w
<1>1. ASSUME NEW t \in Plain
      PROVE  Items(Bare(t)) = <<>> /\ Bare(t) \in Msg /\ \A w : Turned(w, Bare(t)) = w
  <2>1. Bare(t).type = t /\ t \notin {"text", "eraseWindow", "screen"}
      BY DEF Bare, Plain
  <2> QED
      BY <2>1, ItemsCarried, Sendable DEF Turned
<1>2. ASSUME NEW w \in Windows
      PROVE  /\ Items(Screen(w)) = <<>> /\ Screen(w) \in Msg
             /\ Screen(w).type = "screen" /\ \A v : Turned(v, Screen(w)) = w
  <2>1. Screen(w).type = "screen" /\ Screen(w).win = w
      BY DEF Screen
  <2> QED
      BY <2>1, ItemsCarried, Sendable DEF Turned
<1> QED
    BY <1>1, <1>2

\* The window stays when the instruction is none of those that choose one.
LEMMA WindowKept ==
    ASSUME TypeOK, NEW g \in Gens, UNCHANGED win
    PROVE  win' = [win EXCEPT ![g] = win[g]]
BY DEF TypeOK

\* One message that carries nothing and chooses no window.
LEMMA OneSilent ==
    ASSUME NEW m \in Msg, m.type \notin {"text", "screen", "eraseWindow"}, NEW w
    PROVE  ItemsIn(<<m>>) = <<>> /\ LeadsTo(w, <<m>>, w)
<1>1. Items(m) = <<>> /\ Turned(w, m) = w
    BY ItemsCarried DEF Turned
<1> QED
    BY <1>1, OneToSend

\* Two of them.
LEMMA TwoSilent ==
    ASSUME NEW a \in Msg, a.type \notin {"text", "screen", "eraseWindow"},
           NEW b \in Msg, b.type \notin {"text", "screen", "eraseWindow"}, NEW w
    PROVE  ItemsIn(<<a, b>>) = <<>> /\ LeadsTo(w, <<a, b>>, w)
<1>1. Items(a) = <<>> /\ Turned(w, a) = w /\ Items(b) = <<>> /\ Turned(w, b) = w
    BY ItemsCarried DEF Turned
<1> QED
    BY <1>1, TwoToSend

\* A message that carries nothing before one that may.
LEMMA SilentThen ==
    ASSUME NEW a \in Msg, a.type # "text", Items(a) = <<>>, NEW b \in Msg, b.type # "text",
           NEW w
    PROVE  /\ <<a, b>> \in Seq(Msg) /\ ItemsIn(<<a, b>>) = Items(b)
           /\ LeadsTo(w, <<a, b>>, Turned(Turned(w, a), b))
<1>1. Items(b) \in Seq(Tellable)
    BY ItemsAreTellable
<1>2. Items(a) \o Items(b) = Items(b)
    BY <1>1
<1>3. PICK v : v = Turned(Turned(w, a), b)
    OBVIOUS
<1>4. /\ ItemsIn(<<a, b>>) = Items(a) \o Items(b)
      /\ LeadsTo(w, <<a, b>>, v) <=>
           /\ a.type = "text" => a.win = w
           /\ b.type = "text" => b.win = Turned(w, a)
           /\ v = Turned(Turned(w, a), b)
    BY TwoToSend
<1>5. LeadsTo(w, <<a, b>>, v)
    BY <1>3, <1>4
<1> QED
    BY <1>2, <1>3, <1>4, <1>5

LEMMA ConsoleInstruction ==
    ASSUME TypeOK, Inv, ConsoleInv, NEW g \in Gens, Instruction(g)
    PROVE  ConsoleInv' /\ [C!Next]_C!consoleVars
<1> USE GensFacts
<1>w. win[g] \in Windows
    BY DEF TypeOK
<1>k. UNCHANGED win => win' = [win EXCEPT ![g] = win[g]]
    BY WindowKept
\* Instructions that tell nothing and keep the window.
<1>s. ASSUME NEW msgs \in Seq(Msg), NEW next, Issue(g, msgs, next), UNCHANGED win,
             ItemsIn(msgs) = <<>>, LeadsTo(win[g], msgs, win[g])
      PROVE  ConsoleInv' /\ [C!Next]_C!consoleVars
    BY <1>k, <1>s, IssueStep
<1>o. ASSUME NEW m \in Msg, m.type \notin {"text", "screen", "eraseWindow"}, NEW next,
             Issue(g, <<m>>, next), UNCHANGED win
      PROVE  ConsoleInv' /\ [C!Next]_C!consoleVars
  <2>1. <<m>> \in Seq(Msg) /\ ItemsIn(<<m>>) = <<>> /\ LeadsTo(win[g], <<m>>, win[g])
      BY <1>o, OneSilent
  <2> QED
      BY <1>o, <1>s, <2>1
<1>t. ASSUME NEW a \in Msg, a.type \notin {"text", "screen", "eraseWindow"},
             NEW b \in Msg, b.type \notin {"text", "screen", "eraseWindow"}, NEW next,
             Issue(g, <<a, b>>, next), UNCHANGED win
      PROVE  ConsoleInv' /\ [C!Next]_C!consoleVars
  <2>1. <<a, b>> \in Seq(Msg) /\ ItemsIn(<<a, b>>) = <<>> /\ LeadsTo(win[g], <<a, b>>, win[g])
      BY <1>t, TwoSilent
  <2> QED
      BY <1>t, <1>s, <2>1
<1>b. \A t \in Plain : Bare(t) \in Msg /\ Bare(t).type \notin {"text", "screen", "eraseWindow"}
    BY Sendable DEF Bare, Plain
<1>1. CASE Compute(g)
  <2>1. <<>> \in Seq(Msg)
      OBVIOUS
  <2> QED
      BY <1>1, <1>s, <2>1, NothingToSend DEF Compute
<1>2. CASE AppendText(g)
  <2> DEFINE text == [type |-> "text", id |-> texts + 1, win |-> win[g]]
             msgs == IF win[g] = "lower" THEN <<text>> ELSE <<text, Screen("upper")>>
  <2>1. texts + 1 \in 1..MaxTexts
      BY <1>2 DEF AppendText, TypeOK
  <2>2. text \in Msg /\ text.type = "text" /\ text.win = win[g] /\ text.id \in 1..MaxTexts
      BY <1>w, <2>1, Sendable
  <2>3. Issue(g, msgs, "step") /\ UNCHANGED win
      BY <1>2 DEF AppendText
  <2> HIDE DEF text
  <2>4. \A w : Turned(w, text) = w
      BY <2>2 DEF Turned
  <2>5. CASE win[g] = "lower"
    <3>1. Items(text) = <<Entry("story", text.id)>>
        BY <2>2, <2>5, ItemsCarried
    <3>2. Entry("story", text.id) \in Tellable
        BY <2>2 DEF Tellable
    <3>3. ItemsIn(<<text>>) = <<Entry("story", text.id)>> /\ LeadsTo(win[g], <<text>>, win[g])
        BY <2>2, <2>4, <3>1, OneToSend
    <3>4. <<text>> \in Seq(Msg) /\ Issue(g, <<text>>, "step")
        BY <2>2, <2>3, <2>5
    <3> QED
        BY <1>k, <2>3, <3>2, <3>3, <3>4, IssueStep
  <2>6. CASE win[g] = "upper"
    <3>1. Items(text) = <<>>
        BY <2>2, <2>6, ItemsCarried
    <3>2. Screen("upper") \in Msg /\ Items(Screen("upper")) = <<>>
          /\ Turned(Turned(win[g], text), Screen("upper")) = "upper"
          /\ Screen("upper").type # "text"
        BY CarriesNothing DEF Windows
    <3>3. ItemsIn(<<text, Screen("upper")>>) = <<>>
          /\ LeadsTo(win[g], <<text, Screen("upper")>>, win[g])
      <4> DEFINE u == Screen("upper")
      <4>1. /\ u \in Msg /\ text \in Msg /\ Items(text) = <<>> /\ Items(u) = <<>>
            /\ u.type # "text" /\ text.win = win[g] /\ Turned(win[g], text) = win[g]
            /\ win[g] = Turned(Turned(win[g], text), u)
          BY <2>2, <2>4, <2>6, <3>1, <3>2
      <4> HIDE DEF u
      <4>2. /\ ItemsIn(<<text, u>>) = Items(text) \o Items(u)
            /\ LeadsTo(win[g], <<text, u>>, win[g])
          BY <4>1, TwoToSend
      <4>3. Items(text) \o Items(u) = <<>>
          BY <4>1
      <4> QED
          BY <4>2, <4>3 DEF u
    <3>4. <<text, Screen("upper")>> \in Seq(Msg) /\ Issue(g, <<text, Screen("upper")>>, "step")
        BY <2>2, <2>3, <2>6, <3>2
    <3> QED
        BY <1>s, <2>3, <3>3, <3>4
  <2> QED
      BY <1>w, <2>5, <2>6 DEF Windows
<1>3. CASE SetWindow(g)
  <2>1. PICK w \in Windows : win' = [win EXCEPT ![g] = w] /\ Issue(g, <<Screen(w)>>, "step")
      BY <1>3 DEF SetWindow
  <2>2. Screen(w) \in Msg /\ Items(Screen(w)) = <<>> /\ Turned(win[g], Screen(w)) = w
        /\ Screen(w).type # "text"
      BY CarriesNothing
  <2>3. <<Screen(w)>> \in Seq(Msg) /\ ItemsIn(<<Screen(w)>>) = <<>>
        /\ LeadsTo(win[g], <<Screen(w)>>, w)
      BY <2>2, OneToSend
  <2> QED
      BY <2>1, <2>3, IssueStep
<1>4. CASE EraseWindow(g)
  <2>1. PICK v \in EraseValues :
          LET w == IF v = -1 THEN "lower" ELSE win[g] IN
          /\ win' = [win EXCEPT ![g] = w]
          /\ Issue(g, <<Screen(w), [type |-> "eraseWindow", value |-> v]>>, "step")
      BY <1>4 DEF EraseWindow
  <2> DEFINE w == IF v = -1 THEN "lower" ELSE win[g]
             erase == [type |-> "eraseWindow", value |-> v]
             msgs == <<Screen(w), erase>>
  <2>2. w \in Windows /\ win' = [win EXCEPT ![g] = w] /\ Issue(g, msgs, "step")
      BY <1>w, <2>1 DEF Windows
  <2>3. erase \in Msg /\ erase.type = "eraseWindow"
      BY Sendable
  <2> HIDE DEF w, erase
  <2>4. Screen(w) \in Msg /\ Items(Screen(w)) = <<>> /\ Turned(win[g], Screen(w)) = w
        /\ Screen(w).type # "text" /\ Turned(w, erase) = w
      BY <2>2, <2>3, CarriesNothing DEF Turned
  <2>5. Items(erase) = <<>> \/ Items(erase) = <<ClearItem>>
      BY <2>3, ItemsCarried
  <2>6. ClearItem \in Tellable
      BY DEF Tellable
  <2>7. msgs \in Seq(Msg) /\ ItemsIn(msgs) = Items(erase) /\ LeadsTo(win[g], msgs, w)
      BY <2>3, <2>4, SilentThen
  <2> HIDE DEF msgs
  <2> QED
      BY <2>2, <2>5, <2>6, <2>7, IssueStep
<1>5. CASE Notify(g)
  <2>1. PICK t \in {"eraseLine", "sound", "warning"} : Issue(g, <<Bare(t)>>, "step")
      BY <1>5 DEF Notify
  <2>2. t \in Plain /\ UNCHANGED win
      BY <1>5 DEF Notify, Plain
  <2> QED
      BY <1>b, <1>o, <2>1, <2>2
<1>6. CASE Read(g)
  <2>1. PICK t \in TerminatorSets :
          LET request == [type |-> "input", terms |-> t] IN
          Issue(g, IF Version <= 3 THEN <<Bare("status"), request>> ELSE <<request>>, "readLine")
      BY <1>6 DEF Read
  <2> DEFINE request == [type |-> "input", terms |-> t]
  <2>2. request \in Msg /\ request.type \notin {"text", "screen", "eraseWindow"}
      BY Sendable
  <2>3. \/ Issue(g, <<Bare("status"), request>>, "readLine")
        \/ Issue(g, <<request>>, "readLine")
      BY <2>1
  <2>4. UNCHANGED win /\ "status" \in Plain
      BY <1>6 DEF Read, Plain
  <2> HIDE DEF request
  <2>5. CASE Issue(g, <<request>>, "readLine")
      BY <1>o, <2>2, <2>4, <2>5
  <2>6. CASE Issue(g, <<Bare("status"), request>>, "readLine")
      BY <1>b, <1>t, <2>2, <2>4, <2>6
  <2> QED
      BY <2>3, <2>5, <2>6
<1>7. CASE ReadChar(g)
  <2>1. "char" \in Plain
      BY DEF Plain
  <2> QED
      BY <1>7, <1>b, <1>o, <2>1 DEF ReadChar
<1>8. CASE SaveOrRestore(g)
  <2>1. PICK t \in {"save", "restore"}, full \in BOOLEAN :
          Issue(g, <<[type |-> t, full |-> full]>>, t)
      BY <1>8 DEF SaveOrRestore
  <2>2. [type |-> t, full |-> full] \in Msg
        /\ [type |-> t, full |-> full].type \notin {"text", "screen", "eraseWindow"}
      BY Sendable
  <2> QED
      BY <1>8, <1>o, <2>1, <2>2 DEF SaveOrRestore
<1>9. CASE Restart(g)
  <2>1. "restart" \in Plain /\ "quit" \in Plain
      BY DEF Plain
  <2> QED
      BY <1>9, <1>b, <1>t, <2>1 DEF Restart
<1>10. CASE QuitOp(g)
  <2>1. "quit" \in Plain
      BY DEF Plain
  <2> QED
      BY <1>10, <1>b, <1>o, <2>1 DEF QuitOp
<1>11. CASE Fail(g)
  <2>1. "error" \in Plain /\ "quit" \in Plain
      BY DEF Plain
  <2> QED
      BY <1>11, <1>b, <1>t, <2>1 DEF Fail
<1> QED
    BY <1>1, <1>2, <1>3, <1>4, <1>5, <1>6, <1>7, <1>8, <1>9, <1>10, <1>11 DEF Instruction

-----------------------------------------------------------------------------
(* The pump puts the first message in flight: what is told and not yet      *)
(* shown stays the same.                                                    *)

LEMMA ConsolePump ==
    ASSUME TypeOK, Inv, ConsoleInv, NEW g \in Gens, Pump(g)
    PROVE  ConsoleInv' /\ [C!Next]_C!consoleVars
<1> USE GensFacts
<1>1. g = gen /\ armed[gen] = 1 /\ FromPump(gen) = {}
  <2>1. g \in Int /\ gen \in Int /\ armed[g] > 0
      BY DEF TypeOK, Pump
  <2>2. ~(g < gen) /\ ~(g > gen)
      BY <2>1 DEF Inv, OtherMachines
  <2> QED
      BY <2>1, <2>2 DEF Inv, OneListener
<1> DEFINE o == out[gen]
           m == Head(o)
           e == [from |-> gen, msg |-> Forward(m)]
<1>2. o \in Seq(Msg) /\ o # <<>> /\ m \in Msg
    BY <1>1, HeadTail DEF Pump, TypeOK
<1>3. /\ inbox' = inbox \cup {e} /\ out' = [out EXCEPT ![gen] = Tail(o)]
      /\ UNCHANGED <<win, gen, appState, ui, uiWin, lowerText>>
    BY <1>1 DEF Pump, uiVars
<1>4. out'[gen'] = Tail(o)
    BY <1>3 DEF TypeOK
<1>5. FromPump(gen)' = {e} /\ e.msg = Forward(m)
    BY <1>1, <1>3 DEF FromPump
<1>6. LeadsTo(uiWin, o, win[gen])
    BY <1>1, NothingInFlight DEF ConsoleInv
<1>7. /\ ItemsIn(o) = Items(m) \o ItemsIn(Tail(o))
      /\ m.type = "text" => m.win = uiWin
      /\ LeadsTo(Turned(uiWin, m), Tail(o), win[gen])
    BY <1>2, <1>6, FirstIsSent
<1>8. /\ Items(Forward(m)) = Items(m)
      /\ Turned(uiWin, Forward(m)) = Turned(uiWin, m)
      /\ Forward(m).type = "text" => m = Forward(m)
    BY <1>2, ForwardCarries
<1> HIDE DEF o, m, e
<1>9. ItemsOf(FromPump(gen)') = Items(m) /\ Ahead(FromPump(gen)', uiWin) = Turned(uiWin, m)
    BY <1>5, <1>8, OneInFlight
<1>10. ConsoleInv'
  <2>1. \A d \in FromPump(gen)' : d.msg.type = "text" => d.msg.win = uiWin'
      BY <1>3, <1>5, <1>7, <1>8
  <2>2. LeadsTo(Ahead(FromPump(gen)', uiWin'), out'[gen'], win'[gen'])
      BY <1>3, <1>4, <1>7, <1>9
  <2>3. \A h \in Gens : h > gen' => win'[h] = "lower"
      BY <1>3 DEF ConsoleInv
  <2> QED
      BY <2>1, <2>2, <2>3, ConsoleInvThen
<1>11. Phase' = Phase
    BY <1>3 DEF Phase
<1>12. Pending = ItemsIn(o)
  <2>1. InFlight = <<>> /\ Unsent = ItemsIn(o)
      BY <1>1, Flight, NothingInFlight DEF o
  <2>2. Unsent \in Seq(Tellable)
      BY FlightIsTellable
  <2> QED
      BY <2>1, <2>2 DEF Pending
<1>13. Pending' = Items(m) \o ItemsIn(Tail(o))
    BY <1>4, <1>9, Flight
<1> QED
    BY <1>3, <1>7, <1>10, <1>11, <1>12, <1>13, ConsoleStutters

-----------------------------------------------------------------------------
(* Update takes the message in flight.                                      *)

\* Steps that move no message of the machine.
LEMMA NothingMoves ==
    ASSUME TypeOK, ConsoleInv, FromPump(gen)' = FromPump(gen),
           UNCHANGED <<out, win, gen, uiWin>>
    PROVE  ConsoleInv' /\ Pending' = Pending
<1>1. \A e \in FromPump(gen)' : e.msg.type = "text" => e.msg.win = uiWin'
    BY DEF ConsoleInv
<1>2. LeadsTo(Ahead(FromPump(gen)', uiWin'), out'[gen'], win'[gen'])
    BY DEF ConsoleInv
<1>3. \A g \in Gens : g > gen' => win'[g] = "lower"
    BY DEF ConsoleInv
<1>4. Pending' = Pending
    BY Flight DEF Pending
<1> QED
    BY <1>1, <1>2, <1>3, <1>4, ConsoleInvThen

LEMMA Taken ==
    ASSUME TypeOK, Inv, ConsoleInv, NEW e \in inbox, ui = "loop", e.msg.type # "quit",
           UNCHANGED <<out, win, gen>>, inbox' \subseteq (inbox \ {e}) \cup {QuitCmd},
           uiWin' = Turned(uiWin, e.msg)
    PROVE  /\ ConsoleInv'
           /\ appState = "running" /\ Phase = "telling"
           /\ e.msg.type = "text" => e.msg.win = uiWin
           /\ Unsent \in Seq(Tellable)
           /\ Pending = Items(e.msg) \o Unsent
           /\ Pending' = Unsent
<1>1. FromPump(gen) = {e} /\ appState = "running" /\ gen # 0
      /\ \A d \in inbox \ {e} : d = QuitCmd
    BY HandledAlone
<1>2. FromPump(gen)' = {}
    BY <1>1 DEF FromPump, QuitCmd
<1>3. InFlight = Items(e.msg) /\ Ahead(FromPump(gen), uiWin) = uiWin'
    BY <1>1, OneInFlight, Flight
<1>4. InFlight' = <<>> /\ Ahead(FromPump(gen)', uiWin') = uiWin'
    BY <1>2, NothingInFlight, Flight
<1>5. Unsent \in Seq(Tellable) /\ Unsent' = Unsent
    BY FlightIsTellable, Flight
<1>6. Pending' = Unsent
    BY <1>4, <1>5, Flight
<1>7. ConsoleInv'
  <2>1. \A d \in FromPump(gen)' : d.msg.type = "text" => d.msg.win = uiWin'
      BY <1>2
  <2>2. LeadsTo(Ahead(FromPump(gen)', uiWin'), out'[gen'], win'[gen'])
      BY <1>3, <1>4 DEF ConsoleInv
  <2>3. \A g \in Gens : g > gen' => win'[g] = "lower"
      BY DEF ConsoleInv
  <2> QED
      BY <2>1, <2>2, <2>3, ConsoleInvThen
<1>8. Phase = "telling"
    BY <1>1, Phases
<1>9. e.msg.type = "text" => e.msg.win = uiWin
    BY <1>1 DEF ConsoleInv
<1> QED
    BY <1>1, <1>3, <1>5, <1>6, <1>7, <1>8, <1>9 DEF Pending

\* A message that carries nothing, taken while the story goes on telling.
LEMMA TakenSilently ==
    ASSUME TypeOK, Inv, ConsoleInv, NEW e \in inbox, ui = "loop", e.msg.type # "quit",
           UNCHANGED <<out, win, gen, lowerText>>,
           inbox' \subseteq (inbox \ {e}) \cup {QuitCmd},
           uiWin' = Turned(uiWin, e.msg), Items(e.msg) = <<>>,
           ui' # "exited", appState' = appState
    PROVE  ConsoleInv' /\ [C!Next]_C!consoleVars
<1>1. /\ ConsoleInv' /\ appState = "running" /\ Phase = "telling"
      /\ Unsent \in Seq(Tellable) /\ Pending = Items(e.msg) \o Unsent /\ Pending' = Unsent
    BY Taken
<1>2. Phase' = "telling"
    BY <1>1, PhasesThen
<1>3. Pending' = Pending
    BY <1>1
<1> QED
    BY <1>1, <1>2, <1>3, ConsoleStutters

\* A message that carries an item.
LEMMA TakenAndShown ==
    ASSUME TypeOK, Inv, ConsoleInv, NEW e \in inbox, ui = "loop", e.msg.type # "quit",
           UNCHANGED <<out, win, gen>>, inbox' \subseteq (inbox \ {e}) \cup {QuitCmd},
           uiWin' = Turned(uiWin, e.msg), NEW item \in Tellable, Items(e.msg) = <<item>>,
           lowerText' = IF item = ClearItem THEN <<>> ELSE Append(lowerText, item),
           ui' # "exited", appState' = appState
    PROVE  ConsoleInv' /\ [C!Next]_C!consoleVars
<1>1. /\ ConsoleInv' /\ appState = "running" /\ Phase = "telling"
      /\ Unsent \in Seq(Tellable) /\ Pending = Items(e.msg) \o Unsent /\ Pending' = Unsent
    BY Taken
<1>2. Phase' = "telling"
    BY <1>1, PhasesThen
<1>3. Pending # <<>> /\ Head(Pending) = item /\ Tail(Pending) = Unsent
  <2> DEFINE u == Unsent
             p == Pending
  <2>1. u \in Seq(Tellable) /\ p = <<item>> \o u
      BY <1>1
  <2> HIDE DEF u, p
  <2>2. p # <<>> /\ Head(p) = item /\ Tail(p) = u
    <3>1. Len(u) \in Nat /\ Len(p) = 1 + Len(u)
        BY <2>1
    <3>2. p[1] = item /\ \A i \in 1..Len(u) : p[i + 1] = u[i]
        BY <2>1
    <3>3. p \in Seq(Tellable)
        BY <2>1
    <3>4. p # <<>> /\ Head(p) = item
        BY <3>1, <3>2, <3>3
    <3>5. Tail(p) = u
      <4>1. Tail(p) \in Seq(Tellable) /\ Len(Tail(p)) = Len(u)
            /\ \A i \in 1..Len(u) : Tail(p)[i] = u[i]
          BY <3>1, <3>2, <3>3, <3>4, HeadTail
      <4> QED
          BY <2>1, <4>1
    <3> QED
        BY <3>4, <3>5
  <2> QED
      BY <2>2 DEF u, p
<1> QED
    BY <1>1, <1>2, <1>3, ConsoleShows

\* The item a message carries appears in the log, or clears it.
LEMMA EntryIsNotClear == \A n : Entry("story", n) # ClearItem
BY DEF Entry, ClearItem

LEMMA ConsoleHandle ==
    ASSUME TypeOK, Inv, ConsoleInv, NEW e \in inbox, Handle(e)
    PROVE  ConsoleInv' /\ [C!Next]_C!consoleVars
<1> USE GensFacts
<1>e. e \in [from : 0..MaxGen, msg : Msg \cup Invalid]
    BY DEF TypeOK
<1>n. /\ e.msg.type \notin {"text", "eraseWindow"} => Items(e.msg) = <<>>
      /\ e.msg.type # "screen" => uiWin = Turned(uiWin, e.msg)
    BY ItemsCarried DEF Turned
<1>1. CASE OnText(e)
  <2>1. /\ ui = "loop" /\ e.msg.type = "text" /\ inbox' = inbox \ {e}
        /\ UNCHANGED <<out, win, gen, ui, appState, uiWin>>
        /\ lowerText' = IF uiWin = "lower" THEN Append(lowerText, Entry("story", e.msg.id))
                                           ELSE lowerText
      BY <1>1 DEF OnText, TakeAndRearm, Take, interpVars
  <2>2. e.msg.win = uiWin /\ e.msg.id \in 1..MaxTexts
      BY <1>e, <1>n, <2>1, Taken, InFlightFields
  <2>3. CASE uiWin = "lower"
    <3>1. Items(e.msg) = <<Entry("story", e.msg.id)>> /\ Entry("story", e.msg.id) \in Tellable
        BY <2>1, <2>2, <2>3, ItemsCarried DEF Tellable
    <3>2. lowerText' = IF Entry("story", e.msg.id) = ClearItem THEN <<>>
                       ELSE Append(lowerText, Entry("story", e.msg.id))
        BY <2>1, <2>3, EntryIsNotClear
    <3> QED
        BY <1>n, <2>1, <3>1, <3>2, TakenAndShown
  <2>4. CASE uiWin # "lower"
    <3>1. Items(e.msg) = <<>>
        BY <2>1, <2>2, <2>4, ItemsCarried
    <3> QED
        BY <1>n, <2>1, <2>4, <3>1, TakenSilently
  <2> QED
      BY <2>3, <2>4
<1>2. CASE OnScreenModel(e)
  <2>1. /\ ui = "loop" /\ e.msg.type = "screen" /\ inbox' = inbox \ {e}
        /\ UNCHANGED <<out, win, gen, ui, appState, lowerText>> /\ uiWin' = e.msg.win
      BY <1>2 DEF OnScreenModel, TakeAndRearm, Take, interpVars
  <2>2. uiWin' = Turned(uiWin, e.msg)
      BY <2>1 DEF Turned
  <2> QED
      BY <1>n, <2>1, <2>2, TakenSilently
<1>3. CASE OnNotice(e) \/ OnRuntimeError(e) \/ OnSave(e) \/ OnRestore(e)
  <2>1. /\ ui = "loop" /\ e.msg.type \notin {"text", "screen", "eraseWindow", "quit"}
        /\ inbox' \subseteq (inbox \ {e}) \cup {QuitCmd} /\ ui' # "exited"
        /\ UNCHANGED <<out, win, gen, appState, uiWin, lowerText>>
      BY <1>3 DEF OnNotice, OnRuntimeError, OnSave, OnRestore, TakeAndRearm, Take, interpVars,
          uiVars
  <2> QED
      BY <1>n, <2>1, TakenSilently
<1>4. CASE OnInputRequest(e) \/ OnWaitForCharacter(e)
  <2>1. /\ ui = "loop" /\ e.msg.type \in {"input", "char"} /\ inbox' = inbox \ {e}
        /\ UNCHANGED <<out, win, gen, ui, uiWin, lowerText>> /\ appState' \in {"input", "character"}
      BY <1>4 DEF OnInputRequest, OnWaitForCharacter, TakeAndRearm, Take, interpVars
  <2>2. /\ ConsoleInv' /\ appState = "running" /\ Phase = "telling"
        /\ Unsent \in Seq(Tellable) /\ Pending = Items(e.msg) \o Unsent /\ Pending' = Unsent
      BY <1>n, <2>1, Taken
  <2>3. out[gen] = <<>>
      BY <2>1, HandledAlone DEF Inv, SendersWait, Waiting
  <2>4. Unsent = <<>> /\ Items(e.msg) = <<>>
      BY <1>n, <2>1, <2>3, Flight, NothingToSend
  <2>5. Pending = <<>> /\ Pending' = Pending
      BY <2>2, <2>4
  <2>6. Phase' \in {"awaitLine", "awaitKey"}
      BY <2>1, PhasesThen
  <2> QED
      BY <2>1, <2>2, <2>5, <2>6, ConsoleAsks
<1>5. CASE OnEraseWindow(e)
  <2>1. /\ ui = "loop" /\ e.msg.type = "eraseWindow"
        /\ inbox' \subseteq (inbox \ {e}) \cup {QuitCmd}
        /\ UNCHANGED <<out, win, gen, ui, appState, uiWin>>
        /\ lowerText' = IF e.msg.value \in {-2, -1, 0} THEN <<>> ELSE lowerText
    <3>1. e.msg.type = "eraseWindow" /\ ui = "loop"
        BY <1>5 DEF OnEraseWindow, Take
    <3>2. UNCHANGED <<out, win, gen, ui, appState, uiWin>>
        BY <1>5 DEF OnEraseWindow, interpVars
    <3>3. inbox' \subseteq (inbox \ {e}) \cup {QuitCmd}
        BY <1>5 DEF OnEraseWindow, TakeAndRearm
    <3>4. e.msg.value \in EraseValues
        BY <1>e, <3>1 DEF Msg, Invalid, Plain
    <3>5. lowerText' = IF e.msg.value \in {-2, -1, 0} THEN <<>> ELSE lowerText
        BY <1>5, <3>4 DEF OnEraseWindow, EraseValues
    <3> QED
        BY <3>1, <3>2, <3>3, <3>5
  <2>2. CASE e.msg.value \in {-2, -1, 0}
    <3>1. Items(e.msg) = <<ClearItem>> /\ ClearItem \in Tellable
        BY <2>1, <2>2, ItemsCarried DEF Tellable
    <3>2. lowerText' = IF ClearItem = ClearItem THEN <<>> ELSE Append(lowerText, ClearItem)
        BY <2>1, <2>2
    <3> QED
        BY <1>n, <2>1, <3>1, <3>2, TakenAndShown
  <2>3. CASE e.msg.value \notin {-2, -1, 0}
    <3>1. Items(e.msg) = <<>>
        BY <2>1, <2>3, ItemsCarried
    <3> QED
        BY <1>n, <2>1, <2>3, <3>1, TakenSilently
  <2> QED
      BY <2>2, <2>3
<1>6. CASE OnRestart(e)
  <2>1. /\ ui = "loop" /\ e.msg.type = "restart" /\ inbox' = inbox \ {e} /\ gen' = gen + 1
        /\ out' = [out EXCEPT ![gen + 1] = <<Screen("lower")>>] /\ gen < MaxGen
        /\ appState' = "running" /\ lowerText' = <<>> /\ UNCHANGED <<win, ui, uiWin>>
      BY <1>6 DEF OnRestart, Take
  <2>2. /\ FromPump(gen) = {e} /\ appState = "running" /\ \A d \in inbox \ {e} : d = QuitCmd
      BY <2>1, HandledAlone
  <2>3. out[gen] = <<Bare("quit")>>
      BY <2>1, HandledAlone DEF Inv, SendersWait
  <2>4. gen \in Int /\ gen > 0 /\ gen + 1 \in Gens /\ gen + 1 > gen
      BY <2>1 DEF TypeOK, Gens
  <2>5. Pending = <<>>
    <3>1. InFlight = <<>>
        BY <1>n, <2>1, <2>2, Flight, OneInFlight
    <3>2. Items(Bare("quit")) = <<>> /\ Bare("quit") \in Msg
        BY CarriesNothing DEF Plain
    <3>3. Unsent = <<>>
        BY <2>3, <3>2, Flight, OneToSend
    <3> QED
        BY <3>1, <3>3 DEF Pending
  <2>6. FromPump(gen)' = {}
      BY <2>1, <2>2, <2>4 DEF FromPump, QuitCmd
  <2>7. out'[gen'] = <<Screen("lower")>> /\ win'[gen'] = "lower"
      BY <2>1, <2>4 DEF ConsoleInv, TypeOK
  <2>8. /\ Screen("lower") \in Msg /\ Items(Screen("lower")) = <<>>
        /\ Screen("lower").type = "screen" /\ Turned(uiWin, Screen("lower")) = "lower"
      BY CarriesNothing DEF Windows
  <2>9. Pending' = <<>>
    <3>1. InFlight' = <<>>
        BY <2>6, Flight, NothingInFlight
    <3>2. Unsent' = <<>>
        BY <2>7, <2>8, Flight, OneToSend
    <3> QED
        BY <3>1, <3>2, Flight
  <2>10. ConsoleInv'
    <3>1. \A d \in FromPump(gen)' : d.msg.type = "text" => d.msg.win = uiWin'
        BY <2>6
    <3>2. LeadsTo(uiWin, <<Screen("lower")>>, "lower")
        BY <2>8, OneToSend
    <3>3. Ahead(FromPump(gen)', uiWin') = uiWin
        BY <2>1, <2>6, NothingInFlight
    <3>4. LeadsTo(Ahead(FromPump(gen)', uiWin'), out'[gen'], win'[gen'])
        BY <2>7, <3>2, <3>3
    <3>5. \A g \in Gens : g > gen' => win'[g] = "lower"
      <4>1. \A g \in Gens : g > gen + 1 => g > gen
          BY <2>4
      <4> QED
          BY <2>1, <4>1 DEF ConsoleInv
    <3> QED
        BY <3>1, <3>4, <3>5, ConsoleInvThen
  <2>11. Phase = "telling" /\ Phase' = "telling"
      BY <2>1, <2>2, Phases, PhasesThen
  <2> QED
      BY <2>1, <2>5, <2>9, <2>10, <2>11, ConsoleStartsAgain
<1>7. CASE OnQuit(e)
  <2>1. /\ ui = "loop" /\ e.msg.type = "quit" /\ inbox' = inbox \ {e} /\ ui' = "exited"
        /\ UNCHANGED <<out, win, gen, appState, uiWin, lowerText>>
      BY <1>7 DEF OnQuit, Take, interpVars, uiVars
  <2>2. CASE e.from # gen
    <3>1. FromPump(gen)' = FromPump(gen)
        BY <2>1, <2>2 DEF FromPump
    <3>2. ConsoleInv' /\ Pending' = Pending
        BY <2>1, <3>1, NothingMoves
    <3> QED
        BY <2>1, <3>2, Phases, PhasesThen, ConsoleStops DEF Phase
  <2>3. CASE e.from = gen
    <3>1. FromPump(gen) = {e} /\ FromPump(gen)' = {}
        BY <2>1, <2>3 DEF FromPump, Inv, OneListener
    <3>2. InFlight = <<>> /\ Ahead(FromPump(gen), uiWin) = uiWin
        BY <1>n, <2>1, <3>1, Flight, OneInFlight
    <3>3. InFlight' = <<>> /\ Ahead(FromPump(gen)', uiWin') = uiWin
        BY <2>1, <3>1, Flight, NothingInFlight
    <3>4. Pending' = Pending
        BY <2>1, <3>2, <3>3, Flight DEF Pending
    <3>5. ConsoleInv'
      <4>1. \A d \in FromPump(gen)' : d.msg.type = "text" => d.msg.win = uiWin'
          BY <3>1
      <4>2. LeadsTo(Ahead(FromPump(gen)', uiWin'), out'[gen'], win'[gen'])
          BY <2>1, <3>2, <3>3 DEF ConsoleInv
      <4>3. \A g \in Gens : g > gen' => win'[g] = "lower"
          BY <2>1 DEF ConsoleInv
      <4> QED
          BY <4>1, <4>2, <4>3, ConsoleInvThen
    <3>6. Phase # "over" /\ Phase' = "over"
        BY <2>1, PhasesThen DEF Phase
    <3> QED
        BY <2>1, <3>4, <3>5, <3>6, ConsoleStops
  <2> QED
      BY <2>2, <2>3
<1> QED
    BY <1>1, <1>2, <1>3, <1>4, <1>5, <1>6, <1>7 DEF Handle

-----------------------------------------------------------------------------
(* The player, and Update's channel sends.                                  *)

LEMMA ConsolePlayer ==
    ASSUME TypeOK, Inv, ConsoleInv, Player
    PROVE  ConsoleInv' /\ [C!Next]_C!consoleVars
<1> USE GensFacts
<1>1. CASE CtrlC \/ KeyTyped
  <2>1. UNCHANGED <<out, win, gen, ui, appState, uiWin, lowerText>>
        /\ inbox' \in {inbox, inbox \cup {QuitCmd}}
      BY <1>1 DEF CtrlC, KeyTyped, interpVars, uiVars
  <2>2. gen # 0
      BY DEF TypeOK, Gens
  <2>3. FromPump(gen)' = FromPump(gen)
      BY <2>1, <2>2 DEF FromPump, QuitCmd
  <2>4. ConsoleInv' /\ Pending' = Pending
      BY <2>1, <2>3, NothingMoves
  <2>5. Phase' = Phase
      BY <2>1 DEF Phase
  <2> QED
      BY <2>1, <2>4, <2>5, ConsoleStutters
<1>2. ASSUME NEW k \in Keys, KeyForCharacter(k) \/ KeyEndsLine(k)
      PROVE  ConsoleInv' /\ [C!Next]_C!consoleVars
  <2>1. /\ UNCHANGED <<out, win, gen, inbox, uiWin>> /\ ui = "loop" /\ ui' = "answer"
        /\ appState' = "running"
        /\ \/ appState = "character" /\ lowerText' = lowerText
           \/ appState = "input" /\ lowerText' = Append(lowerText, Entry("player", box))
      BY <1>2 DEF KeyForCharacter, KeyEndsLine, interpVars
  <2>2. FromPump(gen)' = FromPump(gen)
      BY <2>1 DEF FromPump
  <2>3. ConsoleInv' /\ Pending' = Pending
      BY <2>1, <2>2, NothingMoves
  <2>4. /\ Phase' = "telling"
        /\ appState = "character" => Phase = "awaitKey"
        /\ appState = "input" => Phase = "awaitLine"
      BY <2>1, Phases, PhasesThen
  <2>5. box \in 0..MaxBox
      BY DEF TypeOK
  <2> QED
      BY <2>1, <2>3, <2>4, <2>5, ConsoleHears
<1> QED
    BY <1>1, <1>2 DEF Player

LEMMA ConsoleBlocked ==
    ASSUME TypeOK, Inv, ConsoleInv, Blocked
    PROVE  ConsoleInv' /\ [C!Next]_C!consoleVars
<1>1. /\ ui \in {"copyStack", "writeFile", "respond", "answer"} /\ ui' # "exited"
      /\ UNCHANGED <<out, win, gen, inbox, appState, uiWin, lowerText>>
    BY DEF Blocked, CopyStack, WriteFile, Respond, SendAnswer, interpVars, uiVars
<1>2. appState = "running"
    BY <1>1 DEF Inv, TurnIsHeld
<1>3. FromPump(gen)' = FromPump(gen)
    BY <1>1 DEF FromPump
<1>4. ConsoleInv' /\ Pending' = Pending
    BY <1>1, <1>3, NothingMoves
<1>5. Phase = "telling" /\ Phase' = "telling"
    BY <1>1, <1>2, Phases, PhasesThen
<1> QED
    BY <1>1, <1>4, <1>5, ConsoleStutters

-----------------------------------------------------------------------------
LEMMA ConsoleInit == Init => C!Init /\ ConsoleInv
<1> SUFFICES ASSUME Init PROVE C!Init /\ ConsoleInv
    OBVIOUS
<1> USE GensFacts
<1>1. /\ gen = 1 /\ out[gen] = <<Screen("lower")>> /\ win[gen] = "lower" /\ FromPump(gen) = {}
      /\ \A g \in Gens : win[g] = "lower"
      /\ ui = "loop" /\ appState = "running" /\ lowerText = <<>> /\ uiWin = "upper"
    BY DEF Init, FromPump
<1>2. /\ Screen("lower") \in Msg /\ Items(Screen("lower")) = <<>>
      /\ Screen("lower").type = "screen" /\ \A v : Turned(v, Screen("lower")) = "lower"
    BY CarriesNothing DEF Windows
<1>3. InFlight = <<>> /\ Ahead(FromPump(gen), uiWin) = uiWin
    BY <1>1, Flight, NothingInFlight
<1>4. Unsent = <<>> /\ LeadsTo(uiWin, out[gen], win[gen])
    BY <1>1, <1>2, Flight, OneToSend
<1>5. ConsoleInv
    BY <1>1, <1>3, <1>4 DEF ConsoleInv
<1>6. Phase = "telling"
    BY <1>1, Phases
<1>7. InFlight \o Unsent = <<>>
    BY <1>3, <1>4
<1> QED
    BY <1>1, <1>5, <1>6, <1>7 DEF C!Init

LEMMA ConsoleStep ==
    ASSUME TypeOK, Inv, ConsoleInv, [Next]_vars
    PROVE  ConsoleInv' /\ [C!Next]_C!consoleVars
<1>1. CASE UNCHANGED vars
  <2>1. UNCHANGED <<out, win, gen, inbox, ui, appState, uiWin, lowerText>>
      BY <1>1 DEF vars, interpVars, uiVars
  <2>2. FromPump(gen)' = FromPump(gen)
      BY <2>1 DEF FromPump
  <2>3. ConsoleInv' /\ Pending' = Pending
      BY <2>1, <2>2, NothingMoves
  <2>4. Phase' = Phase
      BY <2>1 DEF Phase
  <2> QED
      BY <2>1, <2>3, <2>4, ConsoleStutters
<1>2. CASE Interpreter
    BY <1>2, ConsoleInstruction DEF Interpreter
<1>3. ASSUME NEW g \in Gens, Pump(g) PROVE ConsoleInv' /\ [C!Next]_C!consoleVars
    BY <1>3, ConsolePump
<1>4. ASSUME NEW e \in inbox, Handle(e) PROVE ConsoleInv' /\ [C!Next]_C!consoleVars
    BY <1>4, ConsoleHandle
<1> QED
    BY <1>1, <1>2, <1>3, <1>4, ConsolePlayer, ConsoleBlocked DEF Next, Exited

(* The text the interpreter prints in the lower window reaches the player's *)
(* display complete, in order and once, every erasure takes effect between  *)
(* the texts it was issued between, and a prompt comes only when everything *)
(* told before it is shown: the session implements the console.             *)
THEOREM SessionImplementsConsole == Spec => ImplementsConsole
<1>1. TypeOK /\ Inv /\ ConsoleInv /\ [Next]_vars => ConsoleInv' /\ [C!Next]_C!consoleVars
    BY ConsoleStep
<1> QED
    BY <1>1, ConsoleInit, TypeCorrect, InvariantHolds, PTL DEF Spec, ImplementsConsole, C!Spec
===============================================================================

------------------------------- MODULE GameTest --------------------------------
(****************************************************************************)
(* The test harness (cmd/gametest): it runs a story in a goroutine, answers *)
(* each read with the next of a list of commands, refuses to save and to    *)
(* restore, and judges the run.  Unlike in a playing session the channels   *)
(* are buffered, and the end of the goroutine is told on a channel of its   *)
(* own, so that select has a choice.                                        *)
(****************************************************************************)
EXTENDS Integers, Sequences

CONSTANTS
    NCommands,    \* length of the list of commands (138)
    OutCapacity,  \* buffer of outputChannel (100)
    InCapacity,   \* buffer of inputChannel and saveRestoreChannel (10)
    MaxTexts      \* bound: texts the story prints

ASSUME GameTestAssumption ==
    /\ NCommands \in Nat
    /\ OutCapacity \in Nat \ {0} /\ InCapacity \in Nat \ {0}
    /\ MaxTexts \in Nat

VARIABLES
    ipc,          \* the goroutine: what it does when its sends are done
    toSend,       \* messages of the instruction under way
    output,       \* outputChannel
    input,        \* inputChannel: numbers of commands
    answers,      \* saveRestoreChannel
    reads,        \* history: commands the story has read
    texts,        \* texts printed so far (numbers them)
    hpc,          \* the harness: "load", "select", "sendInput", "sendAnswer", "returned"
    commandIndex,
    screenOutput, \* texts collected
    verdict       \* the result

runVars == <<ipc, toSend, reads, texts>>
channels == <<output, input, answers>>
harnessVars == <<hpc, commandIndex, screenOutput, verdict>>
vars == <<runVars, channels, harnessVars>>

Text(n) == [type |-> "text", n |-> n]
Bare(t) == [type |-> t, n |-> 0]

-----------------------------------------------------------------------------
(* The goroutine that calls Run.                                            *)

Issue(msgs, next) ==
    /\ ipc = "step" /\ toSend = <<>>
    /\ toSend' = msgs
    /\ ipc' = next
    /\ UNCHANGED <<reads, channels, harnessVars>>

AppendText ==
    /\ texts < MaxTexts
    /\ Issue(<<Text(texts + 1)>>, "step")
    /\ texts' = texts + 1

\* Screen models, status bars, warnings: messages the harness has no case for.
Notify == Issue(<<Bare("other")>>, "step") /\ UNCHANGED texts

\* read and READ_CHAR, SAVE and RESTORE.
Request ==
    /\ \E t \in {"input", "char", "save", "restore"} :
         Issue(<<Bare(t)>>, IF t \in {"input", "char"} THEN "read" ELSE "saveRestore")
    /\ UNCHANGED texts

\* QUIT, RESTART, and a runtime error; Run then sends Quit.
Stop ==
    /\ \E before \in {<<>>, <<Bare("restart")>>, <<Bare("error")>>} :
         Issue(before \o <<Bare("quit")>>, "halt")
    /\ UNCHANGED texts

SendOutput ==
    /\ toSend # <<>>
    /\ Len(output) < OutCapacity
    /\ output' = Append(output, Head(toSend))
    /\ toSend' = Tail(toSend)
    /\ UNCHANGED <<ipc, reads, texts, input, answers, harnessVars>>

ReceiveInput ==
    /\ ipc = "read" /\ toSend = <<>>
    /\ input # <<>>
    /\ input' = Tail(input)
    /\ reads' = Append(reads, Head(input))
    /\ ipc' = "step"
    /\ UNCHANGED <<toSend, texts, output, answers, harnessVars>>

ReceiveAnswer ==
    /\ ipc = "saveRestore" /\ toSend = <<>>
    /\ answers # <<>>
    /\ answers' = Tail(answers)
    /\ ipc' = "step"
    /\ UNCHANGED <<toSend, reads, texts, output, input, harnessVars>>

Run == SendOutput \/ ReceiveInput \/ ReceiveAnswer

-----------------------------------------------------------------------------
(* The harness.                                                             *)

Judge(v) ==
    /\ hpc' = "returned"
    /\ verdict' = v
    /\ UNCHANGED <<commandIndex, screenOutput>>

\* An unreadable or short file, or a panic of LoadRom, is a failure.
LoadStory ==
    /\ hpc = "load"
    /\ \/ /\ hpc' = "select"
          /\ ipc' = "step"
          /\ toSend' = <<Bare("other")>>
          /\ UNCHANGED <<commandIndex, screenOutput, verdict>>
       \/ Judge("failure") /\ UNCHANGED <<ipc, toSend>>
    /\ UNCHANGED <<reads, texts, channels>>

Receive(types) ==
    /\ hpc = "select"
    /\ output # <<>> /\ Head(output).type \in types
    /\ output' = Tail(output)
    /\ UNCHANGED <<runVars, input, answers>>

Collect ==
    /\ Receive({"text", "other"})
    /\ screenOutput' = IF Head(output).type = "text" THEN Append(screenOutput, Head(output).n)
                       ELSE screenOutput
    /\ UNCHANGED <<hpc, commandIndex, verdict>>

\* Faulty variant: a request for a character is left to the next one.
OnRead_LineOnly ==
    /\ Receive({"input", "char"})
    /\ IF commandIndex < NCommands
       THEN /\ hpc' = IF Head(output).type = "input" THEN "sendInput" ELSE "select"
            /\ commandIndex' = commandIndex + 1
            /\ UNCHANGED <<screenOutput, verdict>>
       ELSE Judge("success")

\* Faulty variant: the story is judged when the last command is given.
OnRead_StopsEarly ==
    /\ Receive({"input", "char"})
    /\ IF commandIndex + 1 < NCommands
       THEN /\ hpc' = "sendInput"
            /\ commandIndex' = commandIndex + 1
            /\ UNCHANGED <<screenOutput, verdict>>
       ELSE Judge("success")

\* The next command, or the end of the test when all are given.
OnRead ==
    /\ Receive({"input", "char"})
    /\ IF commandIndex < NCommands
       THEN /\ hpc' = "sendInput"
            /\ commandIndex' = commandIndex + 1
            /\ UNCHANGED <<screenOutput, verdict>>
       ELSE Judge("success")

SendInput ==
    /\ hpc = "sendInput"
    /\ Len(input) < InCapacity
    /\ input' = Append(input, commandIndex)
    /\ hpc' = "select"
    /\ UNCHANGED <<runVars, output, answers, commandIndex, screenOutput, verdict>>

OnSaveRestore ==
    /\ Receive({"save", "restore"})
    /\ hpc' = "sendAnswer"
    /\ UNCHANGED <<commandIndex, screenOutput, verdict>>

\* Faulty variant: the command is answered on the wrong channel.
SendAnswer_ToInput ==
    /\ hpc = "sendAnswer"
    /\ Len(input) < InCapacity
    /\ input' = Append(input, commandIndex)
    /\ hpc' = "select"
    /\ UNCHANGED <<runVars, output, answers, commandIndex, screenOutput, verdict>>

SendAnswer ==
    /\ hpc = "sendAnswer"
    /\ Len(answers) < InCapacity
    /\ answers' = Append(answers, FALSE)
    /\ hpc' = "select"
    /\ UNCHANGED <<runVars, output, input, commandIndex, screenOutput, verdict>>

OnQuitOrRestart == Receive({"quit", "restart"}) /\ Judge("success")

OnRuntimeError == Receive({"error"}) /\ Judge("failure")

\* The select takes done: a rendezvous with the goroutine whose Run returned.
OnDone ==
    /\ hpc = "select"
    /\ ipc = "halt" /\ toSend = <<>>
    /\ ipc' = "gone"
    /\ Judge("success")
    /\ UNCHANGED <<toSend, reads, texts, channels>>

\* Faulty variant: the time spent is only noted.
OnTimeout_GoesOn ==
    /\ hpc = "select"
    /\ verdict' = "failure"
    /\ UNCHANGED <<runVars, channels, hpc, commandIndex, screenOutput>>

\* Thirty seconds have passed; there is no clock here, it may be any time.
OnTimeout ==
    /\ hpc = "select"
    /\ Judge("failure")
    /\ UNCHANGED <<runVars, channels>>

Harness ==
    \/ LoadStory \/ Collect
    \/ OnRead \/ SendInput
    \/ OnSaveRestore \/ SendAnswer
    \/ OnQuitOrRestart \/ OnRuntimeError
    \/ OnDone

-----------------------------------------------------------------------------
Init ==
    /\ ipc = "none"
    /\ toSend = <<>>
    /\ output = <<>> /\ input = <<>> /\ answers = <<>>
    /\ reads = <<>>
    /\ texts = 0
    /\ hpc = "load"
    /\ commandIndex = 0
    /\ screenOutput = <<>>
    /\ verdict = "none"

\* The next game, or the report.
Returned == hpc = "returned" /\ UNCHANGED vars

Next ==
    \/ AppendText \/ Notify \/ Request \/ Stop \/ Run
    \/ Harness \/ OnTimeout
    \/ Returned

Spec == Init /\ [][Next]_vars

\* Both goroutines run when they can, and a select does not pass over a timer
\* that has fired for ever (Go chooses at random).  The story may compute, or
\* notify, for ever.
FairSpec == Spec /\ WF_vars(Run) /\ WF_vars(Harness) /\ SF_vars(OnTimeout)

-----------------------------------------------------------------------------
(* Properties.                                                              *)

\* Answers on their way, and whether the story waits for one.
Given(chan, at) == Len(chan) + IF hpc = at THEN 1 ELSE 0
Awaits(request) == IF ipc = request /\ toSend = <<>> /\ output = <<>> THEN 1 ELSE 0

NoneIsLeftOver ==
    /\ Given(input, "sendInput") <= Awaits("read")
    /\ Given(answers, "sendAnswer") <= Awaits("saveRestore")

CommandsAreReadInOrder == reads = [i \in 1..Len(reads) |-> i]

\* A command or an answer is given to the very request that waits for it: none
\* is left in a buffer for a later read.  The story reads the commands one by one
\* from the first, and unless one is on its way it has read all that were given.
AnswersMeetTheirRequest ==
    /\ NoneIsLeftOver
    /\ CommandsAreReadInOrder
    /\ hpc \in {"select", "returned"} /\ input = <<>> => Len(reads) = commandIndex

\* A story passes only when it has stopped, or has asked for more than all of
\* the commands; all it printed until then is then in the report.
SuccessHasAReason ==
    verdict = "success" =>
        \/ ipc \in {"halt", "gone"}
        \/ ipc = "read" /\ Len(reads) = NCommands /\ Len(screenOutput) = texts

\* "TestResult captures the outcome of running a single game"
\* (cmd/gametest/main.go:16): a story that reported a runtime error has failed.
RuntimeErrorsFailTheTest ==
    verdict = "success" => \A i \in 1..Len(output) : output[i].type # "error"

\* A game that is loaded is judged.
EveryGameIsJudged == <>(hpc = "returned")
-----------------------------------------------------------------------------
(* The inductive invariant behind the safety properties: what is on its way *)
(* to the harness, in the order in which it will be received.               *)

MessageTypes ==
    {"text", "other", "input", "char", "save", "restore", "quit", "restart", "error"}

Messages == [type : MessageTypes, n : Nat]

\* The variables keep their types.
TypeOK ==
    /\ ipc \in {"none", "step", "read", "saveRestore", "halt", "gone"}
    /\ toSend \in Seq(Messages) /\ output \in Seq(Messages)
    /\ input \in Seq(Nat) /\ answers \in Seq(BOOLEAN)
    /\ reads \in Seq(Nat) /\ texts \in Nat
    /\ hpc \in {"load", "select", "sendInput", "sendAnswer", "returned"}
    /\ commandIndex \in Nat /\ screenOutput \in Seq(Nat)
    /\ verdict \in {"none", "success", "failure"}

Pipe == output \o toSend

\* Nothing comes behind a request, and the story waits for its answer; a story that
\* has told its end does nothing more.
RequestsAreLast ==
    \A i \in 1..Len(Pipe) :
        /\ Pipe[i].type \in {"input", "char"} => i = Len(Pipe) /\ ipc = "read"
        /\ Pipe[i].type \in {"save", "restore"} => i = Len(Pipe) /\ ipc = "saveRestore"
        /\ Pipe[i].type \in {"quit", "restart"} => ipc \in {"halt", "gone"}

\* The texts that are not collected yet are on their way, in the order they were printed.
TextsAreOnTheirWay ==
    LET missing == (Len(screenOutput) + 1)..texts IN
    /\ Len(screenOutput) <= texts
    /\ \A n \in missing : \E i \in 1..Len(Pipe) : Pipe[i] = Text(n)
    /\ \A i \in 1..Len(Pipe) : Pipe[i].type = "text" => Pipe[i].n \in missing
    /\ \A i, j \in 1..Len(Pipe) :
         i < j /\ Pipe[i].type = "text" /\ Pipe[j].type = "text" => Pipe[i].n < Pipe[j].n

\* The command on its way, if any, is the one after those that were read.
CommandsAreCounted ==
    /\ commandIndex <= NCommands
    /\ commandIndex = Len(reads) + Len(input) + (IF hpc = "sendInput" THEN 1 ELSE 0)
    /\ input # <<>> => input[1] = commandIndex

\* The goroutine starts with the story, and a story that has passed gets no more answers.
EndsAreFinal ==
    /\ hpc = "load" => ipc = "none" /\ output = <<>> /\ toSend = <<>>
    /\ verdict = "success" => hpc = "returned" /\ (ipc = "read" => input = <<>>)

Inv ==
    /\ RequestsAreLast
    /\ TextsAreOnTheirWay
    /\ CommandsAreCounted
    /\ EndsAreFinal
    /\ AnswersMeetTheirRequest
    /\ SuccessHasAReason
=============================================================================

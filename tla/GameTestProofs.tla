----------------------------- MODULE GameTestProofs -----------------------------
(****************************************************************************)
(* Proofs about GameTest, for any list of commands, any size of the buffers *)
(* and any number of texts.  Both properties depend on what is on its way   *)
(* from the story to the harness; Pipe is all of it, in order, and Inv says *)
(* what it may hold.  Sending leaves the pipe alone, an instruction adds to *)
(* its end, and the harness takes from its front.                           *)
(****************************************************************************)
EXTENDS GameTest, SequenceTheorems, TLAPS

-----------------------------------------------------------------------------
(* The pipe.                                                                *)

LEMMA EmptyWhenNone ==
    ASSUME NEW S, NEW s \in Seq(S), Len(s) = 0
    PROVE  s = <<>>
OBVIOUS

LEMMA AtMostOne == \A n \in Nat : /\ n <= 1 => n = 0 \/ n = 1
                                  /\ n + 1 <= 1 => n = 0
OBVIOUS

LEMMA PipeProperties ==
    ASSUME TypeOK
    PROVE  /\ Pipe \in Seq(Messages) /\ Len(Pipe) \in Nat
           /\ Len(Pipe) = Len(output) + Len(toSend)
           /\ toSend = <<>> => Pipe = output
BY ConcatProperties, ConcatEmptySeq DEF TypeOK, Pipe

\* A message that goes from the interpreter to the channel keeps its place.
LEMMA SendingKeepsThePipe ==
    ASSUME TypeOK, toSend # <<>>, output' = Append(output, Head(toSend)), toSend' = Tail(toSend)
    PROVE  Pipe' = Pipe
<1> DEFINE h == Head(toSend)
           t == Tail(toSend)
<1>1. h \in Messages /\ t \in Seq(Messages) /\ <<h>> \in Seq(Messages)
      /\ output \in Seq(Messages) /\ toSend \in Seq(Messages)
    BY HeadTailProperties DEF TypeOK
<1>2. Append(output, h) = output \o <<h>>
    BY <1>1, AppendIsConcat
<1>3. (output \o <<h>>) \o t = output \o (<<h>> \o t)
    BY <1>1, ConcatAssociative
<1>4. <<h>> \o t = toSend
    BY <1>1
<1> HIDE DEF h, t
<1> QED
    BY <1>2, <1>3, <1>4 DEF Pipe, h, t

\* The harness takes the first message.
LEMMA ReceivingTakesTheFirst ==
    ASSUME TypeOK, output # <<>>, output' = Tail(output), toSend' = toSend
    PROVE  /\ Len(Pipe) # 0 /\ Pipe[1] = Head(output)
           /\ Len(Pipe') = Len(Pipe) - 1
           /\ \A i \in 1..Len(Pipe') : Pipe'[i] = Pipe[i + 1]
           /\ Len(Pipe) = 1 => output' = <<>> /\ toSend = <<>>
<1>1. output \in Seq(Messages) /\ toSend \in Seq(Messages) /\ Tail(output) \in Seq(Messages)
      /\ Len(Tail(output)) = Len(output) - 1 /\ Len(output) \in Nat /\ Len(toSend) \in Nat
      /\ Len(output) # 0 /\ Head(output) = output[1]
    BY HeadTailProperties, EmptySeq DEF TypeOK
<1>2. /\ Len(Pipe) = Len(output) + Len(toSend)
      /\ \A i \in 1..(Len(output) + Len(toSend)) :
           Pipe[i] = IF i <= Len(output) THEN output[i] ELSE toSend[i - Len(output)]
    BY <1>1, ConcatProperties DEF Pipe
<1>3. /\ Len(Pipe') = Len(output) - 1 + Len(toSend)
      /\ \A i \in 1..(Len(output) - 1 + Len(toSend)) :
           Pipe'[i] = IF i <= Len(output) - 1 THEN Tail(output)[i]
                      ELSE toSend[i - (Len(output) - 1)]
    BY <1>1, ConcatProperties DEF Pipe
<1>4. \A i \in 1..(Len(output) - 1) : Tail(output)[i] = output[i + 1]
    BY <1>1, HeadTailProperties
<1>5. ASSUME NEW i \in 1..Len(Pipe') PROVE Pipe'[i] = Pipe[i + 1]
  <2>1. i + 1 \in 1..(Len(output) + Len(toSend))
      BY <1>1, <1>3
  <2>2. CASE i <= Len(output) - 1
      BY <1>1, <1>2, <1>3, <1>4, <2>1, <2>2
  <2>3. CASE ~(i <= Len(output) - 1)
      BY <1>1, <1>2, <1>3, <2>1, <2>3
  <2> QED
      BY <2>2, <2>3
<1>6. Pipe[1] = Head(output)
    BY <1>1, <1>2
<1>7. ASSUME Len(Pipe) = 1 PROVE output' = <<>> /\ toSend = <<>>
  <2>1. Len(output) = 1 /\ Len(toSend) = 0
    <3>1. Len(output) + Len(toSend) = 1
        BY <1>2, <1>7
    <3> QED
        BY <1>1, <3>1
  <2>2. Len(Tail(output)) = 0
      BY <1>1, <2>1
  <2> QED
      BY <1>1, <2>1, <2>2, EmptyWhenNone
<1> QED
    BY <1>1, <1>2, <1>3, <1>5, <1>6, <1>7

\* An instruction adds its messages at the end.
LEMMA IssuingAddsAtTheEnd ==
    ASSUME TypeOK, toSend = <<>>, NEW msgs \in Seq(Messages), output' = output, toSend' = msgs
    PROVE  /\ Len(Pipe') = Len(Pipe) + Len(msgs)
           /\ \A i \in 1..Len(Pipe) : Pipe'[i] = Pipe[i]
           /\ \A i \in 1..Len(msgs) : Pipe'[Len(Pipe) + i] = msgs[i]
<1>1. output \in Seq(Messages) /\ Len(output) \in Nat /\ Len(msgs) \in Nat /\ Pipe = output
    BY PipeProperties DEF TypeOK
<1>2. /\ Len(Pipe') = Len(output) + Len(msgs)
      /\ \A i \in 1..(Len(output) + Len(msgs)) :
           Pipe'[i] = IF i <= Len(output) THEN output[i] ELSE msgs[i - Len(output)]
    BY <1>1, ConcatProperties DEF Pipe
<1>3. ASSUME NEW i \in 1..Len(msgs) PROVE Pipe'[Len(Pipe) + i] = msgs[i]
  <2>1. /\ Len(output) + i \in 1..(Len(output) + Len(msgs)) /\ ~(Len(output) + i <= Len(output))
        /\ (Len(output) + i) - Len(output) = i
      BY <1>1
  <2> QED
      BY <1>1, <1>2, <2>1
<1> QED
    BY <1>1, <1>2, <1>3

-----------------------------------------------------------------------------
(* Types.                                                                   *)

LEMMA TextIsAMessage == \A n \in Nat : Text(n) \in Messages
BY DEF Text, Messages, MessageTypes

LEMMA BareIsAMessage == \A t \in MessageTypes : Bare(t) \in Messages
BY DEF Bare, Messages

\* What an instruction sends, and what the interpreter does next.
Ends == {<<>>, <<Bare("restart")>>, <<Bare("error")>>}

LEMMA EndsAreMessages ==
    ASSUME NEW before \in Ends
    PROVE  before \o <<Bare("quit")>> \in Seq(Messages)
<1>1. Bare("quit") \in Messages /\ Bare("restart") \in Messages /\ Bare("error") \in Messages
    BY BareIsAMessage DEF MessageTypes
<1>2. <<>> \in Seq(Messages) /\ <<Bare("quit")>> \in Seq(Messages)
    BY <1>1, EmptySeq
<1>3. <<Bare("restart")>> \in Seq(Messages) /\ <<Bare("error")>> \in Seq(Messages)
    BY <1>1
<1>4. before \in Seq(Messages)
    BY <1>2, <1>3 DEF Ends
<1> QED
    BY <1>2, <1>4, ConcatProperties

\* The instructions one by one, with what they send.
LEMMA Instructions ==
    ASSUME TypeOK, AppendText \/ Notify \/ Request \/ Stop
    PROVE  \E msgs \in Seq(Messages), next \in {"step", "read", "saveRestore", "halt"} :
             /\ Issue(msgs, next)
             /\ texts' \in Nat
             /\ \/ AppendText /\ msgs = <<Text(texts + 1)>> /\ next = "step"
                \/ Notify /\ msgs = <<Bare("other")>> /\ next = "step"
                \/ Request /\ next = "read" /\ msgs \in {<<Bare("input")>>, <<Bare("char")>>}
                \/ /\ Request /\ next = "saveRestore"
                   /\ msgs \in {<<Bare("save")>>, <<Bare("restore")>>}
                \/ /\ Stop /\ next = "halt"
                   /\ \E before \in Ends : msgs = before \o <<Bare("quit")>>
<1>1. texts \in Nat
    BY DEF TypeOK
<1>2. CASE AppendText
  <2>1. <<Text(texts + 1)>> \in Seq(Messages)
      BY <1>1, TextIsAMessage
  <2>2. Issue(<<Text(texts + 1)>>, "step") /\ texts' \in Nat
      BY <1>1, <1>2 DEF AppendText
  <2> QED
      BY <1>2, <2>1, <2>2
<1>3. CASE Notify
  <2>1. <<Bare("other")>> \in Seq(Messages)
      BY BareIsAMessage DEF MessageTypes
  <2> QED
      BY <1>1, <1>3, <2>1 DEF Notify
<1>4. CASE Request
  <2>1. PICK t \in {"input", "char", "save", "restore"} :
          Issue(<<Bare(t)>>, IF t \in {"input", "char"} THEN "read" ELSE "saveRestore")
      BY <1>4 DEF Request
  <2>2. <<Bare(t)>> \in Seq(Messages)
      BY BareIsAMessage DEF MessageTypes
  <2>3. texts' = texts
      BY <1>4 DEF Request
  <2> QED
      BY <1>1, <1>4, <2>1, <2>2, <2>3
<1>5. CASE Stop
  <2>1. PICK before \in Ends : Issue(before \o <<Bare("quit")>>, "halt")
      BY <1>5 DEF Stop, Ends
  <2>2. texts' = texts
      BY <1>5 DEF Stop
  <2> QED
      BY <1>1, <1>5, <2>1, <2>2, EndsAreMessages
<1> QED
    BY <1>2, <1>3, <1>4, <1>5

LEMMA TypeInductive == TypeOK /\ [Next]_vars => TypeOK'
<1> SUFFICES ASSUME TypeOK, [Next]_vars PROVE TypeOK'
    OBVIOUS
<1> USE GameTestAssumption DEF runVars, channels, harnessVars
<1>1. CASE AppendText \/ Notify \/ Request \/ Stop
  <2>1. PICK msgs \in Seq(Messages), next \in {"step", "read", "saveRestore", "halt"} :
          Issue(msgs, next) /\ texts' \in Nat
      BY <1>1, Instructions
  <2> QED
      BY <2>1 DEF Issue, TypeOK
<1>2. CASE SendOutput
  <2>1. Head(toSend) \in Messages /\ Tail(toSend) \in Seq(Messages)
      BY <1>2, HeadTailProperties DEF SendOutput, TypeOK
  <2>2. Append(output, Head(toSend)) \in Seq(Messages)
      BY <2>1, AppendProperties DEF TypeOK
  <2> QED
      BY <1>2, <2>1, <2>2 DEF SendOutput, TypeOK
<1>3. CASE ReceiveInput
  <2>1. Tail(input) \in Seq(Nat) /\ Append(reads, Head(input)) \in Seq(Nat)
      BY <1>3, HeadTailProperties, AppendProperties DEF ReceiveInput, TypeOK
  <2> QED
      BY <1>3, <2>1 DEF ReceiveInput, TypeOK
<1>4. CASE ReceiveAnswer
  <2>1. Tail(answers) \in Seq(BOOLEAN)
      BY <1>4, HeadTailProperties DEF ReceiveAnswer, TypeOK
  <2> QED
      BY <1>4, <2>1 DEF ReceiveAnswer, TypeOK
<1>5. CASE LoadStory
  <2>1. <<Bare("other")>> \in Seq(Messages)
      BY BareIsAMessage DEF MessageTypes
  <2> QED
      BY <1>5, <2>1 DEF LoadStory, Judge, TypeOK
<1>6. ASSUME NEW types, Receive(types)
      PROVE  output' \in Seq(Messages) /\ output \in Seq(Messages) /\ Head(output) \in Messages
             /\ ipc' = ipc /\ toSend' = toSend /\ reads' = reads /\ texts' = texts
             /\ input' = input /\ answers' = answers
    BY <1>6, HeadTailProperties DEF Receive, TypeOK
<1>7. CASE Collect
  <2>1. screenOutput' \in Seq(Nat)
    <3>1. Head(output).n \in Nat
        BY <1>6, <1>7 DEF Collect, Messages
    <3>2. Append(screenOutput, Head(output).n) \in Seq(Nat)
        BY <3>1, AppendProperties DEF TypeOK
    <3> QED
        BY <1>7, <3>2 DEF Collect, TypeOK
  <2> QED
      BY <1>6, <1>7, <2>1 DEF Collect, TypeOK
<1>8. CASE OnRead \/ OnSaveRestore \/ OnQuitOrRestart \/ OnRuntimeError
  <2>1. \E types : Receive(types)
      BY <1>8 DEF OnRead, OnSaveRestore, OnQuitOrRestart, OnRuntimeError
  <2>2. output' \in Seq(Messages) /\ ipc' = ipc /\ toSend' = toSend /\ reads' = reads
        /\ texts' = texts /\ input' = input /\ answers' = answers
      BY <1>6, <2>1
  <2> QED
      BY <1>8, <2>2 DEF OnRead, OnSaveRestore, OnQuitOrRestart, OnRuntimeError, Judge, TypeOK
<1>9. CASE SendInput \/ SendAnswer
  <2>1. Append(input, commandIndex) \in Seq(Nat) /\ Append(answers, FALSE) \in Seq(BOOLEAN)
      BY AppendProperties DEF TypeOK
  <2> QED
      BY <1>9, <2>1 DEF SendInput, SendAnswer, TypeOK
<1>10. CASE OnDone \/ OnTimeout
    BY <1>10 DEF OnDone, OnTimeout, Judge, TypeOK
<1>11. CASE Returned \/ UNCHANGED vars
    BY <1>11 DEF Returned, vars, TypeOK
<1> QED
    BY <1>1, <1>2, <1>3, <1>4, <1>5, <1>7, <1>8, <1>9, <1>10, <1>11 DEF Next, Run, Harness

\* The variables keep their types, for any list of commands and any size of the buffers.
THEOREM TypeCorrect == Spec => []TypeOK
<1>1. Init => TypeOK
    BY EmptySeq DEF Init, TypeOK
<1> QED
    BY <1>1, TypeInductive, PTL DEF Spec

-----------------------------------------------------------------------------
(* The invariant: what instructions add to the pipe.                        *)

\* What may be sent by an instruction after which the interpreter is at next.
Fits(msgs, next) ==
    \A k \in 1..Len(msgs) :
        /\ msgs[k].type \in {"input", "char"} => k = Len(msgs) /\ next = "read"
        /\ msgs[k].type \in {"save", "restore"} => k = Len(msgs) /\ next = "saveRestore"
        /\ msgs[k].type \in {"quit", "restart"} => next \in {"halt", "gone"}

HasNoText(msgs) == \A k \in 1..Len(msgs) : msgs[k].type # "text"

LEMMA EndsFit ==
    ASSUME NEW before \in Ends
    PROVE  LET msgs == before \o <<Bare("quit")>> IN Fits(msgs, "halt") /\ HasNoText(msgs)
<1> DEFINE msgs == before \o <<Bare("quit")>>
<1>1. CASE before = <<>>
  <2>1. Len(msgs) = 1 /\ msgs[1] = Bare("quit")
      BY <1>1
  <2> QED
      BY <2>1 DEF Fits, HasNoText, Bare
<1>2. ASSUME NEW t \in {"restart", "error"}, before = <<Bare(t)>>
      PROVE  Fits(msgs, "halt") /\ HasNoText(msgs)
  <2>1. Len(msgs) = 2 /\ msgs[1] = Bare(t) /\ msgs[2] = Bare("quit")
      BY <1>2
  <2>2. \A k \in 1..Len(msgs) : msgs[k].type \in {"restart", "error", "quit"}
      BY <2>1 DEF Bare
  <2> HIDE DEF msgs
  <2> QED
      BY <2>2 DEF Fits, HasNoText
<1> QED
    BY <1>1, <1>2 DEF Ends

\* An instruction sends a request last, its end before it ends, and texts in their order.
LEMMA InstructionsFit ==
    ASSUME TypeOK, AppendText \/ Notify \/ Request \/ Stop
    PROVE  \E msgs \in Seq(Messages), next \in {"step", "read", "saveRestore", "halt"} :
             /\ Issue(msgs, next)
             /\ Fits(msgs, next)
             /\ \/ msgs = <<Text(texts + 1)>> /\ texts' = texts + 1
                \/ HasNoText(msgs) /\ texts' = texts
<1>1. PICK msgs \in Seq(Messages), next \in {"step", "read", "saveRestore", "halt"} :
        /\ Issue(msgs, next)
        /\ \/ AppendText /\ msgs = <<Text(texts + 1)>> /\ next = "step"
           \/ Notify /\ msgs = <<Bare("other")>> /\ next = "step"
           \/ Request /\ next = "read" /\ msgs \in {<<Bare("input")>>, <<Bare("char")>>}
           \/ Request /\ next = "saveRestore" /\ msgs \in {<<Bare("save")>>, <<Bare("restore")>>}
           \/ Stop /\ next = "halt" /\ \E before \in Ends : msgs = before \o <<Bare("quit")>>
    BY Instructions
<1>2. CASE AppendText /\ msgs = <<Text(texts + 1)>>
  <2>1. Fits(msgs, next)
      BY <1>2 DEF Fits, Text
  <2> QED
      BY <1>1, <1>2, <2>1 DEF AppendText
<1>3. ASSUME NEW t \in {"other", "input", "char", "save", "restore"}, msgs = <<Bare(t)>>,
             Notify \/ Request,
             t \in {"input", "char"} => next = "read",
             t \in {"save", "restore"} => next = "saveRestore"
      PROVE  Fits(msgs, next) /\ HasNoText(msgs) /\ texts' = texts
    BY <1>3 DEF Fits, HasNoText, Bare, Notify, Request
<1>4. CASE Stop /\ next = "halt" /\ \E before \in Ends : msgs = before \o <<Bare("quit")>>
  <2>1. texts' = texts
      BY <1>4 DEF Stop
  <2> QED
      BY <1>1, <1>4, <2>1, EndsFit
<1> QED
    BY <1>1, <1>2, <1>3, <1>4

LEMMA InvIssue ==
    ASSUME TypeOK, Inv, AppendText \/ Notify \/ Request \/ Stop
    PROVE  Inv'
<1>1. PICK msgs \in Seq(Messages), next \in {"step", "read", "saveRestore", "halt"} :
        /\ Issue(msgs, next)
        /\ Fits(msgs, next)
        /\ \/ msgs = <<Text(texts + 1)>> /\ texts' = texts + 1
           \/ HasNoText(msgs) /\ texts' = texts
    BY InstructionsFit
<1>2. /\ ipc = "step" /\ ipc' = next /\ toSend = <<>> /\ toSend' = msgs
      /\ output' = output /\ input' = input /\ answers' = answers /\ reads' = reads
      /\ hpc' = hpc /\ commandIndex' = commandIndex /\ screenOutput' = screenOutput
      /\ verdict' = verdict
    BY <1>1 DEF Issue, channels, harnessVars
<1>3. /\ Len(Pipe') = Len(Pipe) + Len(msgs) /\ Len(Pipe) \in Nat /\ Len(msgs) \in Nat
      /\ \A i \in 1..Len(Pipe) : Pipe'[i] = Pipe[i]
      /\ \A i \in 1..Len(msgs) : Pipe'[Len(Pipe) + i] = msgs[i]
    BY <1>2, IssuingAddsAtTheEnd, PipeProperties
<1>4. \A i \in 1..Len(Pipe') : \/ i \in 1..Len(Pipe)
                               \/ \E k \in 1..Len(msgs) : i = Len(Pipe) + k
  <2> SUFFICES ASSUME NEW i \in 1..Len(Pipe'), i \notin 1..Len(Pipe)
               PROVE  \E k \in 1..Len(msgs) : i = Len(Pipe) + k
      OBVIOUS
  <2>1. i - Len(Pipe) \in 1..Len(msgs) /\ i = Len(Pipe) + (i - Len(Pipe))
      BY <1>3
  <2> QED
      BY <2>1
<1>5. RequestsAreLast'
  <2>1. ASSUME NEW i \in 1..Len(Pipe)
        PROVE  Pipe'[i].type \notin {"input", "char", "save", "restore", "quit", "restart"}
      BY <1>2, <1>3, <2>1 DEF Inv, RequestsAreLast
  <2>2. ASSUME NEW k \in 1..Len(msgs)
        PROVE  LET i == Len(Pipe) + k IN
               /\ Pipe'[i].type \in {"input", "char"} => i = Len(Pipe') /\ next = "read"
               /\ Pipe'[i].type \in {"save", "restore"} => i = Len(Pipe') /\ next = "saveRestore"
               /\ Pipe'[i].type \in {"quit", "restart"} => next \in {"halt", "gone"}
      BY <1>1, <1>3, <2>2 DEF Fits
  <2> QED
      BY <1>2, <1>4, <2>1, <2>2 DEF RequestsAreLast
<1>6. TextsAreOnTheirWay'
  <2>1. texts \in Nat /\ Len(screenOutput) \in Nat
      BY DEF TypeOK
  <2>2. CASE HasNoText(msgs) /\ texts' = texts
    <3>1. \A i \in 1..Len(Pipe') : Pipe'[i].type = "text" => i \in 1..Len(Pipe)
        BY <1>3, <1>4, <2>2 DEF HasNoText
    <3>2. \A i \in 1..Len(Pipe) : i \in 1..Len(Pipe')
        BY <1>3
    <3> QED
        BY <1>2, <1>3, <2>2, <3>1, <3>2 DEF Inv, TextsAreOnTheirWay
  <2>3. CASE msgs = <<Text(texts + 1)>> /\ texts' = texts + 1
    <3>1. Len(Pipe') = Len(Pipe) + 1 /\ Pipe'[Len(Pipe) + 1] = Text(texts + 1)
        BY <1>3, <2>3
    <3>2. /\ Len(screenOutput) <= texts
          /\ \A n \in (Len(screenOutput) + 1)..texts : \E i \in 1..Len(Pipe) : Pipe[i] = Text(n)
          /\ \A i \in 1..Len(Pipe) :
               Pipe[i].type = "text" => Pipe[i].n \in (Len(screenOutput) + 1)..texts
          /\ \A i, j \in 1..Len(Pipe) :
               i < j /\ Pipe[i].type = "text" /\ Pipe[j].type = "text" => Pipe[i].n < Pipe[j].n
        BY DEF Inv, TextsAreOnTheirWay
    <3>3. ASSUME NEW n \in (Len(screenOutput) + 1)..(texts + 1)
          PROVE  \E i \in 1..Len(Pipe') : Pipe'[i] = Text(n)
      <4>1. CASE n = texts + 1
          BY <1>3, <3>1, <4>1
      <4>2. CASE n # texts + 1
        <5>1. n \in (Len(screenOutput) + 1)..texts
            BY <2>1, <4>2
        <5>2. PICK i \in 1..Len(Pipe) : Pipe[i] = Text(n)
            BY <3>2, <5>1
        <5> QED
            BY <1>3, <5>2
      <4> QED
          BY <4>1, <4>2
    <3>4. Text(texts + 1).n = texts + 1
        BY DEF Text
    <3>5. ASSUME NEW i \in 1..Len(Pipe'), Pipe'[i].type = "text"
          PROVE  Pipe'[i].n \in (Len(screenOutput) + 1)..(texts + 1)
      <4>1. CASE i \in 1..Len(Pipe)
        <5>1. Pipe[i].n \in (Len(screenOutput) + 1)..texts
            BY <1>3, <3>2, <3>5, <4>1
        <5> QED
            BY <1>3, <2>1, <4>1, <5>1
      <4>2. CASE i = Len(Pipe) + 1
          BY <2>1, <3>1, <3>2, <3>4, <4>2
      <4> QED
          BY <1>3, <3>1, <4>1, <4>2
    <3>6. ASSUME NEW i \in 1..Len(Pipe'), NEW j \in 1..Len(Pipe'), i < j,
                 Pipe'[i].type = "text", Pipe'[j].type = "text"
          PROVE  Pipe'[i].n < Pipe'[j].n
      <4>1. i \in 1..Len(Pipe)
          BY <1>3, <3>1, <3>6
      <4>2. CASE j \in 1..Len(Pipe)
          BY <1>3, <3>2, <3>6, <4>1, <4>2
      <4>3. CASE j = Len(Pipe) + 1
        <5>1. Pipe[i].n \in (Len(screenOutput) + 1)..texts
            BY <1>3, <3>2, <3>6, <4>1
        <5> QED
            BY <1>3, <2>1, <3>1, <3>4, <4>1, <4>3, <5>1
      <4> QED
          BY <1>3, <3>1, <4>2, <4>3
    <3>7. Len(screenOutput) <= texts + 1
        BY <2>1, <3>2
    <3> QED
        BY <1>2, <2>3, <3>3, <3>5, <3>6, <3>7 DEF TextsAreOnTheirWay
  <2> QED
      BY <1>1, <2>2, <2>3
<1>7. CommandsAreCounted'
    BY <1>2 DEF Inv, CommandsAreCounted
<1>8. EndsAreFinal' /\ SuccessHasAReason'
    BY <1>2 DEF Inv, EndsAreFinal, SuccessHasAReason
<1>9. AnswersMeetTheirRequest'
  <2>1. NoneIsLeftOver'
      BY <1>2 DEF Inv, AnswersMeetTheirRequest, NoneIsLeftOver, Given, Awaits, TypeOK
  <2>2. CommandsAreReadInOrder'
      BY <1>2 DEF Inv, AnswersMeetTheirRequest, CommandsAreReadInOrder
  <2> QED
      BY <1>2, <2>1, <2>2 DEF Inv, AnswersMeetTheirRequest
<1> QED
    BY <1>5, <1>6, <1>7, <1>8, <1>9 DEF Inv

-----------------------------------------------------------------------------
(* The invariant: the goroutine's sends and receives.                       *)

\* Steps that leave the pipe alone.
LEMMA TextsStay ==
    ASSUME Inv, Pipe' = Pipe, screenOutput' = screenOutput, texts' = texts
    PROVE  TextsAreOnTheirWay'
BY DEF Inv, TextsAreOnTheirWay

\* Nothing is given before it is asked for, and what is given is alone on its way.
LEMMA GivenMeansAwaited ==
    ASSUME TypeOK, Inv
    PROVE  /\ input # <<>> => /\ ipc = "read" /\ Pipe = <<>> /\ toSend = <<>> /\ output = <<>>
                              /\ Len(input) = 1 /\ hpc # "sendInput"
                              /\ answers = <<>> /\ hpc # "sendAnswer"
           /\ answers # <<>> => /\ ipc = "saveRestore" /\ Pipe = <<>> /\ toSend = <<>>
                                /\ output = <<>> /\ Len(answers) = 1 /\ hpc # "sendAnswer"
                                /\ input = <<>> /\ hpc # "sendInput"
           /\ hpc = "sendInput" => /\ ipc = "read" /\ toSend = <<>> /\ output = <<>>
                                   /\ input = <<>> /\ answers = <<>>
           /\ hpc = "sendAnswer" => /\ ipc = "saveRestore" /\ toSend = <<>> /\ output = <<>>
                                    /\ input = <<>> /\ answers = <<>>
           /\ toSend # <<>> \/ output # <<>> => input = <<>> /\ answers = <<>>
<1>1. /\ Len(input) \in Nat /\ Len(answers) \in Nat
      /\ Len(input) = 0 => input = <<>>
      /\ Len(answers) = 0 => answers = <<>>
      /\ input # <<>> => Len(input) # 0
      /\ answers # <<>> => Len(answers) # 0
    BY EmptyWhenNone, EmptySeq DEF TypeOK
<1>2. NoneIsLeftOver
    BY DEF Inv, AnswersMeetTheirRequest
<1>3. output = <<>> /\ toSend = <<>> => Pipe = <<>>
    BY PipeProperties
<1>4. ASSUME Len(input) # 0 \/ hpc = "sendInput"
      PROVE  /\ ipc = "read" /\ toSend = <<>> /\ output = <<>>
             /\ hpc # "sendInput" => Len(input) = 1
             /\ hpc = "sendInput" => Len(input) = 0
  <2>1. /\ Awaits("read") \in {0, 1} /\ Len(input) <= Awaits("read")
        /\ hpc = "sendInput" => Len(input) + 1 <= Awaits("read")
      BY <1>1, <1>2 DEF NoneIsLeftOver, Given, Awaits
  <2>2. Awaits("read") # 0
    <3>1. ~(Len(input) <= 0 /\ hpc # "sendInput")
        BY <1>1, <1>4
    <3>2. ~(Len(input) + 1 <= 0)
        BY <1>1
    <3> QED
        BY <2>1, <3>1, <3>2
  <2>3. ipc = "read" /\ toSend = <<>> /\ output = <<>>
      BY <2>2 DEF Awaits
  <2>4. Len(input) <= 1 /\ (hpc = "sendInput" => Len(input) + 1 <= 1)
      BY <2>1, <2>2
  <2>5. /\ hpc # "sendInput" => Len(input) = 1
        /\ hpc = "sendInput" => Len(input) = 0
      BY <1>1, <1>4, <2>4, AtMostOne
  <2> QED
      BY <2>3, <2>5
<1>5. ASSUME Len(answers) # 0 \/ hpc = "sendAnswer"
      PROVE  /\ ipc = "saveRestore" /\ toSend = <<>> /\ output = <<>>
             /\ hpc # "sendAnswer" => Len(answers) = 1
             /\ hpc = "sendAnswer" => Len(answers) = 0
  <2>1. /\ Awaits("saveRestore") \in {0, 1} /\ Len(answers) <= Awaits("saveRestore")
        /\ hpc = "sendAnswer" => Len(answers) + 1 <= Awaits("saveRestore")
      BY <1>1, <1>2 DEF NoneIsLeftOver, Given, Awaits
  <2>2. Awaits("saveRestore") # 0
    <3>1. ~(Len(answers) <= 0 /\ hpc # "sendAnswer")
        BY <1>1, <1>5
    <3>2. ~(Len(answers) + 1 <= 0)
        BY <1>1
    <3> QED
        BY <2>1, <3>1, <3>2
  <2>3. ipc = "saveRestore" /\ toSend = <<>> /\ output = <<>>
      BY <2>2 DEF Awaits
  <2>4. Len(answers) <= 1 /\ (hpc = "sendAnswer" => Len(answers) + 1 <= 1)
      BY <2>1, <2>2
  <2>5. /\ hpc # "sendAnswer" => Len(answers) = 1
        /\ hpc = "sendAnswer" => Len(answers) = 0
      BY <1>1, <1>5, <2>4, AtMostOne
  <2> QED
      BY <2>3, <2>5
<1> QED
    BY <1>1, <1>3, <1>4, <1>5

LEMMA InvSendOutput ==
    ASSUME TypeOK, Inv, SendOutput
    PROVE  Inv'
<1>1. /\ toSend # <<>> /\ output' = Append(output, Head(toSend)) /\ toSend' = Tail(toSend)
      /\ ipc' = ipc /\ reads' = reads /\ texts' = texts /\ input' = input /\ answers' = answers
      /\ hpc' = hpc /\ commandIndex' = commandIndex /\ screenOutput' = screenOutput
      /\ verdict' = verdict
    BY DEF SendOutput, harnessVars
<1>2. Pipe' = Pipe
    BY <1>1, SendingKeepsThePipe
<1>3. RequestsAreLast' /\ TextsAreOnTheirWay'
    BY <1>1, <1>2, TextsStay DEF Inv, RequestsAreLast
<1>4. CommandsAreCounted' /\ EndsAreFinal'
    BY <1>1 DEF Inv, CommandsAreCounted, EndsAreFinal
<1>5. NoneIsLeftOver'
  <2>1. input = <<>> /\ answers = <<>> /\ hpc # "sendInput" /\ hpc # "sendAnswer"
      BY <1>1, GivenMeansAwaited
  <2>2. Len(input') = 0 /\ Len(answers') = 0
      BY <1>1, <2>1
  <2> QED
      BY <1>1, <2>1, <2>2 DEF NoneIsLeftOver, Given, Awaits
<1>6. AnswersMeetTheirRequest'
    BY <1>1, <1>5 DEF Inv, AnswersMeetTheirRequest, CommandsAreReadInOrder
<1>7. SuccessHasAReason'
    BY <1>1 DEF Inv, SuccessHasAReason
<1> QED
    BY <1>3, <1>4, <1>6, <1>7 DEF Inv

\* A list of numbers that counts from 1 goes on with the next.
LEMMA CountingOn ==
    ASSUME NEW s \in Seq(Nat), s = [i \in 1..Len(s) |-> i], NEW t, t = Append(s, Len(s) + 1)
    PROVE  t = [i \in 1..Len(t) |-> i]
<1>1. Len(s) \in Nat /\ t \in Seq(Nat) /\ Len(t) = Len(s) + 1 /\ t[Len(s) + 1] = Len(s) + 1
    BY AppendProperties
<1>2. \A i \in 1..Len(s) : t[i] = s[i] /\ s[i] = i
    BY AppendProperties
<1>3. \A i \in 1..Len(t) : t[i] = i
    BY <1>1, <1>2
<1>4. t \in [1..Len(t) -> Nat]
    BY <1>1, LenProperties
<1> QED
    BY <1>3, <1>4

LEMMA InvReceiveInput ==
    ASSUME TypeOK, Inv, ReceiveInput
    PROVE  Inv'
<1>1. /\ input # <<>> /\ input' = Tail(input) /\ reads' = Append(reads, Head(input))
      /\ ipc = "read" /\ ipc' = "step" /\ toSend' = toSend /\ texts' = texts
      /\ output' = output /\ answers' = answers /\ hpc' = hpc /\ commandIndex' = commandIndex
      /\ screenOutput' = screenOutput /\ verdict' = verdict
    BY DEF ReceiveInput, harnessVars
<1>2. /\ Len(input) = 1 /\ Pipe = <<>> /\ hpc # "sendInput" /\ hpc # "sendAnswer"
      /\ answers = <<>>
    BY <1>1, GivenMeansAwaited
<1>3. Pipe' = <<>>
    BY <1>1, <1>2 DEF Pipe
<1>4. input \in Seq(Nat) /\ Len(input') = 0 /\ input' = <<>> /\ Head(input) = input[1]
  <2>1. input \in Seq(Nat) /\ Head(input) = input[1]
      BY DEF TypeOK
  <2>2. Tail(input) \in Seq(Nat) /\ Len(Tail(input)) = Len(input) - 1
      BY <1>1, <2>1, HeadTailProperties
  <2>3. Len(Tail(input)) = 0
      BY <1>2, <2>2
  <2> QED
      BY <1>1, <2>1, <2>2, <2>3, EmptyWhenNone
<1>5. reads \in Seq(Nat) /\ Len(reads) \in Nat /\ Head(input) = Len(reads) + 1
      /\ commandIndex = Len(reads) + 1
    BY <1>1, <1>2, <1>4 DEF Inv, CommandsAreCounted, TypeOK
<1>6. Len(reads') = Len(reads) + 1 /\ CommandsAreReadInOrder'
  <2>1. reads' = Append(reads, Len(reads) + 1) /\ Len(reads) + 1 \in Nat
      BY <1>1, <1>5
  <2>2. reads = [i \in 1..Len(reads) |-> i]
      BY DEF Inv, AnswersMeetTheirRequest, CommandsAreReadInOrder
  <2>3. reads' = [i \in 1..Len(reads') |-> i]
      BY <1>5, <2>1, <2>2, CountingOn
  <2>4. Len(reads') = Len(reads) + 1
      BY <1>5, <2>1, AppendProperties
  <2> QED
      BY <2>3, <2>4 DEF CommandsAreReadInOrder
<1>7. RequestsAreLast' /\ TextsAreOnTheirWay'
    BY <1>1, <1>2, <1>3, TextsStay DEF RequestsAreLast
<1>8. CommandsAreCounted'
  <2>1. commandIndex = Len(reads') + Len(input') + 0 /\ commandIndex <= NCommands
      BY <1>4, <1>5, <1>6 DEF Inv, CommandsAreCounted
  <2> QED
      BY <1>1, <1>2, <1>4, <2>1 DEF CommandsAreCounted
<1>9. EndsAreFinal' /\ SuccessHasAReason'
    BY <1>1 DEF Inv, EndsAreFinal, SuccessHasAReason
<1>10. NoneIsLeftOver'
    BY <1>1, <1>2, <1>4 DEF NoneIsLeftOver, Given, Awaits
<1> QED
    BY <1>1, <1>5, <1>6, <1>7, <1>8, <1>9, <1>10 DEF Inv, AnswersMeetTheirRequest

LEMMA InvReceiveAnswer ==
    ASSUME TypeOK, Inv, ReceiveAnswer
    PROVE  Inv'
<1>1. /\ answers # <<>> /\ answers' = Tail(answers) /\ reads' = reads
      /\ ipc = "saveRestore" /\ ipc' = "step" /\ toSend' = toSend /\ texts' = texts
      /\ output' = output /\ input' = input /\ hpc' = hpc /\ commandIndex' = commandIndex
      /\ screenOutput' = screenOutput /\ verdict' = verdict
    BY DEF ReceiveAnswer, harnessVars
<1>2. /\ Len(answers) = 1 /\ Pipe = <<>> /\ hpc # "sendInput" /\ hpc # "sendAnswer"
      /\ input = <<>>
    BY <1>1, GivenMeansAwaited
<1>3. Pipe' = <<>>
    BY <1>1, <1>2 DEF Pipe
<1>4. Len(answers') = 0 /\ Len(input') = 0
    BY <1>1, <1>2, HeadTailProperties DEF TypeOK
<1>5. RequestsAreLast' /\ TextsAreOnTheirWay'
    BY <1>1, <1>2, <1>3, TextsStay DEF RequestsAreLast
<1>6. CommandsAreCounted' /\ EndsAreFinal' /\ SuccessHasAReason'
    BY <1>1 DEF Inv, CommandsAreCounted, EndsAreFinal, SuccessHasAReason
<1>7. NoneIsLeftOver'
    BY <1>1, <1>2, <1>4 DEF NoneIsLeftOver, Given, Awaits
<1>8. AnswersMeetTheirRequest'
    BY <1>1, <1>7 DEF Inv, AnswersMeetTheirRequest, CommandsAreReadInOrder
<1> QED
    BY <1>5, <1>6, <1>8 DEF Inv

-----------------------------------------------------------------------------
(* The invariant: the harness.                                              *)

LEMMA InvLoadStory ==
    ASSUME TypeOK, Inv, LoadStory
    PROVE  Inv'
<1>1. /\ hpc = "load" /\ ipc = "none" /\ output = <<>> /\ toSend = <<>>
      /\ output' = output /\ input' = input /\ answers' = answers
      /\ reads' = reads /\ texts' = texts
      /\ commandIndex' = commandIndex /\ screenOutput' = screenOutput
    BY DEF LoadStory, Judge, channels, Inv, EndsAreFinal
<1>2. verdict' # "success" /\ hpc' \in {"select", "returned"}
    BY <1>1 DEF LoadStory, Judge, Inv, EndsAreFinal
<1>3. input = <<>> /\ answers = <<>>
    BY <1>1, GivenMeansAwaited
<1>4. EndsAreFinal' /\ SuccessHasAReason' /\ CommandsAreCounted'
    BY <1>1, <1>2 DEF Inv, EndsAreFinal, SuccessHasAReason, CommandsAreCounted
<1>5. AnswersMeetTheirRequest'
  <2>1. Len(input') = 0 /\ Len(answers') = 0
      BY <1>1, <1>3
  <2>2. NoneIsLeftOver'
      BY <1>1, <1>2, <2>1 DEF NoneIsLeftOver, Given, Awaits
  <2>3. Len(reads) \in Nat /\ Len(reads) = commandIndex
      BY <1>1, <1>3 DEF Inv, CommandsAreCounted, TypeOK
  <2> QED
      BY <1>1, <2>2, <2>3 DEF Inv, AnswersMeetTheirRequest, CommandsAreReadInOrder
<1>6. \A i \in 1..Len(Pipe') : Pipe'[i] = Bare("other")
  <2>1. toSend' \in {<<>>, <<Bare("other")>>}
      BY <1>1 DEF LoadStory
  <2>2. Pipe' = toSend'
      BY <1>1, <2>1 DEF Pipe
  <2> QED
      BY <2>1, <2>2
<1>7. RequestsAreLast'
    BY <1>6 DEF RequestsAreLast, Bare
<1>8. TextsAreOnTheirWay'
  <2>1. Pipe = <<>> /\ texts \in Nat /\ Len(screenOutput) \in Nat
      BY <1>1 DEF Pipe, TypeOK
  <2>2. Len(screenOutput) <= texts /\ \A n \in (Len(screenOutput) + 1)..texts : FALSE
      BY <2>1 DEF Inv, TextsAreOnTheirWay
  <2> QED
      BY <1>1, <1>6, <2>2 DEF TextsAreOnTheirWay, Bare
<1> QED
    BY <1>4, <1>5, <1>7, <1>8 DEF Inv

\* What receiving a message tells, and what it leaves to be proved.
LEMMA Received ==
    ASSUME TypeOK, Inv, NEW types, Receive(types)
    PROVE  /\ hpc = "select" /\ Head(output).type \in types
           /\ ipc' = ipc /\ toSend' = toSend /\ reads' = reads /\ texts' = texts
           /\ input' = <<>> /\ input = <<>> /\ answers' = <<>> /\ answers = <<>>
           /\ Len(reads) = commandIndex /\ CommandsAreReadInOrder'
           /\ RequestsAreLast'
           /\ Head(output).type \in {"input", "char"} =>
                ipc = "read" /\ toSend = <<>> /\ output' = <<>> /\ Len(screenOutput) = texts
           /\ Head(output).type \in {"save", "restore"} =>
                ipc = "saveRestore" /\ toSend = <<>> /\ output' = <<>>
           /\ Head(output).type \in {"quit", "restart"} => ipc \in {"halt", "gone"}
           /\ Head(output).type # "text" /\ screenOutput' = screenOutput => TextsAreOnTheirWay'
           /\ Head(output).type = "text" =>
                /\ Head(output).n = Len(screenOutput) + 1
                /\ screenOutput' = Append(screenOutput, Head(output).n) => TextsAreOnTheirWay'
<1> DEFINE msg == Head(output)
           missing == (Len(screenOutput) + 1)..texts
<1>1. /\ hpc = "select" /\ msg.type \in types /\ output # <<>> /\ output' = Tail(output)
      /\ ipc' = ipc /\ toSend' = toSend /\ reads' = reads /\ texts' = texts
      /\ input' = input /\ answers' = answers
    BY DEF Receive, runVars
<1>2. input = <<>> /\ answers = <<>>
    BY <1>1, GivenMeansAwaited
<1>3. /\ Len(Pipe) \in Nat /\ Len(Pipe) # 0 /\ Pipe[1] = msg /\ Len(Pipe') = Len(Pipe) - 1
      /\ \A i \in 1..Len(Pipe') : Pipe'[i] = Pipe[i + 1]
      /\ Len(Pipe) = 1 => output' = <<>> /\ toSend = <<>>
    BY <1>1, ReceivingTakesTheFirst, PipeProperties
<1>4. 1 \in 1..Len(Pipe) /\ \A i \in 1..Len(Pipe') : i + 1 \in 1..Len(Pipe)
    BY <1>3
<1>5. CommandsAreReadInOrder' /\ Len(reads) = commandIndex
    BY <1>1, <1>2 DEF Inv, AnswersMeetTheirRequest, CommandsAreReadInOrder
<1>6. RequestsAreLast'
  <2>1. \A i \in 1..Len(Pipe') : i + 1 = Len(Pipe) => i = Len(Pipe')
      BY <1>3
  <2> QED
      BY <1>1, <1>3, <1>4, <2>1 DEF Inv, RequestsAreLast
<1>7. /\ msg.type \in {"input", "char"} => ipc = "read" /\ Len(Pipe) = 1
      /\ msg.type \in {"save", "restore"} => ipc = "saveRestore" /\ Len(Pipe) = 1
      /\ msg.type \in {"quit", "restart"} => ipc \in {"halt", "gone"}
    BY <1>3, <1>4 DEF Inv, RequestsAreLast
<1>8. /\ Len(screenOutput) <= texts /\ Len(screenOutput) \in Nat /\ texts \in Nat
      /\ \A n \in missing : \E i \in 1..Len(Pipe) : Pipe[i] = Text(n)
      /\ \A i \in 1..Len(Pipe) : Pipe[i].type = "text" => Pipe[i].n \in missing
      /\ \A i, j \in 1..Len(Pipe) :
           i < j /\ Pipe[i].type = "text" /\ Pipe[j].type = "text" => Pipe[i].n < Pipe[j].n
    BY DEF Inv, TextsAreOnTheirWay, TypeOK
<1>9. \A n : Text(n).type = "text" /\ Text(n).n = n
    BY DEF Text
<1> HIDE DEF msg
<1>10. ASSUME msg.type \in {"input", "char"} PROVE Len(screenOutput) = texts
  <2> SUFFICES ASSUME Len(screenOutput) # texts PROVE FALSE
      OBVIOUS
  <2>1. texts \in missing
      BY <1>8
  <2>2. PICK i \in 1..Len(Pipe) : Pipe[i] = Text(texts)
      BY <1>8, <2>1
  <2>3. i = 1
      BY <1>7, <1>10, <2>2
  <2> QED
      BY <1>3, <1>9, <1>10, <2>2, <2>3
<1>11. \A i, j \in 1..Len(Pipe') : i < j => i + 1 < j + 1
    BY <1>3
<1>12. ASSUME msg.type # "text", screenOutput' = screenOutput PROVE TextsAreOnTheirWay'
  <2>1. ASSUME NEW n \in missing PROVE \E i \in 1..Len(Pipe') : Pipe'[i] = Text(n)
    <3>1. PICK i \in 1..Len(Pipe) : Pipe[i] = Text(n)
        BY <1>8, <2>1
    <3>2. i # 1
        BY <1>3, <1>9, <1>12, <3>1
    <3>3. i - 1 \in 1..Len(Pipe') /\ (i - 1) + 1 = i
        BY <1>3, <3>2
    <3> QED
        BY <1>3, <3>1, <3>3
  <2>2. ASSUME NEW i \in 1..Len(Pipe'), Pipe'[i].type = "text"
        PROVE  Pipe'[i].n \in missing
      BY <1>3, <1>4, <1>8, <2>2
  <2>3. ASSUME NEW i \in 1..Len(Pipe'), NEW j \in 1..Len(Pipe'), i < j,
               Pipe'[i].type = "text", Pipe'[j].type = "text"
        PROVE  Pipe'[i].n < Pipe'[j].n
      BY <1>3, <1>4, <1>8, <1>11, <2>3
  <2> QED
      BY <1>1, <1>8, <1>12, <2>1, <2>2, <2>3 DEF TextsAreOnTheirWay
<1>13. ASSUME msg.type = "text" PROVE msg.n = Len(screenOutput) + 1 /\ msg.n <= texts
  <2>1. msg.n \in missing
      BY <1>3, <1>4, <1>8, <1>13
  <2>2. ASSUME msg.n # Len(screenOutput) + 1 PROVE FALSE
    <3>1. Len(screenOutput) + 1 \in missing /\ Len(screenOutput) + 1 < msg.n
        BY <1>8, <2>1, <2>2
    <3>2. PICK i \in 1..Len(Pipe) : Pipe[i] = Text(Len(screenOutput) + 1)
        BY <1>8, <3>1
    <3>3. Pipe[i].type = "text" /\ Pipe[i].n = Len(screenOutput) + 1
        BY <1>9, <3>2
    <3>4. i # 1
        BY <1>3, <2>2, <3>3
    <3>5. msg.n < Pipe[i].n
        BY <1>3, <1>4, <1>8, <1>13, <3>3, <3>4
    <3> QED
        BY <1>8, <2>1, <3>1, <3>3, <3>5
  <2> QED
      BY <1>8, <2>1, <2>2
<1>14. ASSUME msg.type = "text", screenOutput' = Append(screenOutput, msg.n)
       PROVE  TextsAreOnTheirWay'
  <2>1. Len(screenOutput') = Len(screenOutput) + 1 /\ msg.n = Len(screenOutput) + 1
        /\ msg.n <= texts
    <3>1. screenOutput \in Seq(Nat) /\ msg.n \in Nat
        BY <1>8, <1>13, <1>14 DEF TypeOK
    <3> QED
        BY <1>13, <1>14, <3>1, AppendProperties
  <2> DEFINE left == (Len(screenOutput) + 2)..texts
  <2>2. ASSUME NEW n \in left PROVE \E i \in 1..Len(Pipe') : Pipe'[i] = Text(n)
    <3>1. n \in missing /\ n # msg.n
        BY <1>8, <2>1
    <3>2. PICK i \in 1..Len(Pipe) : Pipe[i] = Text(n)
        BY <1>8, <3>1
    <3>3. i # 1
        BY <1>3, <1>9, <3>1, <3>2
    <3>4. i - 1 \in 1..Len(Pipe') /\ (i - 1) + 1 = i
        BY <1>3, <3>3
    <3> QED
        BY <1>3, <3>2, <3>4
  <2>3. ASSUME NEW i \in 1..Len(Pipe'), Pipe'[i].type = "text"
        PROVE  Pipe'[i].n \in left
    <3>1. i + 1 \in 1..Len(Pipe) /\ Pipe[i + 1] = Pipe'[i] /\ 1 < i + 1
        BY <1>3, <1>4
    <3>2. Pipe[i + 1].n \in missing /\ msg.n < Pipe[i + 1].n
        BY <1>3, <1>4, <1>8, <1>14, <2>3, <3>1
    <3> QED
        BY <1>8, <2>1, <3>1, <3>2
  <2>4. ASSUME NEW i \in 1..Len(Pipe'), NEW j \in 1..Len(Pipe'), i < j,
               Pipe'[i].type = "text", Pipe'[j].type = "text"
        PROVE  Pipe'[i].n < Pipe'[j].n
      BY <1>3, <1>4, <1>8, <1>11, <2>4
  <2>5. left = (Len(screenOutput') + 1)..texts' /\ Len(screenOutput') <= texts'
      BY <1>1, <1>8, <2>1
  <2> QED
      BY <2>2, <2>3, <2>4, <2>5 DEF TextsAreOnTheirWay
<1> QED
    BY <1>1, <1>2, <1>3, <1>5, <1>6, <1>7, <1>10, <1>12, <1>13, <1>14 DEF msg

LEMMA InvCollect ==
    ASSUME TypeOK, Inv, Collect
    PROVE  Inv'
<1>1. /\ Receive({"text", "other"}) /\ hpc' = hpc /\ commandIndex' = commandIndex
      /\ verdict' = verdict
      /\ Head(output).type = "text" => screenOutput' = Append(screenOutput, Head(output).n)
      /\ Head(output).type # "text" => screenOutput' = screenOutput
    BY DEF Collect
<1>2. /\ hpc = "select" /\ ipc' = ipc /\ toSend' = toSend /\ reads' = reads /\ texts' = texts
      /\ input' = <<>> /\ input = <<>> /\ answers' = <<>> /\ Len(reads) = commandIndex
      /\ CommandsAreReadInOrder' /\ RequestsAreLast' /\ TextsAreOnTheirWay'
    BY <1>1, Received
<1>3. verdict # "success"
    BY <1>2 DEF Inv, EndsAreFinal
<1>4. NoneIsLeftOver'
    BY <1>1, <1>2 DEF NoneIsLeftOver, Given, Awaits
<1> QED
    BY <1>1, <1>2, <1>3, <1>4
       DEF Inv, CommandsAreCounted, EndsAreFinal, AnswersMeetTheirRequest, SuccessHasAReason

LEMMA InvOnRead ==
    ASSUME TypeOK, Inv, OnRead
    PROVE  Inv'
<1>1. Receive({"input", "char"}) /\ screenOutput' = screenOutput
    BY DEF OnRead, Judge
<1>2. /\ hpc = "select" /\ ipc = "read" /\ ipc' = ipc /\ toSend = <<>> /\ toSend' = toSend
      /\ output' = <<>> /\ reads' = reads /\ texts' = texts
      /\ input' = <<>> /\ input = <<>> /\ answers' = <<>> /\ Len(reads) = commandIndex
      /\ CommandsAreReadInOrder' /\ RequestsAreLast' /\ TextsAreOnTheirWay'
      /\ Len(screenOutput) = texts
    BY <1>1, Received
<1>3. /\ commandIndex \in Nat /\ commandIndex <= NCommands /\ NCommands \in Nat
      /\ Len(input') = 0 /\ Len(answers') = 0
    BY <1>2, GameTestAssumption DEF Inv, CommandsAreCounted, TypeOK
<1>4. CASE commandIndex < NCommands
  <2>1. /\ hpc' = "sendInput" /\ commandIndex' = commandIndex + 1 /\ verdict' = verdict
        /\ verdict # "success"
      BY <1>2, <1>4 DEF OnRead, Inv, EndsAreFinal
  <2>2. NoneIsLeftOver'
      BY <1>2, <1>3, <2>1 DEF NoneIsLeftOver, Given, Awaits
  <2>3. CommandsAreCounted'
    <3>1. commandIndex' = Len(reads') + Len(input') + 1 /\ commandIndex' <= NCommands
        BY <1>2, <1>3, <1>4, <2>1
    <3> QED
        BY <1>2, <2>1, <3>1 DEF CommandsAreCounted
  <2> QED
      BY <1>2, <2>1, <2>2, <2>3 DEF Inv, EndsAreFinal, AnswersMeetTheirRequest, SuccessHasAReason
<1>5. CASE ~(commandIndex < NCommands)
  <2>1. hpc' = "returned" /\ commandIndex' = commandIndex /\ verdict' = "success"
        /\ commandIndex = NCommands
      BY <1>3, <1>5 DEF OnRead, Judge
  <2>2. NoneIsLeftOver'
      BY <1>2, <1>3, <2>1 DEF NoneIsLeftOver, Given, Awaits
  <2>3. CommandsAreCounted'
    <3>1. commandIndex' = Len(reads') + Len(input') + 0 /\ commandIndex' <= NCommands
        BY <1>2, <1>3, <2>1
    <3> QED
        BY <1>2, <2>1, <3>1 DEF CommandsAreCounted
  <2> QED
      BY <1>1, <1>2, <2>1, <2>2, <2>3
         DEF Inv, EndsAreFinal, AnswersMeetTheirRequest, SuccessHasAReason
<1> QED
    BY <1>4, <1>5

LEMMA InvOnSaveRestore ==
    ASSUME TypeOK, Inv, OnSaveRestore
    PROVE  Inv'
<1>1. /\ Receive({"save", "restore"}) /\ hpc' = "sendAnswer" /\ screenOutput' = screenOutput
      /\ commandIndex' = commandIndex /\ verdict' = verdict
    BY DEF OnSaveRestore
<1>2. /\ hpc = "select" /\ ipc = "saveRestore" /\ ipc' = ipc /\ toSend = <<>>
      /\ toSend' = toSend /\ output' = <<>> /\ reads' = reads /\ texts' = texts
      /\ input' = <<>> /\ input = <<>> /\ answers' = <<>> /\ Len(reads) = commandIndex
      /\ CommandsAreReadInOrder' /\ RequestsAreLast' /\ TextsAreOnTheirWay'
    BY <1>1, Received
<1>3. verdict # "success" /\ Len(input') = 0 /\ Len(answers') = 0
    BY <1>2 DEF Inv, EndsAreFinal
<1>4. NoneIsLeftOver'
    BY <1>1, <1>2, <1>3 DEF NoneIsLeftOver, Given, Awaits
<1>5. CommandsAreCounted'
    BY <1>1, <1>2 DEF Inv, CommandsAreCounted
<1> QED
    BY <1>1, <1>2, <1>3, <1>4, <1>5
       DEF Inv, EndsAreFinal, AnswersMeetTheirRequest, SuccessHasAReason

\* The harness hands over what was asked for.
LEMMA InvSendInput ==
    ASSUME TypeOK, Inv, SendInput
    PROVE  Inv'
<1>1. /\ hpc = "sendInput" /\ hpc' = "select" /\ input' = Append(input, commandIndex)
      /\ ipc' = ipc /\ toSend' = toSend /\ reads' = reads /\ texts' = texts
      /\ output' = output /\ answers' = answers /\ commandIndex' = commandIndex
      /\ screenOutput' = screenOutput /\ verdict' = verdict
    BY DEF SendInput, runVars
<1>2. ipc = "read" /\ toSend = <<>> /\ output = <<>> /\ input = <<>> /\ answers = <<>>
    BY <1>1, GivenMeansAwaited
<1>3. input' = <<commandIndex>> /\ Len(input') = 1 /\ input'[1] = commandIndex
    BY <1>1, <1>2
<1>4. Pipe' = Pipe
    BY <1>1 DEF Pipe
<1>5. RequestsAreLast' /\ TextsAreOnTheirWay'
    BY <1>1, <1>4, TextsStay DEF Inv, RequestsAreLast
<1>6. CommandsAreCounted'
  <2>1. Len(reads) \in Nat /\ commandIndex = Len(reads) + 0 + 1 /\ commandIndex <= NCommands
      BY <1>1, <1>2 DEF Inv, CommandsAreCounted, TypeOK
  <2>2. commandIndex' = Len(reads') + Len(input') + 0
      BY <1>1, <1>3, <2>1
  <2> QED
      BY <1>1, <1>3, <2>1, <2>2 DEF CommandsAreCounted
<1>7. verdict # "success"
    BY <1>1 DEF Inv, EndsAreFinal
<1>8. NoneIsLeftOver'
    BY <1>1, <1>2, <1>3 DEF NoneIsLeftOver, Given, Awaits
<1>9. CommandsAreReadInOrder'
    BY <1>1 DEF Inv, AnswersMeetTheirRequest, CommandsAreReadInOrder
<1> QED
    BY <1>1, <1>3, <1>5, <1>6, <1>7, <1>8, <1>9
       DEF Inv, EndsAreFinal, AnswersMeetTheirRequest, SuccessHasAReason

LEMMA InvSendAnswer ==
    ASSUME TypeOK, Inv, SendAnswer
    PROVE  Inv'
<1>1. /\ hpc = "sendAnswer" /\ hpc' = "select" /\ answers' = Append(answers, FALSE)
      /\ ipc' = ipc /\ toSend' = toSend /\ reads' = reads /\ texts' = texts
      /\ output' = output /\ input' = input /\ commandIndex' = commandIndex
      /\ screenOutput' = screenOutput /\ verdict' = verdict
    BY DEF SendAnswer, runVars
<1>2. ipc = "saveRestore" /\ toSend = <<>> /\ output = <<>> /\ input = <<>> /\ answers = <<>>
    BY <1>1, GivenMeansAwaited
<1>3. Len(answers') = 1 /\ Len(input') = 0
    BY <1>1, <1>2
<1>4. Pipe' = Pipe
    BY <1>1 DEF Pipe
<1>5. RequestsAreLast' /\ TextsAreOnTheirWay'
    BY <1>1, <1>4, TextsStay DEF Inv, RequestsAreLast
<1>6. CommandsAreCounted'
    BY <1>1 DEF Inv, CommandsAreCounted
<1>7. verdict # "success"
    BY <1>1 DEF Inv, EndsAreFinal
<1>8. NoneIsLeftOver'
    BY <1>1, <1>2, <1>3 DEF NoneIsLeftOver, Given, Awaits
<1>9. CommandsAreReadInOrder' /\ Len(reads') = commandIndex'
  <2>1. Len(reads) \in Nat /\ commandIndex = Len(reads) + 0 + 0
      BY <1>1, <1>2 DEF Inv, CommandsAreCounted, TypeOK
  <2> QED
      BY <1>1, <2>1 DEF Inv, AnswersMeetTheirRequest, CommandsAreReadInOrder
<1> QED
    BY <1>1, <1>5, <1>6, <1>7, <1>8, <1>9
       DEF Inv, EndsAreFinal, AnswersMeetTheirRequest, SuccessHasAReason

\* The test ends with a message of the story.
LEMMA InvEnds ==
    ASSUME TypeOK, Inv, OnQuitOrRestart \/ OnRuntimeError
    PROVE  Inv'
<1>1. /\ hpc' = "returned" /\ commandIndex' = commandIndex /\ screenOutput' = screenOutput
      /\ \/ Receive({"quit", "restart"})
         \/ Receive({"error"}) /\ verdict' = "failure"
    BY DEF OnQuitOrRestart, OnRuntimeError, Judge
<1>2. /\ hpc = "select" /\ ipc' = ipc /\ toSend' = toSend /\ reads' = reads /\ texts' = texts
      /\ input' = <<>> /\ input = <<>> /\ answers' = <<>> /\ Len(reads) = commandIndex
      /\ CommandsAreReadInOrder' /\ RequestsAreLast' /\ TextsAreOnTheirWay'
      /\ (verdict' = "failure" \/ ipc \in {"halt", "gone"})
    BY <1>1, Received
<1>3. Len(input') = 0 /\ Len(answers') = 0
    BY <1>2
<1>4. NoneIsLeftOver'
    BY <1>1, <1>2, <1>3 DEF NoneIsLeftOver, Given, Awaits
<1>5. CommandsAreCounted'
    BY <1>1, <1>2 DEF Inv, CommandsAreCounted
<1> QED
    BY <1>1, <1>2, <1>4, <1>5 DEF Inv, EndsAreFinal, AnswersMeetTheirRequest, SuccessHasAReason

\* The test ends with the goroutine, or with its time.
LEMMA InvDone ==
    ASSUME TypeOK, Inv, OnDone \/ OnTimeout
    PROVE  Inv'
<1>1. /\ hpc = "select" /\ hpc' = "returned" /\ commandIndex' = commandIndex
      /\ screenOutput' = screenOutput /\ toSend' = toSend /\ reads' = reads /\ texts' = texts
      /\ output' = output /\ input' = input /\ answers' = answers
      /\ \/ ipc = "halt" /\ ipc' = "gone"
         \/ ipc' = ipc /\ verdict' = "failure"
    BY DEF OnDone, OnTimeout, Judge, channels, runVars
<1>2. Pipe' = Pipe
    BY <1>1 DEF Pipe
<1>3. RequestsAreLast' /\ TextsAreOnTheirWay'
    BY <1>1, <1>2, TextsStay DEF Inv, RequestsAreLast
<1>4. CommandsAreCounted' /\ EndsAreFinal' /\ SuccessHasAReason'
    BY <1>1 DEF Inv, CommandsAreCounted, EndsAreFinal, SuccessHasAReason
<1>5. NoneIsLeftOver'
    BY <1>1 DEF Inv, AnswersMeetTheirRequest, NoneIsLeftOver, Given, Awaits
<1> QED
    BY <1>1, <1>3, <1>4, <1>5 DEF Inv, AnswersMeetTheirRequest, CommandsAreReadInOrder

LEMMA InvInductive == TypeOK /\ Inv /\ [Next]_vars => Inv'
<1> SUFFICES ASSUME TypeOK, Inv, [Next]_vars PROVE Inv'
    OBVIOUS
<1>1. CASE Returned \/ UNCHANGED vars
  <2> USE DEF Returned, vars, runVars, channels, harnessVars
  <2>1. Pipe' = Pipe
      BY <1>1 DEF Pipe
  <2>2. RequestsAreLast' /\ TextsAreOnTheirWay'
      BY <1>1, <2>1, TextsStay DEF Inv, RequestsAreLast
  <2>3. CommandsAreCounted' /\ EndsAreFinal' /\ SuccessHasAReason'
      BY <1>1 DEF Inv, CommandsAreCounted, EndsAreFinal, SuccessHasAReason
  <2>4. AnswersMeetTheirRequest'
      BY <1>1 DEF Inv, AnswersMeetTheirRequest, NoneIsLeftOver, Given, Awaits,
                  CommandsAreReadInOrder
  <2> QED
      BY <2>2, <2>3, <2>4 DEF Inv
<1> QED
    BY <1>1, InvIssue, InvSendOutput, InvReceiveInput, InvReceiveAnswer, InvLoadStory,
       InvCollect, InvOnRead, InvOnSaveRestore, InvSendInput, InvSendAnswer, InvEnds, InvDone
       DEF Next, Run, Harness

LEMMA Initially == Init => Inv
<1> SUFFICES ASSUME Init PROVE Inv
    OBVIOUS
<1>1. Pipe = <<>> /\ Len(Pipe) = 0
    BY DEF Init, Pipe
<1>2. RequestsAreLast /\ TextsAreOnTheirWay
    BY <1>1 DEF Init, RequestsAreLast, TextsAreOnTheirWay
<1>3. CommandsAreCounted /\ EndsAreFinal /\ SuccessHasAReason
    BY GameTestAssumption DEF Init, CommandsAreCounted, EndsAreFinal, SuccessHasAReason
<1>4. AnswersMeetTheirRequest
  <2>1. CommandsAreReadInOrder
      BY DEF Init, CommandsAreReadInOrder
  <2>2. NoneIsLeftOver
      BY DEF Init, NoneIsLeftOver, Given, Awaits
  <2> QED
      BY <2>1, <2>2 DEF Init, AnswersMeetTheirRequest
<1> QED
    BY <1>2, <1>3, <1>4 DEF Inv

LEMMA InvHolds == Spec => []Inv
BY Initially, InvInductive, TypeCorrect, PTL DEF Spec

-----------------------------------------------------------------------------
\* No command and no answer is left in a buffer for a request it was not given to, and the
\* story reads the commands one by one, whatever the sizes of the buffers.
THEOREM AnswersAlwaysMeetTheirRequest == Spec => []AnswersMeetTheirRequest
<1>1. Inv => AnswersMeetTheirRequest
    BY DEF Inv
<1> QED
    BY <1>1, InvHolds, PTL

\* A story that passes has stopped, or has read all commands and asked for one more, and
\* then all it has printed is in the report.
THEOREM SuccessAlwaysHasAReason == Spec => []SuccessHasAReason
<1>1. Inv => SuccessHasAReason
    BY DEF Inv
<1> QED
    BY <1>1, InvHolds, PTL
===============================================================================

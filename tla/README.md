# Models and proofs for the Z-machine interpreter

The repository is a Z-machine interpreter in Go with a terminal user interface
(Bubble Tea). This directory holds TLA+ modules of the parts of it that are hard
to test, the TLC configurations that check them on small instances, and proofs
that TLAPS checks for every value of the constants. Line numbers in this file and
in the modules are those of the Go sources.

## 1. Inventory

| Component | State | Operations | Interacts through |
|---|---|---|---|
| Interpreter (`zmachine/zmachine.go`, `opcode.go`, `callstack.go`) | story memory, call stack, screen model, streams, undo states, frame tag counter | `Run`, `StepMachine` (one instruction), `call`, `retValue`, `read`, `appendText`, ... | sends on `outputChannel`, receives on `inputChannel` and `saveRestoreChannel`, all unbuffered |
| Session user interface (`main.go`) | `runStoryModel`: app state, terminators, input box, window texts, its copy of the screen model, the channels | `Update` (one message at a time), `View`, `waitForInterpreter` | commands of Bubble Tea; reads the machine's memory and call stack directly when it saves |
| Saving (`savestates.go`, `main.go` 272-309) | undo states, the save file | `captureState`, `applyState`, `serialize`, `deserializeSaveState` | the file system, `saveRestoreChannel` |
| Object table (`zobject`) | parent, sibling and child links, attributes, properties | `GetObject`, `SetParent/SetSibling/SetChild`, attributes; `RemoveObject`, `MoveObject` in `zmachine.go` | story memory |
| Upper window (`screen.go`, `main.go` 162-265, 324-439, 521-595) | screen model and its copy, rows of text and styles, size of the terminal | windowing instructions, resize, drawing | screen model messages behind text messages |
| Test harness (`cmd/gametest`) | list of commands, collected text, result | `runGameTest` | buffered channels, a timer, a channel for the end of the goroutine |
| Instructions on memory (`opcode.go`, `zmachine.go`, `zobject/property.go`, `ztable`, `zstring`, `dictionary`, `zcore`) | story memory, routine stack and locals, memory streams, undo states | decoding, operands, branches, arithmetic, variables; `read`, `Tokenise`; attributes and properties; tables; `appendText` and OUTPUT_STREAM; `Encode`, `Decode` | story memory, which all of them share |
| Story selection (`selectstoryui`) | list, downloads under way, cache directory | Bubble Tea `Update`, `downloadStoryList`, `downloadStory` | HTTP, files shared by all runs of the program, hands a story to a session |
| Scraper (`cmd/scraper`) | none | sequential downloads | HTTP, files |

What is hard, and what makes each part correct:

* *Session.* Two goroutines and any number of listening commands share three
  unbuffered channels. `Update` sends on two of them from inside a handler, so a
  wrong guess about what the interpreter is doing freezes the program. Each
  handler must start exactly one listener. A save copies memory the interpreter
  owns. A restart abandons a goroutine in the middle of a send. Correct means: the
  prompt is that of the read under way; no send in `Update` blocks for good; one
  listener; the copy is a snapshot; the abandoned machine is inert; every request
  is served.
* *Machine.* A program counter may stand in the middle of an instruction (at its
  store or branch byte) in every frame but the current one and in every saved
  state. Correct means that frames and saved states agree on that over calls,
  throws, undo, save and restore, and that CATCH tags identify frames.
* *Object tree.* An operation works on copies of table entries which its own
  writes make stale. Correct means that the links always spell out lists of
  children, and that the lists are the promised ones, in order.
* *Upper window.* The interpreter and the interface each have a screen model and
  the terminal may be resized between two messages. Correct means that text lands
  where it was printed and that no row or column that is drawn is missing.
* *Harness.* `select` has a choice when a story ends. Correct means that commands
  go to the reads that ask for them and that the verdict tells what happened.
* *Instructions.* A byte too many or too few, an operand evaluated once more, a
  table walked with the wrong size: each shows up instructions later, somewhere
  else in memory. Correct means that an instruction writes nowhere but into its
  table, that the next instruction is one the story was assembled from, that the
  stack holds what is left of it, and that words, texts, properties, tables and
  saves are what went in.
* *Story selection.* Two downloads may run at once, over a cache they share with
  each other and with earlier runs; answers may be errors, pages that are no story,
  or come late. Correct means that what is played was asked for, that the cache
  holds what was sent, and that waiting ends.

The most important hazards are listed at their line in `PROJECT.json` with the
properties that would notice them.

## 2. Modules

| Module | Models | Uses |
|---|---|---|
| `Session` | interpreter goroutine, pump, event loop, player, save file | |
| `Console` | abstract: what the player is promised to see | |
| `SessionConsole` | the refinement mapping, `ImplementsConsole`, and its invariant | `Session`, instance of `Console` |
| `MCSession` | constants for the Session runs | `SessionConsole` |
| `SessionProofs` | theorems about `Session`; it implements `Console` | `SessionConsole`, TLAPS |
| `ObjectTree` | REMOVE_OBJ and INSERT_OBJ on the linked table | |
| `Forest` | abstract: sets of children, each with a total order | |
| `ObjectForest` | the refinement mapping, `ImplementsForest`, and its invariant | `ObjectTree`, instance of `Forest` |
| `ObjectTreeProofs` | theorems about `ObjectTree`; it implements `Forest` | `ObjectForest`, TLAPS |
| `Machine` | call stack, CATCH/THROW, undo, save and restore | |
| `MachineProofs` | theorems about `Machine` | `Machine`, TLAPS |
| `UpperWindow`, `MCUpperWindow` | screen model, rows, resizing, drawing | |
| `UpperWindowProofs` | theorems about `UpperWindow` | `UpperWindow`, TLAPS |
| `GameTest` | the harness and the goroutine it runs | |
| `GameTestProofs` | theorems about `GameTest` | `GameTest`, TLAPS |
| `Memory` | bytes, words and slices of `zcore.Core`; 16-bit numbers | |
| `ZString` | `Encode`, `Decode`, alphabets, abbreviations, `FileLength` | `Memory` |
| `TextBuffer` | the buffers of READ and TOKENISE, the dictionary | `ZString` |
| `PropertyTable` | attributes and property tables | `Memory` |
| `Ztable` | SCAN_TABLE, COPY_TABLE, PRINT_TABLE | `Memory` |
| `Opcode` | `ParseOpcode`, operands, variables, stack, branches | `Memory` |
| `Execution` | what the computing instructions do to a machine | `Opcode` |
| `SaveFormat` | `serialize`, `deserializeSaveState` | |
| `SaveFormatProofs` | saves come back, beginnings of saves do not | `SaveFormat`, TLAPS |
| `Instructions` | the machine at work: one action per instruction | all of the above |
| `Promises` | the properties of `Instructions` | `Instructions` |
| `InstructionsProofs` | theorems about streams, tables, saves, the stack, arithmetic, objects and what is written where | `Promises`, `SaveFormatProofs` |
| `MCInstructions` | an assembler and twelve small stories | `Promises` |
| `SelectStory` | the story picker, its downloads, its cache | |
| `SelectStoryProofs` | theorems about `SelectStory` | `SelectStory`, TLAPS |

Definitions whose comment starts with "Faulty variant" are what the action above
or below them would be with a plausible mistake in it. No specification uses
them: put in place of the action they make the property named in `PROJECT.json`
fail, which shows that the property looks at the code.

### Session

A machine is numbered by its generation; `gen` is the one whose channels
`runStoryModel` holds. `out[g]` are the messages its current instruction still
has to send, `ipc[g]` what it does then (go on, wait for a line, a character or a
response, or halt). `armed[g]` counts the `waitForInterpreter` commands blocked on
its channel; `Pump` takes a message for one of them and puts it in `inbox`, the
messages on their way to `Update`. `ui` says where the event loop is: at the
select, copying the stack, writing the file, or blocked in one of the two sends.
`Update` on one message is one action (`On...`), except where it can block or the
interpreter could be between two of its accesses: a save is `OnSave`, `CopyStack`,
`WriteFile`, `Respond`, a key that answers is `Key...` and `SendAnswer`. A send
on an unbuffered channel is one step with its receive.

`mem` is one variable for all machines, because `LoadCore` keeps the slice it is
given and a restart loads the same slice. `Compute` stands for all instructions
that send nothing; it may change memory and stack in any way. The lower window is
a sequence of entries: texts, and lines of the player.

Bubble Tea is external: it takes messages one at a time, in any order when several
wait, runs each command in a goroutine, and ends on `tea.QuitMsg`.

### Machine

A program counter is reduced to what the frame reads there next, an instruction or a
result byte (`at`). `Call` leaves the caller of a function at its store byte, and
`Returned` has it read. `SaveUndo` captures before that byte is read and `RestoreUndo`,
which looks the frame up again, reads it in the restored stack. `Save` and `Restore` are
one step, as the interpreter is blocked meanwhile (that is `Session`'s subject); their
result is a branch before version 5, and that branch may return from the routine
(`Branched`), whose error nobody looks at (`FetchFails`). `LoadRom` is a restart, or the
same story started another time with the same save file.

### ObjectTree

`Call`, `Unlink`, `Walk`, `Clear` and `Attach` are the accesses to the table in
the order of the code: `RemoveObject` reads the object's entry (`saved`), unlinks
it from its parent or, walking, from the sibling before it, clears its links;
`MoveObject` then reads the destination's child again and links it in.
Destinations are not restricted, as the code does not check that an object is not
put inside itself. `done` is a history variable: the lists as the last operation
left them, for the refinement.

### UpperWindow

`z` is the interpreter's screen model, `m` the interface's, `pipe` what was sent
and not yet handled: by `OneListener` of `Session` at most one message is on its
way, so the interpreter may be one instruction ahead. A row is a sequence of bytes
and a number of styles. `View` follows each `Update`, as Bubble Tea does it, and
`crashed` says where the interface panicked.

### GameTest

The goroutine sends into `output`, a buffered channel, and receives from `input`
and `answers`; the harness is at its `select` or at one of its two sends. `OnDone`
is the rendezvous on `done`. There is no clock: `OnTimeout` may come at any time.

### Instructions

The modules `Memory` to `SaveFormat` are the code's functions as operators: a
memory is a function from addresses to bytes, a machine (`Now`) a record of what
`StepMachine` works on. `Instructions` is the state machine over them. A story is
a record of memory, header and what its program does; its `program` says which
instructions it executes:

* `"code"`: the instruction at `pc` is fetched, decoded and executed. Which of the
  actions `ComputeOp` to `LiteralOp` is enabled depends on the bytes alone. A story
  carries, as history, where its instructions start and where they lead.
* `"text"`: READ with a line of the player, TOKENISE, the byte that tells a version
  5 READ what is in the buffer already, and PRINT_ADDR.
* `"objects"`: PUT_PROP, SET_ATTR, CLEAR_ATTR. The instructions that only read
  (GET_PROP, GET_PROP_LEN, GET_NEXT_PROP, TEST_ATTR) are asked by the properties in
  every state, so they need no action.
* `"tables"`: COPY_TABLE, SCAN_TABLE, PRINT_TABLE.
* `"streams"`: texts, OUTPUT_STREAM, SAVE_UNDO and RESTORE_UNDO.
* `"save"`: export of a state, loss of the file's end, and RESTORE from what there is: a
  file, an empty one, or none.

Except in `"code"`, operands are constants. `last` and `promise` are history: what
was executed, and what was put, printed or saved before. `Promises` states the
properties over them and over the story as it was assembled (its words with their
addresses, its strings, the layout of its objects), not over the code's operators.
Where the code does not keep a promise for some operand, the property leaves that
operand out and its comment says so.

A panic the code runs into, or an error it stops with, is the variable `halted`. LOADB and
STOREB panic at an address outside of memory. A LOADW or STOREW of a word that is not in
memory as a whole is left out: whether Go finds its bytes depends on the capacity of the
slice, not on its length. VERIFY panics if memory ends before the length in the header.
DIV and MOD by zero stop the machine (`HasValue`), and a shift by -32768 panics, as -32768
is its own negation in 16 bits (zmachine.go 1234, 1246). A program of kind `"code"` runs
as long as `pc` is in it (`Running`). Everywhere else an address outside of memory is an
error of TLC, so that a run also shows that no instruction of these stories leaves memory.

The player's lines are of characters below 256 (`Lines`), in one byte or two, whose
capitals READ makes small (`ToLower`); what it should make of a line is data of the story
(`lower`), so that `WordsAreFound` does not rest on that operator. The code keeps three
numbers of a dictionary from when it parsed it (dictionary.go 33-38), but the separators
and the words are slices of memory (35, 49), so the model reads them from memory as it is;
the text and parse buffers of a story do not reach over the three numbers.

### SelectStory

A command of Bubble Tea is a job with the step it is at: looking at the cache,
fetching, opening the file (which empties it), writing, and its answer on the way
to `Update`. Jobs take their steps in any order. An answer or a file has a kind:
the whole of what was asked for, a page that is something else, a part, nothing.
`Enter` starts a job also while another is under way, because the list takes keys
in every state. `Start` is the next run of the program, in which any files may have
become older than a week. Where `LoadRom` may panic, on bytes that are no story, the
step may go either way. `faults` records what the outside did wrong so far.

## 3. Runs

| Run | Question | Instance |
|---|---|---|
| `session_turns` | turn taking, listeners, restarts, saves (8 invariants) | V5, 2 memories, 2 stacks, 2 machines, 1 character in the box |
| `session_console` | refinement of `Console` | V3, 2 machines, 2 texts, 1 character |
| `session_live` | is every request served, does every answer arrive | V5, 2 machines, fair |
| `session_restart` | does a restart reload the story (no) | V5, 2 memories |
| `tree` | sound lists, the promised lists, termination | 4 objects, every sound table is an initial state, fair |
| `machine_frames` | frames and saved states in step, tags | V3 and V5, depth 3, 1 undo state, 3 catches, 1 restart |
| `machine_tags` | are tags unique over a restart (no) | V5, depth 3, 3 catches |
| `window_rows` | rows, cursor, causes of crashes | V3 and V5, 3 sizes, 3 texts, heights 0 to 2 |
| `gametest_commands` | commands, verdicts, termination | 3 commands, buffers of 3 and 2, fair |
| `gametest_verdict` | does a runtime error fail the test (no) | 2 commands |
| `instructions` | what a story may rely on (7 invariants), and what an instruction may do (4 action properties) | 12 stories of versions 1 to 5, 1 to 5 instructions each |
| `select` | the story played, the cache, causes of crashes, waiting | 2 stories, 2 downloads, 2 runs, fair |

Why these bounds are enough to meet the interesting cases:

* Two machines show everything a restart can do to its predecessor; the third is to the
  second what the second is to the first, and the theorems hold for any number. Memory and
  stack are only compared for equality with earlier copies, so two values do. An
  instruction sends at most two messages; two texts are enough to lose, double or swap
  one.
* Four objects have a parent with three children, so that the walk takes a step
  before it finds its object, and still nested parents. Every sound
  table of four objects (1457 of them) is an initial state, so no shape depends on
  being reachable from another.
* The tag counter wraps after three catches instead of 65536; depth 3 has a
  frame, its caller and one between for THROW to unwind.
* A row of two or three columns has an overlong text, one with a newline and a
  two-byte character in it; the heights include one that leaves no room for the lower
  window.
* Buffers of the harness are filled by stories that print without reading.
* The two programs of kind `"code"` have every instruction of module `Execution`,
  each form of opcode, each type of operand, branches of both lengths in both
  directions and out of the routine, and begin at any of their instructions with four
  sets of locals and three stacks, one of them empty. Five instructions are enough
  for one to push, one to refer to the stack in place and one to take what is left.
  Values include -32768, -1, 65535 and 0; shifts go either way and by -32768, and one of
  the two headers gives more bytes than there are, for VERIFY.
* The lines typed include an empty one, one with only separators around words, one longer
  than the buffer, more words than the parse buffer takes, capitals of one byte and of
  two, a small letter of two bytes, and words that share their encoded beginning. Two
  lines follow one another, so that leftovers of the first are met by the second.
* Property tables have both forms of size, objects without a name, and neighbours
  whose tables touch. Copies overlap either way by one byte or more. Tables are scanned by
  bytes and by words, also with forms above 255, of which the code looks at eight bits.
* Bytes of a save file have two values (`Base`), so that two-byte counts wrap at
  four: one of the states has four frames and one four values on its stack. A file loses
  its end at every place, also all of it, and a RESTORE may come before the first save.
* Two stories are enough to select one over the other; a second run meets every
  file the first may have left.

Deadlock is checked, except in the `Machine` runs, where a story may quit or
fail, in the `UpperWindow` run, where the interface may crash, and in `instructions`
and `select`, where stories and runs come to their end. `Session` and
`GameTest` stutter explicitly when the program has exited or the harness has
returned.

**Fairness.** `Session`: weak fairness of the pump, of the handlers and of the
steps inside a handler: goroutines that can run do, and Bubble Tea takes waiting
messages. Each disjunct is one weak fairness condition although it ranges over
messages: of the current machine there is at most one in flight. Nothing is
assumed of the player or of the story, which may compute for ever, so no property
says that a prompt is answered or that a story ends. `ObjectTree`: an operation
that has begun is carried on. `GameTest`: weak fairness of both goroutines, and
strong fairness of the timer, because a `select` is not always at its choice and
Go picks among ready cases at random. `SelectStory`: weak fairness of each job and of
the delivery of its message: requests have timeouts (10 and 60 seconds), and Bubble
Tea takes messages. Nothing is assumed of the player, the archive's answers or the
file system.

## 4. What the violated properties show

* `RestartReloadsTheStory` (main.go 368): the restarted story starts with the
  memory the last run left behind.
* `TagsAreUnique` (zmachine.go 770): CATCH, CALL, SAVE, start again, RESTORE,
  CATCH: two frames carry tag 1 and THROW stops at the wrong one.
* `RuntimeErrorsFailTheTest` (cmd/gametest/main.go 16): when the interpreter
  goroutine ends with its last messages in the buffer, the harness may pass a story
  that reported an error.

Met while modelling. No run refutes these, because nothing in the repository
promises otherwise or because a property already names them as its exception; the
models take each of these steps unless it says otherwise.

* Interface: any split in a V3 story crashes it, as it assigns to rows it has not made
  (main.go 329); SET_CURSOR with column 0 and two-byte characters do too (zmachine.go
  1504, main.go 562); `View` panics when the split leaves fewer than two lines
  (main.go 582); a resize adds the rows of the split again (main.go 170). A sound effect
  ends the program, as `waitForInterpreter` has no case for it (main.go 625). The
  failure of a save may destroy the older one (main.go 281). Undo states are never
  dropped (savestates.go 69).
* Line input: a line is cut one character too late (zmachine.go 580); from version 5 on
  READ counts only the new characters (592) and may go past the buffer by what was
  there before; bytes 128 to 154 of a UTF-8 character become spaces (583). A negative
  dictionary count panics (dictionary.go 41). READ, SOUND_EFFECT and OUTPUT_STREAM
  evaluate operands more than once (zmachine.go 565, 597, 602, 1550, 1590), which pops
  the stack again if one is on it: not modelled, these operands are constants.
* Texts: `FileLength` has 16 bits, so abbreviations of large stories may be cut
  (core.go 126). Selecting the transcript or the command script panics at the next
  text (zmachine.go 517). Memory streams take the low byte of a Unicode character
  (489), and stay open over RESTORE_UNDO.
* Objects: PUT_PROP of a short property with two size bytes writes over the second of
  them (property.go 49); an object without a name has no first property (126);
  attributes from 64 on test as set (object.go 85).
* PRINT_TABLE prints no more characters than the table's first byte says (ztable.go 10).
* Code: a call of routine 0 leaves its stack operands (zmachine.go 252); CHECK_UNICODE
  of character 0 leaves its store byte, which is executed (1303). SET_TRUE_COLOUR tests
  the foreground for the background (1334): not modelled.
* Arithmetic: a shift by -32768 panics (zmachine.go 1234, 1246).
* Save files: counts of frames, locals and values wrap at two bytes (savestates.go 207). A
  RESTORE from an empty file, which a failed write may leave, is told as a success though
  nothing is restored (main.go 302, zmachine.go 1207, 1220).
* Story selection: a list with another status than 200 crashes the picker (ui.go 258);
  a story's status is not looked at, and an error page is kept for a week (205); a write
  that was cut off is kept as long (214), and a file may be read while it is written
  (189); the story that arrives first is played under the name of the one selected last
  (94).

## 5. Proofs

Each proof module types the variables first, then proves an inductive invariant,
then draws the listed theorems from it. One lemma or step treats each action. Each
inductive invariant was an invariant of the component's run before it was proved.

**`SessionProofs`** uses `MemAssumption`, `StackAssumption`, `BoundsAssumption`.
`PromptMatchesRead` and `UpdateNeverFreezes` are not inductive: whether the
interpreter still waits when a prompt arrives depends on where the request was in
between. `Inv` adds that a message that hands the turn over is the last of its
instruction (`SendsAreOrdered`), that its sender waits while it is in flight
(`SendersWait`), that machines before `gen` are stuck on their Quit and those after
it not yet made (`OtherMachines`), and that nothing is in flight while the player
has the turn (`TurnIsHeld`). From it follow `PromptMatchesRead`,
`UpdateNeverFreezes`, `OneListener`, `ExportIsASnapshot`, `SuccessMeansSaved` and
`AbandonedMachinesAreInert`, for any number of restarts, texts, memories and stacks.
`BoxIsEmptyBetweenLines` is inductive on top of `Inv`: a message that would leave the
input state, with characters in the box, cannot be handled while the player types,
because none but a quit is in flight then.

Its last sections prove that the session implements `Console`. What the console has yet
to show is what the message in flight and the unsent messages carry, in this order.
That a text goes to the right window depends on a screen model sent before it:
`ConsoleInv` says that from the window the interface has, the messages in flight and
then the unsent ones lead to the window the interpreter has, and that each text on the
way comes when its window is the current one (`LeadsTo`). A message carries no more
than one item, and no more than two are unsent, so no recursion over sequences is
needed. Each step of the session is one of the console or a stutter.

**`ObjectTreeProofs`** uses `NAssumption`. The table is sound between
operations only; `Inv` says what it is in between: sound but for the two links of
the object under way (`Without`), the copy up to date, and the object reachable
from where the walk is (`Reaches`, stated with closed sets in place of a recursive
definition). "No circle" is stated so too (`NoCircle`): in every set of objects one
is nobody's next sibling. `RemoveFirst`, `RemoveLater` and `AddFirst` are the
three changes of a list, as lemmas about functions. The refinement of `Forest` reads
the lists off the table with `Reaches`: who is a child of whom, and who comes before
whom. `ForestInv` says what the links spell out while an operation is under way, which
is the lists of before without the object; `TakenOut` is that change of the links, and
`ListsWithout` what it does to both relations. The operation's last step then is the
forest's one step.

**`UpperWindowProofs`** uses the assumption on terminals and splits. Where a text goes
was decided when it was printed, with up to two messages on the way before it.
`ModelsFollow` says that each text was printed with the screen model the interface will
have when it comes, and that the interpreter has the one the interface will have at
last; `RowsCoverTheSplit` that there is a row for each line of the split, and
`NarrowUntilWide` that without characters of more than one byte none is in any row.
`RowsFitTheScreen`, `TextLandsWhereItWasPrinted` and `CrashesHaveACause` follow, for
any terminal, any texts and any number of splits. Rows are treated once for any set of
bytes they are made of: all bytes for their types, the one-byte ones for drawing.
(`TextLandsWhereItWasPrinted` is about the text the interface writes next, while it has
not crashed.) `TypeOK` is proved here and in no configuration.

**`GameTestProofs`** uses the assumption on the buffers. Everything between story and
harness is one sequence, `Pipe`: what is in the buffer and what is still to be sent.
Sending leaves it as it is, an instruction adds to its end, the harness takes from its
front. `Inv` says that nothing comes behind a request and its story waits
(`RequestsAreLast`), that all texts not yet collected are in the pipe and in order
(`TextsAreOnTheirWay`), that the command on its way is the next (`CommandsAreCounted`),
and that a story that is told to have ended stays so (`EndsAreFinal`). From it follow
`AnswersMeetTheirRequest` and `SuccessHasAReason`, for any number of commands.

**`MachineProofs`** uses `MachineAssumption`. `Inv` adds to the two properties
that in a first run tags are counted (`TagsCountCatches`): every tag on the stack,
in an undo state and in the file is a number of a CATCH done.

**`SelectStoryProofs`** uses `SelectStoryAssumption`. Neither `FilesAreWhole` nor
`CrashesHaveACause` is inductive: what gets into the cache, and what a story is loaded
from, was decided when a job read it, several steps before. `Inv` adds that every job
is honest (`JobsAreHonest`: a page, a part or an empty text came with the fault it is
due to), and that the selection is among the stories asked for (`SelectedIsAsked`).
`TypeOK` says which kinds a job may have at which step (`Fits`). The three safety
properties follow for any archive, any number of overlapping downloads, and any number
of runs on one cache directory. `TypeOK` is proved here and in no configuration.

**`SaveFormatProofs`** uses `BaseAssumption` only. `SavesComeBack` is about a file that
shows the save of a state as far as it goes: `deserializeSaveState` makes the state of
it if it is the whole save, and nothing if it ends earlier, at whatever place. It holds
of any state whose numbers fit the types of the code (`SavedStates`), however long its
memory, its stacks and its locals, as long as the counts fit the two bytes they are
written in (`StateCountsFit`), which the code does not check. The argument follows a
frame: `FrameBytesAre` says which byte is at which place, `ReadFrameIs` that reading from
there gives the frame back and goes on behind it, or fails if the file ends before.
That reading never takes one frame for another because the file was cut rests on the
lengths: the first place that is missing belongs to some frame, the frames before it
are read right, and this one fails. `FramesBytesUnfold` and `ReadFramesUnfold` unfold the
two recursive functions, with least elements as below. `DeserializeValue`: what is read
from any file of bytes, whoever wrote it, is a state with numbers of the right width.

**`InstructionsProofs`** proves seven properties of `Promises`, for any stories that meet
these assumptions of `Instructions`:

* `InstructionsAssumption`: a memory is made of bytes, and its addresses are numbers.
* `StreamsAssumption`: a story that opens memory streams gives each a table of its own in
  memory, with room for all that it prints, in characters of one byte. The standard asks
  the same of a story, and the code does not check it.
* `ObjectsAssumption`: each object has an entry and, behind all entries, a property table
  of its own, both in memory, the entry where a word can name it; the table lists the
  properties of the story's layout one behind the other and ends with a zero (`Lists`).
  Objects begin without attributes.
* `TextAssumption`: a story that reads lines has memory of addresses without gaps, lines
  of characters below 256 in UTF-8 (`Lines`), and buffers that lie apart in it: a text
  buffer with room for its size and the zero behind the text (`TextBytes`), where from
  version 5 on the new characters go behind those the story left there, and a parse buffer
  with four bytes for each word (`ParseBytes`). Both lie where words can address them, and
  neither reaches over the size of another or over the three numbers the code keeps of the
  dictionary (`DictionarySizes`). The code checks none of this.
* `TablesAssumption`: the operands of COPY_TABLE, SCAN_TABLE and PRINT_TABLE are of 16
  bits (`CopyOperands`, `ScanOperands`, `PrintOperands`), the tables they name lie in
  memory, below the end of what a word addresses, the fields scanned are not empty (of a
  form, seven bits are their length), and a table printed has rows and columns. The code
  has the same widths, and computes what is skipped modulo 2^16 (`Word` in `PrintTable`).
* `SavesAssumption`: the states a story saves have the numbers the types of the code
  allow.
* `CodeAssumption`: the stacks and locals a program may begin with are of words, and its
  instructions and its 240 globals lie in its memory, the globals below the end of what a
  word addresses, as the code computes their addresses in 16 bits. The longest instruction
  takes 20 bytes (`LongestInstruction`): the opcode, two of types, eight operands of two
  bytes, and a store byte. The code checks none of this when it loads a story.

`TablesHoldTheirText` is about a stream that is closed, but the text got there
instruction by instruction, with other streams opened, filled and closed in between, and
memory put back by RESTORE_UNDO. `StreamsHold` says of every open stream where its
pointer is (behind its text), that its text is in its table unless a RESTORE_UNDO came in
between, that its text is no longer than what the instructions so far can have printed,
and that no two streams share a table. Closing writes the size, which fits a word.

`TablesAreAsTold` needs what the recursive functions of `Ztable` compute. `CopyTableIs`:
a copy is what the first table was before or, if it runs forward over itself, its
beginning repeated (`RemainderRepeats`). `ScanTableIs`: the first field with the value.
`PrintTableIs`: a table that is not cut is printed row by row; character `j` of the table
is at `Place` in the text, which counts one new line for each row that began. These are
inductions over data. The library states induction with an operator as parameter, which
the provers cannot instantiate. The proofs use instead that a set of natural numbers has
a least element (`LeastElement`, from the library's theorem about well-founded
relations): if a function differed from what it should be, it would do so at a least
number, or a last one for a function that counts up, and there its definition says
otherwise. That a recursive function exists at all is proved the same way, with functions
on ever longer intervals.

`OnlyWholeSavesAreRead` needs what the file is, which was decided when it was written and
torn: `SavesHold` says that it shows the save of the promised state as far as it goes, and
that the state of play, which may have been read from such a file, is a state. A torn file
may be torn again, and played on and saved over. With `SavesComeBack` a RESTORE either
gives the promised state back or finds the file shorter than its save, or finds the save
of a story with another dynamic memory. Before the first save there is no file. An empty
file is of those that are shorter (`NothingIsRead`): the code does not look into it and
answers as after a success, so the property, and the theorem, say of it that the game goes
on as it was.

`StackIsBalanced` is about programs of kind `"code"`: any bytes that decode to
instructions, with the operands and in the order the bytes say. The invariant is only that
the stack is a sequence (`StackInv`); everything is in what one step does. `Taken` says
that values came off the top and the rest stayed, `Balanced` what a whole instruction
leaves: `EvaluatedTakes` that evaluating the operands takes as many values as ask for one
(by a least operand at which it would not), `ParseOpcodeIs` that an instruction is decoded
to a sequence of operands, `FirstIs` and `StackOperandsAre` how many of them ask. Then
each kind of instruction has a lemma (`StoresWork`, `AssignWorks`, `PullWorks`,
`StepWorks`, ...), and `WorksBalances` puts them in the form of the property. The values
that are computed play no part in it.

`ArithmeticIsExact` has two halves. `BinaryIsExact` is about any two words for which the
operation has a value (`HasValue`). AND and OR are computed by recursion over the bits:
words are taken as sixteen binary digits, in fours (`WordHasDigits`, `NumberHasDigits`),
`BitAndIs` and `SumOfNumbers` say what the recursion makes of them, and each bit of the
result (`IsSet`) is that of the digits. `SignedIs`, `WordOf` and `SignedBack` go between
words and signed numbers, `QuotientIs` and `ShiftRightIsExact` are about truncation, over
all `PowersOfTwo`. The other half is that the operands are words at all. They come from
the stack, the locals, the globals and the bytes of the instruction, and what instructions
store goes back there, so the invariant `WordsInv` is about all of these: memory is made
of bytes, the stack and the locals of words, and no stream to memory is open.
`ParseOpcodeTyped` and `FetchedIsReady` say that what is decoded has words as operands and
ends in memory; then each kind of instruction has a lemma (`ComputeTyped`, `StepTyped`,
`AssignTyped`, `AccessTyped`, `CallTyped`, `LiteralTyped`, ...). A story may store into
its own instructions, so nothing can be assumed of them but that they are bytes.

`ObjectsKeepWhatWasPut` is about what many writes leave of each other. Where GET_PROP and
PUT_PROP look for a property depends on the memory they change: a walk steps from size
byte to size byte. The invariant `Keeps` says that every address no instruction is meant
to write (`Free`: links, pointers, names, size bytes, the zeros at the ends, the defaults)
is as the story began with, that the bytes of each property are those promised, and the
bits of each entry the attributes. `WalkUnfolds` unfolds the recursive function `Walk`,
again with least elements; `WalkOfList` says that it goes through the layout, and
`AddressIs` where it stops, in any memory that agrees where it is free. `AttributesApart`
and `DataApart` are about addresses: no byte belongs to two objects or two properties.
`BitChanged` is about the eight bits of a byte. Then `PutKeeps` and `AttributeKeeps` show
that a write lands in its own place, and `PropertiesHold`, `ListsHold` and
`AttributesHold` that the reads give what was promised. The theorem has a hypothesis,
`ShortPropertiesHaveOneSizeByte`, which a story of version 4 or later may fail and one of
the checked stories does: where a property of one or two bytes has two size bytes,
SetProperty writes over the second (property.go 49). The next walk over that object may
then end anywhere, also in another object, and PUT_PROP write there. For such stories the
property (which says nothing of the damaged object) is checked by TLC only.

`WritesStayInTheirTable` is an action property; what has to be invariant is what the
footprint of an instruction is computed from. The footprint of READ is as long as the size
bytes of its buffers say, and READ writes to memory, so the invariant `HoldsText` says
that these bytes are the story's and that the count in a text buffer, behind which READ of
version 5 writes, never exceeds the size by more than two. It may by one after a line that
fills the buffer, because the code stores a character too many (zmachine.go 580), and a
story may set it. `StoreLineStays` and `TokeniseStays` say which bytes are written, for
any memory, line and dictionary. TOKENISE writes a count and four bytes for each word: how
many words there are and where they begin is decided by a scan, a recursive function over
the bytes of the text, of which `ScansGrow` proves, at the least byte at which it would
fail, that it gives pairs of places; of these TOKENISE keeps as many as the parse buffer
has room for. For streams, objects and tables the invariants above serve again
(`StaysInv`). The theorem has the same hypothesis as the one before, for the same reason.

Only model-checked:

* liveness (`TurnsComplete`, `OperationEnds`, `EveryGameIsJudged`, `WaitingEnds`): TLAPS
  handles neither ENABLED nor fairness;
* of `Promises`: `WordsAreFound`, `TextIsWhole`, `FollowsTheProgram` and its `TypeOK`, for
  the reasons given below;
* the three properties that are refuted.

## 6. Not modelled, and the plan

What comes next is proofs:

1. `Encode` and `Decode` written as recursive functions. They are folds now: the community
modules define a fold by a recursion over sets, from which nothing can be concluded here.
`WordsAreFound` and `TextIsWhole` wait for this, and so does the `TypeOK` of `Promises`:
where the text of a PRINT ends is where the next instruction begins. The scan for words of
`Tokenise` is a recursive function already. 2. `FollowsTheProgram`, which compares with
how a program was assembled. It needs what `ParseOpcode` makes of each form an assembler
can write.

What stays with TLC in any case is liveness.

Left out:

* the scraper: sequential I/O without state;
* `LoadCore`, which copies header fields one after the other, and tables a story brings
  along (alphabets, Unicode): the built-in ones are modelled, three entries of the
  Unicode table standing for all;
* RANDOM, colours, fonts, text styles, the status line and the wrapping of the lower
  window;
* the formatting of numbers before they are printed, and the character with which READ
  was ended, which `Session` has but does not store;
* operands on the stack outside of programs of kind `"code"`;
* instructions with fewer or more operands than they take (`Takes`): the code reads zeros
  for the missing ones and does not look at the others;
* version 6, which the interpreter reports as unsupported wherever it differs, and
  versions 7 and 8 in `Instructions`, where they do as version 5 but for the scale of
  packed addresses.

------------------------------ MODULE SelectStory ------------------------------
(****************************************************************************)
(* Choosing a story from the archive (package selectstoryui) and handing it *)
(* to the session (main.go), over several runs of the program that share    *)
(* the cache directory.                                                     *)
(*                                                                          *)
(* The commands Bubble Tea runs, downloadStoryList and downloadStory, are   *)
(* jobs, each in a goroutine of its own; their messages arrive in any       *)
(* order.  A story stands for its name, its address and its bytes; what a   *)
(* file or an answer holds is its kind: the whole of it, a page that is     *)
(* something else, or a part.  The archive and the files are external.      *)
(****************************************************************************)
EXTENDS Integers, Sequences

CONSTANTS
    Titles,         \* the stories of the archive
    StoryList,      \* the cache key of the list of stories
    MaxRuns,        \* bound on the runs of the program
    MaxDownloads    \* bound on the downloads started, in all runs

ASSUME SelectStoryAssumption == StoryList \notin Titles /\ MaxRuns \in Nat /\ MaxDownloads \in Nat

VARIABLES
    state,          \* selectStoryModel.state, or playing, or how the run has ended
    items,          \* the stories in storyList
    err,            \* selectStoryModel.err is set
    selected,       \* selectStoryModel.selectedStoryName
    cacheDir,       \* the program is given a cache directory
    jobs,           \* the commands of this run: what they get, how far they are, what they have
    cache,          \* the files of the cache directory
    played,         \* the bytes handed to LoadRom in this run
    faults,         \* history: what went wrong in this and earlier runs
    runs, downloads \* history: number of runs, and of downloads, so far

vars == <<state, items, err, selected, cacheDir, jobs, cache, played, faults, runs,
          downloads>>

Keys == Titles \cup {StoryList}
Absent == [kind |-> "absent", fresh |-> FALSE]
Nothing == [of |-> StoryList, kind |-> "none"]
Choosing == {"loading", "choosing", "downloading"}

Job(key) == [of |-> key, step |-> "check", kind |-> "none"]

Moved(i, step, kind) == [jobs EXCEPT ![i] = [of |-> jobs[i].of, step |-> step, kind |-> kind]]

\* Job i goes on, in a program that has not ended.
Go(i, from, step, kind) ==
    /\ state \in Choosing \cup {"playing"}
    /\ jobs[i].step = from
    /\ jobs' = Moved(i, step, kind)
    /\ UNCHANGED <<items, selected, cacheDir, runs, downloads>>

-----------------------------------------------------------------------------
(* downloadStoryList and downloadStory.                                     *)

\* isCacheValid and ReadFile.  A list that cannot be parsed is not used; a story is
\* used as it is, also when another job has just begun to write it.
UsableFromCache(key) ==
    /\ cacheDir
    /\ cache[key].fresh
    /\ key = StoryList => cache[key].kind \notin {"part", "empty"}

Check(i) ==
    LET key == jobs[i].of
        others == {j \in DOMAIN jobs : jobs[j].of = key /\ jobs[j].step = "write"}
    IN /\ IF UsableFromCache(key)
          THEN /\ Go(i, "check", "answer", cache[key].kind)
               /\ faults' = faults \cup (IF others = {} THEN {} ELSE {"race"})
          ELSE /\ Go(i, "check", "fetch", "none")
               /\ UNCHANGED faults
       /\ UNCHANGED <<state, err, cache, played>>

\* Faulty variant: every error of the list comes without its text.
Fetch_NoText(i, answer) ==
    LET list == jobs[i].of = StoryList
        kind == CASE answer = "status" /\ ~list -> "page"
                  [] answer = "error" /\ list -> "status"
                  [] OTHER -> answer
        toCache == cacheDir /\ kind \in {"whole", "page"}
    IN /\ Go(i, "fetch", IF toCache THEN "open" ELSE "answer", kind)
       /\ faults' = faults \cup ({answer} \ {"whole", "error"})
       /\ UNCHANGED <<state, err, cache, played>>

\* The archive's answer: the list or the story, a page that is neither, a status other
\* than 200, or an error such as a timeout.  Only the list's status is looked at.
Fetch(i, answer) ==
    LET list == jobs[i].of = StoryList
        kind == IF answer = "status" /\ ~list THEN "page" ELSE answer
        toCache == cacheDir /\ kind \in {"whole", "page"}
    IN /\ Go(i, "fetch", IF toCache THEN "open" ELSE "answer", kind)
       /\ faults' = faults \cup ({answer} \ {"whole", "error"})
       /\ UNCHANGED <<state, err, cache, played>>

\* WriteFile first empties the file.
Open(i) ==
    /\ Go(i, "open", "write", jobs[i].kind)
    /\ cache' = [cache EXCEPT ![jobs[i].of] = [kind |-> "empty", fresh |-> TRUE]]
    /\ UNCHANGED <<state, err, played, faults>>

\* Faulty variant: nothing is answered.
FailToOpen_Silent(i) ==
    /\ Go(i, "open", "done", "none")
    /\ UNCHANGED <<state, err, cache, played, faults>>

\* The directory or the file cannot be made.
FailToOpen(i) ==
    /\ Go(i, "open", "answer", jobs[i].kind)
    /\ UNCHANGED <<state, err, cache, played, faults>>

\* Faulty variant: the file is left empty.
Write_Nothing(i) ==
    /\ Go(i, "write", "answer", jobs[i].kind)
    /\ UNCHANGED <<state, err, cache, played, faults>>

Write(i) ==
    /\ Go(i, "write", "answer", jobs[i].kind)
    /\ cache' = [cache EXCEPT ![jobs[i].of].kind = jobs[i].kind]
    /\ UNCHANGED <<state, err, played, faults>>

\* The error of a write is ignored.
FailToWrite(i) ==
    /\ Go(i, "write", "answer", jobs[i].kind)
    /\ cache' = [cache EXCEPT ![jobs[i].of].kind = "part"]
    /\ faults' = faults \cup {"cut"}
    /\ UNCHANGED <<state, err, played>>

-----------------------------------------------------------------------------
(* Update.                                                                  *)

\* Faulty variant: the name stays that of a story that was never selected.
Enter_AnyName(story) ==
    /\ state \in Choosing
    /\ story \in items
    /\ downloads < MaxDownloads
    /\ downloads' = downloads + 1
    /\ state' = "downloading"
    /\ selected' = CHOOSE t \in Titles : TRUE
    /\ jobs' = Append(jobs, Job(story))
    /\ UNCHANGED <<items, err, cacheDir, cache, played, faults, runs>>

\* Enter.  The list takes keys in every state, and shows what it has.
Enter(story) ==
    /\ state \in Choosing
    /\ story \in items
    /\ downloads < MaxDownloads
    /\ downloads' = downloads + 1
    /\ state' = "downloading"
    /\ selected' = story
    /\ jobs' = Append(jobs, Job(story))
    /\ UNCHANGED <<items, err, cacheDir, cache, played, faults, runs>>

\* storiesDownloadedMsg.
DeliverList(i) ==
    /\ state \in Choosing
    /\ jobs[i].of = StoryList /\ jobs[i].step = "answer" /\ jobs[i].kind \in {"whole", "page"}
    /\ state' = "choosing"
    /\ items' = IF jobs[i].kind = "whole" THEN Titles ELSE {}
    /\ jobs' = Moved(i, "done", "none")
    /\ UNCHANGED <<err, selected, cacheDir, cache, played, faults, runs, downloads>>

\* downloadedStoryMsg: LoadRom panics on a file that is too short, and may panic on
\* one that is no story.
DeliverStory(i) ==
    /\ state \in Choosing
    /\ jobs[i].of # StoryList
    /\ Go(i, "answer", "done", "none")
    /\ jobs[i].kind # "error"
    /\ played' = [of |-> jobs[i].of, kind |-> jobs[i].kind]
    /\ state' \in CASE jobs[i].kind = "whole" -> {"playing"}
                    [] jobs[i].kind = "empty" -> {"crashed"}
                    [] OTHER -> {"playing", "crashed"}
    /\ UNCHANGED <<err, cache, faults>>

\* errMsg.  That of a list with another status has no error in it, and View, which
\* asks it for its text, panics.
DeliverError(i) ==
    /\ state \in Choosing
    /\ jobs[i].kind \in {"error", "status"}
    /\ Go(i, "answer", "done", "none")
    /\ err' = TRUE
    /\ state' = IF jobs[i].kind = "status" THEN "crashed" ELSE state
    /\ UNCHANGED <<cache, played, faults>>

\* The model of the session has no use for the messages of the one it replaced.
Ignore(i) ==
    /\ state = "playing"
    /\ Go(i, "answer", "done", "none")
    /\ UNCHANGED <<state, err, cache, played, faults>>

-----------------------------------------------------------------------------
(* Runs of the program.                                                     *)

IsWriting(j) == j.step = "write"

\* The memory of a program is gone with it.  A file that is being written stays as it is.
Gone ==
    /\ items' = {} /\ err' = FALSE /\ selected' = StoryList /\ played' = Nothing
    /\ faults' = faults \cup {f \in {"cut"} : \E i \in DOMAIN jobs : IsWriting(jobs[i])}

\* q, esc and ctrl+c, and the end of a session.
Quit ==
    /\ state \in Choosing \cup {"playing"}
    /\ state' = "ended"
    /\ jobs' = <<>>
    /\ Gone
    /\ UNCHANGED <<cacheDir, cache, runs, downloads>>

\* The next run; a week may have passed since these files were written.
Start(old) ==
    /\ state \in {"ended", "crashed"}
    /\ runs < MaxRuns
    /\ state' = "loading"
    /\ jobs' = <<Job(StoryList)>>
    /\ Gone
    /\ cache' = [k \in Keys |-> [cache[k] EXCEPT !.fresh = @ /\ k \notin old]]
    /\ runs' = runs + 1
    /\ UNCHANGED <<cacheDir, downloads>>

-----------------------------------------------------------------------------
Init ==
    /\ state = "loading"
    /\ items = {} /\ err = FALSE /\ selected = StoryList
    /\ cacheDir \in BOOLEAN
    /\ jobs = <<Job(StoryList)>>
    /\ cache = [k \in Keys |-> Absent]
    /\ played = Nothing
    /\ faults = {}
    /\ runs = 1 /\ downloads = 0

JobIds == 1..(MaxDownloads + 1)

\* A command goes on, or its message is delivered.
Works(i) ==
    \/ Check(i)
    \/ \E answer \in {"whole", "page", "status", "error"} : Fetch(i, answer)
    \/ Open(i) \/ FailToOpen(i) \/ Write(i) \/ FailToWrite(i)

Delivers(i) == DeliverList(i) \/ DeliverStory(i) \/ DeliverError(i) \/ Ignore(i)

Next ==
    \/ \E i \in DOMAIN jobs : Works(i) \/ Delivers(i)
    \/ \E story \in Titles : Enter(story)
    \/ Quit
    \/ \E old \in SUBSET Keys : Start(old)

\* Goroutines run, requests time out (after 10 and 60 seconds), and Bubble Tea delivers
\* the messages of commands.  The player need not do anything.
Fairness ==
    \A i \in JobIds : /\ WF_vars(i \in DOMAIN jobs /\ Works(i))
                      /\ WF_vars(i \in DOMAIN jobs /\ Delivers(i))

Spec == Init /\ [][Next]_vars /\ Fairness

-----------------------------------------------------------------------------
(* Properties.                                                              *)

Asked == {jobs[i].of : i \in DOMAIN jobs} \ {StoryList}

\* What is played was asked for in this run, and goes by its own name (by which it
\* saves) unless the player selected another story while it was on its way.
PlayedGoesByItsName ==
    state = "playing" =>
        /\ played.of \in Asked
        /\ Asked = {played.of} => selected = played.of

\* A file of the cache is all that the archive once sent for it, as long as no write
\* is under way or was cut off, by an error or the end of a run.
FilesAreWhole ==
    \A k \in Keys :
        /\ cache[k].kind \in {"part", "empty"} =>
             "cut" \in faults \/ \E i \in DOMAIN jobs : jobs[i].of = k /\ IsWriting(jobs[i])
        /\ cache[k].kind = "page" => faults \cap {"page", "status"} # {}

\* The picker comes down only over an answer of the archive that is no story or list,
\* a file of the cache that was cut off, in this run or before, or one read while it
\* was being written; never over a timeout, an unwritable cache or an expired file.
CrashesHaveACause ==
    state = "crashed" =>
        CASE played = Nothing -> "status" \in faults
          [] played.kind = "page" -> faults \cap {"page", "status"} # {}
          [] played.kind \in {"part", "empty"} -> faults \cap {"cut", "race"} # {}
          [] played.kind = "whole" -> FALSE

\* Loading and downloading end: with a list, a story, an error that is shown, or the
\* end of the run.
WaitingEnds ==
    state \in {"loading", "downloading"} ~> (state \notin {"loading", "downloading"} \/ err)

-----------------------------------------------------------------------------
(* The inductive invariant behind the safety properties: where what is in a *)
(* job or in the cache has come from.                                       *)

Kinds == {"whole", "page", "part", "empty"}
Steps == {"check", "fetch", "open", "write", "answer", "done"}
JobKinds == Kinds \cup {"none", "status", "error"}

\* Only the whole of an answer or a page is written, an answer has a kind, and only
\* the list's status is looked at.
Fits(of, step, kind) ==
    /\ step \in {"open", "write"} => kind \in {"whole", "page"}
    /\ step = "answer" => kind # "none"
    /\ kind = "status" => of = StoryList

Jobs == {j \in [of : Keys, step : Steps, kind : JobKinds] : Fits(j.of, j.step, j.kind)}

\* The variables keep their types, and a file that was never written is never used.
TypeOK ==
    /\ state \in Choosing \cup {"playing", "ended", "crashed"}
    /\ items \in SUBSET Titles
    /\ selected \in Keys
    /\ jobs \in Seq(Jobs)
    /\ cache \in [Keys -> [kind : Kinds \cup {"absent"}, fresh : BOOLEAN]]
    /\ \A k \in Keys : cache[k].kind = "absent" => ~cache[k].fresh
    /\ faults \subseteq {"page", "status", "cut", "race"}

\* What job j has got is something it could be given, after the faults f.
JobIsHonest(j, f) ==
    /\ j.kind = "page" => f \cap {"page", "status"} # {}
    /\ j.kind = "status" => "status" \in f
    /\ j.kind \in {"part", "empty"} => f \cap {"cut", "race"} # {}

\* The last selection is among the stories asked for.
SelectedIsAsked ==
    state \in Choosing \cup {"playing"} /\ Asked # {} => selected \in Asked

JobsAreHonest == \A i \in DOMAIN jobs : JobIsHonest(jobs[i], faults)

Inv ==
    /\ JobsAreHonest
    /\ SelectedIsAsked
    /\ FilesAreWhole
    /\ CrashesHaveACause
    /\ state \in Choosing => played = Nothing
    /\ state = "playing" => played.of \in Asked
===============================================================================

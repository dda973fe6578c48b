--------------------------- MODULE SelectStoryProofs ---------------------------
(****************************************************************************)
(* Proofs about SelectStory, for any archive, any number of downloads and   *)
(* any number of runs that share the cache.  That the cache is sound and    *)
(* that crashes have a cause depend on what the jobs under way have got:    *)
(* Inv says that, and that a selection is among what was asked for.         *)
(****************************************************************************)
EXTENDS SelectStory, SequenceTheorems, TLAPS

-----------------------------------------------------------------------------
(* Steps of one job.                                                        *)

\* What a job that goes on changes in the sequence of jobs.
LEMMA JobGoesOn ==
    ASSUME TypeOK, NEW i \in DOMAIN jobs, NEW step \in Steps, NEW kind \in JobKinds,
           Fits(jobs[i].of, step, kind), jobs' = Moved(i, step, kind)
    PROVE  /\ jobs' \in Seq(Jobs) /\ DOMAIN jobs' = DOMAIN jobs
           /\ jobs'[i] = [of |-> jobs[i].of, step |-> step, kind |-> kind]
           /\ \A j \in DOMAIN jobs : j # i => jobs'[j] = jobs[j]
           /\ Asked' = Asked
<1> DEFINE new == [of |-> jobs[i].of, step |-> step, kind |-> kind]
<1>1. jobs \in Seq(Jobs) /\ i \in 1..Len(jobs) /\ jobs[i] \in Jobs
    BY DEF TypeOK
<1>2. new \in Jobs /\ new.of = jobs[i].of
    BY <1>1 DEF Jobs
<1>3. jobs' = [jobs EXCEPT ![i] = new]
    BY DEF Moved
<1> HIDE DEF new
<1>4. jobs' \in Seq(Jobs) /\ DOMAIN jobs' = DOMAIN jobs /\ jobs'[i] = new
    BY <1>1, <1>2, <1>3
<1>5. \A j \in DOMAIN jobs : j # i => jobs'[j] = jobs[j]
    BY <1>1, <1>3
<1>6. \A j \in DOMAIN jobs : jobs'[j].of = jobs[j].of
    BY <1>2, <1>4, <1>5
<1> QED
    BY <1>4, <1>5, <1>6 DEF new, Asked

\* A new job comes last.
LEMMA JobIsAdded ==
    ASSUME NEW js \in Seq(Jobs), NEW new \in Jobs, NEW ks, ks = Append(js, new)
    PROVE  /\ ks \in Seq(Jobs) /\ DOMAIN ks = DOMAIN js \cup {Len(js) + 1}
           /\ ks[Len(js) + 1] = new
           /\ \A j \in DOMAIN js : ks[j] = js[j]
<1>1. ks \in Seq(Jobs) /\ Len(ks) = Len(js) + 1 /\ ks[Len(js) + 1] = new
    BY AppendProperties
<1>2. \A j \in 1..Len(js) : ks[j] = js[j]
    BY AppendProperties
<1>3. DOMAIN js = 1..Len(js) /\ DOMAIN ks = 1..(Len(js) + 1) /\ Len(js) \in Nat
    BY <1>1
<1> QED
    BY <1>1, <1>2, <1>3

\* More faults excuse no less.
LEMMA HonestyStays ==
    ASSUME NEW j, NEW f, NEW g, f \subseteq g, JobIsHonest(j, f)
    PROVE  JobIsHonest(j, g)
BY DEF JobIsHonest

LEMMA FirstJob == Job(StoryList) \in Jobs
BY DEF Job, Jobs, Fits, Keys, Steps, JobKinds, Kinds

-----------------------------------------------------------------------------
(* Types.                                                                   *)

CacheType ==
    /\ cache \in [Keys -> [kind : Kinds \cup {"absent"}, fresh : BOOLEAN]]
    /\ \A k \in Keys : cache[k].kind = "absent" => ~cache[k].fresh

FaultsType == faults \subseteq {"page", "status", "cut", "race"}

LEMMA TypeGo ==
    ASSUME TypeOK, NEW i \in DOMAIN jobs, NEW from, NEW step \in Steps, NEW kind \in JobKinds,
           Fits(jobs[i].of, step, kind), Go(i, from, step, kind),
           CacheType', FaultsType', state' \in Choosing \cup {"playing", "ended", "crashed"}
    PROVE  TypeOK'
<1>1. jobs' \in Seq(Jobs)
    BY JobGoesOn DEF Go
<1>2. items' = items /\ selected' = selected
    BY DEF Go
<1> QED
    BY <1>1, <1>2 DEF TypeOK, CacheType, FaultsType

LEMMA TypeWorks ==
    ASSUME TypeOK, NEW i \in DOMAIN jobs, Works(i)
    PROVE  TypeOK'
<1> DEFINE key == jobs[i].of
<1> USE DEF Steps, JobKinds, Kinds
<1>1. key \in Keys /\ jobs[i].kind \in JobKinds /\ Fits(key, jobs[i].step, jobs[i].kind)
    BY DEF TypeOK, Jobs
<1>2. CacheType /\ FaultsType /\ state \in Choosing \cup {"playing", "ended", "crashed"}
    BY DEF TypeOK, CacheType, FaultsType
<1>3. CASE Check(i)
  <2>1. cache' = cache /\ state' = state /\ FaultsType'
      BY <1>2, <1>3 DEF Check, FaultsType
  <2>2. CASE UsableFromCache(key)
    <3>1. Go(i, "check", "answer", cache[key].kind)
        BY <1>3, <2>2 DEF Check
    <3>2. cache[key].kind \in Kinds
        BY <1>1, <1>2, <2>2 DEF UsableFromCache, CacheType
    <3>3. Fits(key, "answer", cache[key].kind)
        BY <3>2 DEF Fits
    <3> QED
        BY <1>2, <2>1, <3>1, <3>2, <3>3, TypeGo DEF CacheType
  <2>3. CASE ~UsableFromCache(key)
    <3>1. Go(i, "check", "fetch", "none") /\ Fits(key, "fetch", "none")
        BY <1>3, <2>3 DEF Check, Fits
    <3> QED
        BY <1>2, <2>1, <3>1, TypeGo DEF CacheType
  <2> QED
      BY <2>2, <2>3
<1>4. ASSUME NEW answer \in {"whole", "page", "status", "error"}, Fetch(i, answer)
      PROVE  TypeOK'
  <2> DEFINE kind == IF answer = "status" /\ ~(key = StoryList) THEN "page" ELSE answer
             step == IF cacheDir /\ kind \in {"whole", "page"} THEN "open" ELSE "answer"
  <2>1. cache' = cache /\ state' = state /\ FaultsType'
      BY <1>2, <1>4 DEF Fetch, FaultsType
  <2>2. kind \in JobKinds /\ step \in Steps /\ Fits(key, step, kind)
      BY DEF Fits
  <2>3. Go(i, "fetch", step, kind)
      BY <1>4 DEF Fetch
  <2> HIDE DEF kind, step
  <2> QED
      BY <1>2, <2>1, <2>2, <2>3, TypeGo DEF CacheType
<1>5. CASE Open(i)
  <2>1. jobs[i].step = "open" /\ Go(i, "open", "write", jobs[i].kind) /\ state' = state
        /\ faults' = faults /\ cache' = [cache EXCEPT ![key] = [kind |-> "empty", fresh |-> TRUE]]
      BY <1>5 DEF Open, Go
  <2>2. CacheType' /\ FaultsType' /\ Fits(key, "write", jobs[i].kind)
      BY <1>1, <1>2, <2>1 DEF CacheType, FaultsType, Fits
  <2> QED
      BY <1>1, <1>2, <2>1, <2>2, TypeGo
<1>6. CASE FailToOpen(i)
  <2>1. jobs[i].step = "open" /\ Go(i, "open", "answer", jobs[i].kind) /\ state' = state
        /\ faults' = faults /\ cache' = cache
      BY <1>6 DEF FailToOpen, Go
  <2>2. CacheType' /\ FaultsType' /\ Fits(key, "answer", jobs[i].kind)
      BY <1>1, <1>2, <2>1 DEF CacheType, FaultsType, Fits
  <2> QED
      BY <1>1, <1>2, <2>1, <2>2, TypeGo
<1>7. ASSUME Write(i) \/ FailToWrite(i)
      PROVE  TypeOK'
  <2>1. jobs[i].step = "write" /\ Go(i, "write", "answer", jobs[i].kind) /\ state' = state
        /\ faults' \in {faults, faults \cup {"cut"}}
        /\ \E kind \in {jobs[i].kind, "part"} : cache' = [cache EXCEPT ![key].kind = kind]
      BY <1>7 DEF Write, FailToWrite, Go
  <2>2. CacheType' /\ FaultsType' /\ Fits(key, "answer", jobs[i].kind)
      BY <1>1, <1>2, <2>1 DEF CacheType, FaultsType, Fits
  <2> QED
      BY <1>1, <1>2, <2>1, <2>2, TypeGo
<1> QED
    BY <1>3, <1>4, <1>5, <1>6, <1>7 DEF Works

LEMMA TypeDelivers ==
    ASSUME TypeOK, NEW i \in DOMAIN jobs, Delivers(i)
    PROVE  TypeOK'
<1> USE DEF Steps, JobKinds, Kinds
<1>1. CacheType /\ FaultsType /\ jobs[i].of \in Keys /\ Fits(jobs[i].of, "done", "none")
    BY DEF TypeOK, CacheType, FaultsType, Jobs, Fits
<1>2. CASE DeliverList(i)
  <2>1. jobs' = Moved(i, "done", "none") /\ cache' = cache /\ faults' = faults
        /\ state' = "choosing" /\ items' \in SUBSET Titles /\ selected' = selected
      BY <1>2 DEF DeliverList
  <2>2. jobs' \in Seq(Jobs)
      BY <1>1, <2>1, JobGoesOn
  <2> QED
      BY <1>1, <2>1, <2>2 DEF TypeOK, CacheType, FaultsType, Choosing
<1>3. CASE DeliverStory(i) \/ DeliverError(i) \/ Ignore(i)
  <2>1. Go(i, "answer", "done", "none") /\ cache' = cache /\ faults' = faults
        /\ (state' = state \/ state' \in {"playing", "crashed"})
      BY <1>3 DEF DeliverStory, DeliverError, Ignore
  <2>2. CacheType' /\ FaultsType' /\ state' \in Choosing \cup {"playing", "ended", "crashed"}
      BY <1>1, <2>1 DEF CacheType, FaultsType, TypeOK
  <2> QED
      BY <1>1, <2>1, <2>2, TypeGo
<1> QED
    BY <1>2, <1>3 DEF Delivers

LEMMA TypeInductive == TypeOK /\ [Next]_vars => TypeOK'
<1> SUFFICES ASSUME TypeOK, [Next]_vars PROVE TypeOK'
    OBVIOUS
<1>1. ASSUME NEW story \in Titles, Enter(story) PROVE TypeOK'
  <2>1. Job(story) \in Jobs
      BY DEF Job, Jobs, Fits, Keys, Steps, JobKinds
  <2>2. jobs' \in Seq(Jobs)
      BY <1>1, <2>1, JobIsAdded DEF Enter, TypeOK
  <2> QED
      BY <1>1, <2>2 DEF Enter, TypeOK, Choosing, Keys
<1>2. CASE Quit
  <2>1. jobs' \in Seq(Jobs)
      BY <1>2, EmptySeq DEF Quit
  <2>2. faults' \subseteq {"page", "status", "cut", "race"}
      BY <1>2 DEF Quit, Gone, TypeOK
  <2> QED
      BY <1>2, <2>1, <2>2 DEF Quit, Gone, TypeOK, Keys
<1>3. ASSUME NEW old \in SUBSET Keys, Start(old) PROVE TypeOK'
  <2>1. jobs' \in Seq(Jobs)
      BY <1>3, FirstJob DEF Start
  <2>2. cache' \in [Keys -> [kind : Kinds \cup {"absent"}, fresh : BOOLEAN]]
        /\ \A k \in Keys : cache'[k].kind = "absent" => ~cache'[k].fresh
      BY <1>3 DEF Start, TypeOK
  <2> QED
      BY <1>3, <2>1, <2>2 DEF Start, Gone, TypeOK, Keys, Choosing
<1>4. CASE UNCHANGED vars
    BY <1>4 DEF vars, TypeOK
<1> QED
    BY <1>1, <1>2, <1>3, <1>4, TypeWorks, TypeDelivers DEF Next

\* The variables keep their types, for any archive and over any number of runs.
THEOREM TypeCorrect == Spec => []TypeOK
<1>1. Init => TypeOK
    BY FirstJob DEF Init, TypeOK, Absent, Keys, Kinds, Choosing
<1> QED
    BY <1>1, TypeInductive, PTL DEF Spec

-----------------------------------------------------------------------------
(* The invariant.                                                           *)

\* A step of a job leaves the others honest, and the stories asked for as they are.
LEMMA InvMoved ==
    ASSUME TypeOK, Inv, NEW i \in DOMAIN jobs, NEW step \in Steps, NEW kind \in JobKinds,
           Fits(jobs[i].of, step, kind), jobs' = Moved(i, step, kind), selected' = selected,
           state \in Choosing \cup {"playing"}, faults \subseteq faults',
           JobIsHonest([of |-> jobs[i].of, step |-> step, kind |-> kind], faults')
    PROVE  JobsAreHonest' /\ Asked' = Asked /\ SelectedIsAsked'
<1>1. /\ DOMAIN jobs' = DOMAIN jobs /\ Asked' = Asked
      /\ jobs'[i] = [of |-> jobs[i].of, step |-> step, kind |-> kind]
      /\ \A j \in DOMAIN jobs : j # i => jobs'[j] = jobs[j]
    BY JobGoesOn
<1>2. \A j \in DOMAIN jobs : JobIsHonest(jobs[j], faults')
    BY HonestyStays DEF Inv, JobsAreHonest
<1>3. JobsAreHonest'
    BY <1>1, <1>2 DEF JobsAreHonest
<1>4. SelectedIsAsked'
    BY <1>1 DEF Inv, SelectedIsAsked
<1> QED
    BY <1>1, <1>3, <1>4

LEMMA InvGo ==
    ASSUME TypeOK, Inv, NEW i \in DOMAIN jobs, NEW from, NEW step \in Steps,
           NEW kind \in JobKinds, Fits(jobs[i].of, step, kind), Go(i, from, step, kind),
           faults \subseteq faults',
           JobIsHonest([of |-> jobs[i].of, step |-> step, kind |-> kind], faults')
    PROVE  JobsAreHonest' /\ Asked' = Asked /\ SelectedIsAsked'
BY InvMoved DEF Go

\* Files stay whole over the steps of a job that write none.
LEMMA FilesGo ==
    ASSUME TypeOK, Inv, NEW i \in DOMAIN jobs, NEW step \in Steps, NEW kind \in JobKinds,
           Fits(jobs[i].of, step, kind), jobs' = Moved(i, step, kind), jobs[i].step # "write",
           faults \subseteq faults', cache' = cache
    PROVE  FilesAreWhole'
<1>1. /\ DOMAIN jobs' = DOMAIN jobs
      /\ \A j \in DOMAIN jobs : j # i => jobs'[j] = jobs[j]
    BY JobGoesOn
<1>2. ASSUME NEW k \in Keys, \E j \in DOMAIN jobs : jobs[j].of = k /\ IsWriting(jobs[j])
      PROVE  (\E j \in DOMAIN jobs : jobs[j].of = k /\ IsWriting(jobs[j]))'
    BY <1>1, <1>2 DEF IsWriting
<1> QED
    BY <1>2 DEF FilesAreWhole, Inv

\* A step after which nothing else has changed.
LEMMA InvQuiet ==
    ASSUME Inv, state \in Choosing \cup {"playing"}, state' = state, played' = played,
           JobsAreHonest', Asked' = Asked, SelectedIsAsked', FilesAreWhole'
    PROVE  Inv'
BY DEF Inv, CrashesHaveACause, Choosing

LEMMA InvWorks ==
    ASSUME TypeOK, Inv, NEW i \in DOMAIN jobs, Works(i)
    PROVE  Inv'
<1> DEFINE key == jobs[i].of
           After(step, kind) == [of |-> key, step |-> step, kind |-> kind]
<1>1. /\ key \in Keys /\ jobs[i].kind \in JobKinds /\ Fits(key, jobs[i].step, jobs[i].kind)
      /\ JobIsHonest(jobs[i], faults)
    BY DEF TypeOK, Jobs, Inv, JobsAreHonest
<1>2. CASE Check(i)
  <2>1. /\ jobs[i].step = "check" /\ cache' = cache /\ state' = state /\ played' = played
        /\ state \in Choosing \cup {"playing"} /\ faults \subseteq faults'
      BY <1>2 DEF Check, Go
  <2>2. CASE UsableFromCache(key)
    <3> DEFINE kind == cache[key].kind
    <3>1. Go(i, "check", "answer", kind) /\ "answer" \in Steps
        BY <1>2, <2>2 DEF Check, Steps
    <3>2. kind \in Kinds /\ kind \in JobKinds /\ Fits(key, "answer", kind)
        BY <1>1, <2>2 DEF UsableFromCache, TypeOK, Fits, Kinds, JobKinds
    <3>3. kind = "page" => faults' \cap {"page", "status"} # {}
        BY <1>1, <2>1 DEF Inv, FilesAreWhole
    <3>4. kind \in {"part", "empty"} => faults' \cap {"cut", "race"} # {}
      <4>1. ASSUME kind \in {"part", "empty"}
            PROVE  "cut" \in faults
                   \/ {j \in DOMAIN jobs : jobs[j].of = key /\ jobs[j].step = "write"} # {}
          BY <1>1, <4>1 DEF Inv, FilesAreWhole, IsWriting
      <4> QED
          BY <1>2, <2>1, <2>2, <4>1 DEF Check
    <3>5. JobIsHonest(After("answer", kind), faults')
        BY <3>2, <3>3, <3>4 DEF JobIsHonest, Kinds
    <3>6. FilesAreWhole'
        BY <2>1, <3>1, <3>2, FilesGo DEF Go
    <3> QED
        BY <2>1, <3>1, <3>2, <3>5, <3>6, InvGo, InvQuiet
  <2>3. CASE ~UsableFromCache(key)
    <3>1. /\ Go(i, "check", "fetch", "none") /\ "fetch" \in Steps /\ "none" \in JobKinds
          /\ Fits(key, "fetch", "none") /\ JobIsHonest(After("fetch", "none"), faults')
        BY <1>2, <2>3 DEF Check, Steps, JobKinds, Fits, JobIsHonest
    <3>2. FilesAreWhole'
        BY <2>1, <3>1, FilesGo DEF Go
    <3> QED
        BY <2>1, <3>1, <3>2, InvGo, InvQuiet
  <2> QED
      BY <2>2, <2>3
<1>3. ASSUME NEW answer \in {"whole", "page", "status", "error"}, Fetch(i, answer)
      PROVE  Inv'
  <2> DEFINE kind == IF answer = "status" /\ ~(key = StoryList) THEN "page" ELSE answer
             step == IF cacheDir /\ kind \in {"whole", "page"} THEN "open" ELSE "answer"
  <2>1. /\ jobs[i].step = "fetch" /\ cache' = cache /\ state' = state /\ played' = played
        /\ state \in Choosing \cup {"playing"} /\ faults \subseteq faults'
        /\ Go(i, "fetch", step, kind)
      BY <1>3 DEF Fetch, Go
  <2>2. kind \in JobKinds /\ step \in Steps /\ Fits(key, step, kind)
      BY DEF Fits, Steps, JobKinds, Kinds
  <2>3. kind = "page" => faults' \cap {"page", "status"} # {}
      BY <1>3 DEF Fetch
  <2>4. kind = "status" => "status" \in faults'
      BY <1>3 DEF Fetch
  <2>5. JobIsHonest(After(step, kind), faults')
      BY <2>3, <2>4 DEF JobIsHonest
  <2> HIDE DEF kind, step
  <2>6. FilesAreWhole'
      BY <2>1, <2>2, FilesGo DEF Go
  <2> QED
      BY <2>1, <2>2, <2>5, <2>6, InvGo, InvQuiet
<1>4. CASE FailToOpen(i)
  <2>1. /\ jobs[i].step = "open" /\ cache' = cache /\ state' = state /\ played' = played
        /\ state \in Choosing \cup {"playing"} /\ faults' = faults
        /\ Go(i, "open", "answer", jobs[i].kind)
      BY <1>4 DEF FailToOpen, Go
  <2>2. /\ "answer" \in Steps /\ Fits(key, "answer", jobs[i].kind)
        /\ JobIsHonest(After("answer", jobs[i].kind), faults')
      BY <1>1, <2>1 DEF Steps, Fits, JobIsHonest
  <2>3. FilesAreWhole'
      BY <1>1, <2>1, <2>2, FilesGo DEF Go
  <2> QED
      BY <1>1, <2>1, <2>2, <2>3, InvGo, InvQuiet
<1>5. CASE Open(i)
  <2>1. /\ jobs[i].step = "open" /\ state' = state /\ played' = played
        /\ state \in Choosing \cup {"playing"} /\ faults' = faults
        /\ Go(i, "open", "write", jobs[i].kind)
        /\ cache' = [cache EXCEPT ![key] = [kind |-> "empty", fresh |-> TRUE]]
      BY <1>5 DEF Open, Go
  <2>2. /\ "write" \in Steps /\ Fits(key, "write", jobs[i].kind)
        /\ JobIsHonest(After("write", jobs[i].kind), faults')
      BY <1>1, <2>1 DEF Steps, Fits, JobIsHonest
  <2>3. /\ DOMAIN jobs' = DOMAIN jobs /\ jobs'[i] = After("write", jobs[i].kind)
        /\ \A j \in DOMAIN jobs : j # i => jobs'[j] = jobs[j]
      BY <1>1, <2>1, <2>2, JobGoesOn DEF Go
  <2>4. ASSUME NEW k \in Keys PROVE
          /\ cache'[k].kind \in {"part", "empty"} =>
               "cut" \in faults' \/ (\E j \in DOMAIN jobs : jobs[j].of = k /\ IsWriting(jobs[j]))'
          /\ cache'[k].kind = "page" => faults' \cap {"page", "status"} # {}
    <3>1. CASE k = key
      <4>1. cache'[k].kind = "empty"
          BY <2>1, <3>1 DEF TypeOK
      <4>2. (\E j \in DOMAIN jobs : jobs[j].of = k /\ IsWriting(jobs[j]))'
          BY <2>3, <3>1 DEF IsWriting
      <4> QED
          BY <4>1, <4>2
    <3>2. CASE k # key
      <4>1. cache'[k] = cache[k]
          BY <2>1, <3>2 DEF TypeOK
      <4>2. ASSUME NEW j \in DOMAIN jobs, jobs[j].of = k, IsWriting(jobs[j])
            PROVE  (\E l \in DOMAIN jobs : jobs[l].of = k /\ IsWriting(jobs[l]))'
          BY <2>3, <3>2, <4>2 DEF IsWriting
      <4> QED
          BY <2>1, <4>1, <4>2 DEF Inv, FilesAreWhole
    <3> QED
        BY <3>1, <3>2
  <2>5. FilesAreWhole'
      BY <2>4 DEF FilesAreWhole
  <2> QED
      BY <1>1, <2>1, <2>2, <2>5, InvGo, InvQuiet
<1>6. ASSUME Write(i) \/ FailToWrite(i) PROVE Inv'
  <2>1. /\ jobs[i].step = "write" /\ state' = state /\ played' = played
        /\ state \in Choosing \cup {"playing"} /\ faults \subseteq faults'
        /\ Go(i, "write", "answer", jobs[i].kind)
      BY <1>6 DEF Write, FailToWrite, Go
  <2>2. /\ "answer" \in Steps /\ Fits(key, "answer", jobs[i].kind)
        /\ JobIsHonest(After("answer", jobs[i].kind), faults')
      BY <1>1, <2>1, HonestyStays DEF Steps, Fits, JobIsHonest
  <2>3. /\ DOMAIN jobs' = DOMAIN jobs
        /\ \A j \in DOMAIN jobs : j # i => jobs'[j] = jobs[j]
      BY <1>1, <2>1, <2>2, JobGoesOn DEF Go
  <2>4. \A k \in Keys : k # key => cache'[k] = cache[k]
      BY <1>6 DEF Write, FailToWrite, TypeOK
  <2>5. \/ cache'[key].kind = jobs[i].kind
        \/ cache'[key].kind = "part" /\ "cut" \in faults'
      BY <1>1, <1>6 DEF Write, FailToWrite, TypeOK
  <2>6. ASSUME NEW k \in Keys PROVE
          /\ cache'[k].kind \in {"part", "empty"} =>
               "cut" \in faults' \/ (\E j \in DOMAIN jobs : jobs[j].of = k /\ IsWriting(jobs[j]))'
          /\ cache'[k].kind = "page" => faults' \cap {"page", "status"} # {}
    <3>1. CASE k = key
        BY <1>1, <2>1, <2>2, <2>5, <3>1 DEF Fits, JobIsHonest
    <3>2. CASE k # key
      <4>1. ASSUME NEW j \in DOMAIN jobs, jobs[j].of = k, IsWriting(jobs[j])
            PROVE  (\E l \in DOMAIN jobs : jobs[l].of = k /\ IsWriting(jobs[l]))'
          BY <2>3, <3>2, <4>1 DEF IsWriting
      <4> QED
          BY <2>1, <2>4, <3>2, <4>1 DEF Inv, FilesAreWhole
    <3> QED
        BY <3>1, <3>2
  <2>7. FilesAreWhole'
      BY <2>6 DEF FilesAreWhole
  <2> QED
      BY <1>1, <2>1, <2>2, <2>7, InvGo, InvQuiet
<1> QED
    BY <1>2, <1>3, <1>4, <1>5, <1>6 DEF Works

LEMMA InvDelivers ==
    ASSUME TypeOK, Inv, NEW i \in DOMAIN jobs, Delivers(i)
    PROVE  Inv'
<1>1. /\ jobs[i].kind \in JobKinds /\ JobIsHonest(jobs[i], faults)
      /\ Fits(jobs[i].of, jobs[i].step, jobs[i].kind)
    BY DEF TypeOK, Jobs, Inv, JobsAreHonest
<1>2. /\ jobs[i].step = "answer" /\ jobs' = Moved(i, "done", "none")
      /\ cache' = cache /\ faults' = faults /\ selected' = selected
      /\ state \in Choosing \cup {"playing"}
    BY DEF Delivers, DeliverList, DeliverStory, DeliverError, Ignore, Go
<1>3. /\ "done" \in Steps /\ "none" \in JobKinds /\ Fits(jobs[i].of, "done", "none")
      /\ JobIsHonest([of |-> jobs[i].of, step |-> "done", kind |-> "none"], faults')
    BY DEF Steps, JobKinds, Fits, JobIsHonest
<1>4. JobsAreHonest' /\ Asked' = Asked /\ SelectedIsAsked'
    BY <1>2, <1>3, InvMoved
<1>5. FilesAreWhole'
    BY <1>2, <1>3, FilesGo
<1>6. CASE DeliverList(i)
  <2>1. state' = "choosing" /\ played' = played /\ state \in Choosing
      BY <1>6 DEF DeliverList
  <2> QED
      BY <1>4, <1>5, <2>1 DEF Inv, CrashesHaveACause
<1>7. CASE DeliverStory(i)
  <2>1. /\ jobs[i].of # StoryList /\ jobs[i].kind # "error"
        /\ played' = [of |-> jobs[i].of, kind |-> jobs[i].kind]
        /\ state' \in {"playing", "crashed"}
        /\ jobs[i].kind = "whole" => state' = "playing"
      BY <1>7 DEF DeliverStory
  <2>2. jobs[i].kind \in Kinds
      BY <1>1, <1>2, <2>1 DEF Fits, JobKinds, Kinds
  <2>3. played' # Nothing /\ played'.of = jobs[i].of /\ played'.kind = jobs[i].kind
      BY <2>1 DEF Nothing
  <2>4. jobs[i].of \in Asked
      BY <2>1 DEF Asked
  <2>5. CrashesHaveACause'
      BY <1>1, <1>2, <2>1, <2>2, <2>3 DEF CrashesHaveACause, JobIsHonest, Kinds
  <2> QED
      BY <1>4, <1>5, <2>1, <2>3, <2>4, <2>5 DEF Inv, Choosing
<1>8. CASE DeliverError(i)
  <2>1. /\ played' = played /\ played = Nothing /\ state \in Choosing
        /\ state' = IF jobs[i].kind = "status" THEN "crashed" ELSE state
      BY <1>8 DEF DeliverError, Inv
  <2>2. CrashesHaveACause'
      BY <1>1, <1>2, <2>1 DEF CrashesHaveACause, JobIsHonest, Choosing, Nothing
  <2> QED
      BY <1>4, <1>5, <2>1, <2>2 DEF Inv, Choosing
<1>9. CASE Ignore(i)
  <2>1. state' = state /\ played' = played
      BY <1>9 DEF Ignore
  <2> QED
      BY <1>2, <1>4, <1>5, <2>1, InvQuiet
<1> QED
    BY <1>6, <1>7, <1>8, <1>9 DEF Delivers

LEMMA InvEnter ==
    ASSUME TypeOK, Inv, NEW story \in Titles, Enter(story)
    PROVE  Inv'
<1>1. /\ state \in Choosing /\ state' = "downloading" /\ selected' = story
      /\ jobs' = Append(jobs, Job(story)) /\ cache' = cache /\ played' = played
      /\ faults' = faults
    BY DEF Enter
<1>2. Job(story) \in Jobs /\ jobs \in Seq(Jobs)
    BY DEF Job, Jobs, Fits, Keys, Steps, JobKinds, TypeOK
<1>3. /\ DOMAIN jobs' = DOMAIN jobs \cup {Len(jobs) + 1}
      /\ jobs'[Len(jobs) + 1] = Job(story)
      /\ \A j \in DOMAIN jobs : jobs'[j] = jobs[j]
    BY <1>1, <1>2, JobIsAdded
<1>4. JobIsHonest(Job(story), faults)
    BY DEF Job, JobIsHonest
<1>5. JobsAreHonest'
    BY <1>1, <1>3, <1>4 DEF Inv, JobsAreHonest
<1>6. SelectedIsAsked'
  <2>1. Job(story).of = story /\ story # StoryList
      BY SelectStoryAssumption DEF Job
  <2> QED
      BY <1>1, <1>3, <2>1 DEF SelectedIsAsked, Asked
<1>7. FilesAreWhole'
  <2>1. ASSUME NEW k \in Keys, \E j \in DOMAIN jobs : jobs[j].of = k /\ IsWriting(jobs[j])
        PROVE  (\E j \in DOMAIN jobs : jobs[j].of = k /\ IsWriting(jobs[j]))'
      BY <1>3, <2>1 DEF IsWriting
  <2> QED
      BY <1>1, <2>1 DEF Inv, FilesAreWhole
<1> QED
    BY <1>1, <1>5, <1>6, <1>7 DEF Inv, CrashesHaveACause, Choosing

\* The end of a run, and the next one: what was being written is cut off.
LEMMA InvRuns ==
    ASSUME TypeOK, Inv, Gone, state' \in {"loading", "ended"},
           jobs' = <<>> \/ jobs' = <<Job(StoryList)>>,
           \A k \in Keys : cache'[k].kind = cache[k].kind
    PROVE  Inv'
<1>1. \A j \in DOMAIN jobs' : jobs'[j] = Job(StoryList)
    OBVIOUS
<1>2. JobsAreHonest'
    BY <1>1 DEF JobsAreHonest, JobIsHonest, Job
<1>3. Asked' = {}
    BY <1>1 DEF Asked, Job
<1>4. faults \subseteq faults' /\ played' = Nothing
    BY DEF Gone
<1>5. (\E j \in DOMAIN jobs : IsWriting(jobs[j])) => "cut" \in faults'
    BY DEF Gone
<1>6. FilesAreWhole'
    BY <1>4, <1>5 DEF Inv, FilesAreWhole
<1> QED
    BY <1>2, <1>3, <1>4, <1>6 DEF Inv, SelectedIsAsked, CrashesHaveACause

LEMMA InvInductive == TypeOK /\ Inv /\ [Next]_vars => Inv'
<1> SUFFICES ASSUME TypeOK, Inv, [Next]_vars PROVE Inv'
    OBVIOUS
<1>1. CASE Quit
  <2>1. Gone /\ state' = "ended" /\ jobs' = <<>> /\ cache' = cache
      BY <1>1 DEF Quit
  <2> QED
      BY <2>1, InvRuns
<1>2. ASSUME NEW old \in SUBSET Keys, Start(old) PROVE Inv'
  <2>1. Gone /\ state' = "loading" /\ jobs' = <<Job(StoryList)>>
      BY <1>2 DEF Start
  <2>2. \A k \in Keys : cache'[k].kind = cache[k].kind
      BY <1>2 DEF Start, TypeOK
  <2> QED
      BY <2>1, <2>2, InvRuns
<1>3. CASE UNCHANGED vars
    BY <1>3 DEF vars, Inv, JobsAreHonest, SelectedIsAsked, Asked, FilesAreWhole,
                CrashesHaveACause
<1> QED
    BY <1>1, <1>2, <1>3, InvWorks, InvDelivers, InvEnter DEF Next

LEMMA Initially == Init => Inv
<1> SUFFICES ASSUME Init PROVE Inv
    OBVIOUS
<1>1. \A j \in DOMAIN jobs : jobs[j] = Job(StoryList)
    BY DEF Init
<1>2. JobsAreHonest /\ Asked = {}
    BY <1>1 DEF JobsAreHonest, JobIsHonest, Job, Asked
<1>3. FilesAreWhole
    BY DEF Init, FilesAreWhole, Absent
<1> QED
    BY <1>2, <1>3 DEF Init, Inv, SelectedIsAsked, CrashesHaveACause

LEMMA InvHolds == Spec => []Inv
BY Initially, InvInductive, TypeCorrect, PTL DEF Spec

-----------------------------------------------------------------------------
\* What is in the cache is all that the archive sent, but for writes under way or cut off.
THEOREM FilesAreAlwaysWhole == Spec => []FilesAreWhole
<1>1. Inv => FilesAreWhole
    BY DEF Inv
<1> QED
    BY <1>1, InvHolds, PTL

\* The picker comes down over nothing but a strange answer, a file that was cut off or
\* one read while another download wrote it.
THEOREM CrashesAlwaysHaveACause == Spec => []CrashesHaveACause
<1>1. Inv => CrashesHaveACause
    BY DEF Inv
<1> QED
    BY <1>1, InvHolds, PTL

\* However many downloads are on their way, what is played was asked for; and when it
\* is all that was asked for, it goes by its own name.
THEOREM PlayedAlwaysGoesByItsName == Spec => []PlayedGoesByItsName
<1>1. Inv => PlayedGoesByItsName
    BY DEF Inv, SelectedIsAsked, PlayedGoesByItsName
<1> QED
    BY <1>1, InvHolds, PTL
===============================================================================

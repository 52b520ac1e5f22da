-------------------------- MODULE ComponentProofs --------------------------
(***************************************************************************)
(* Theorems about three components the others lean on: the analysis jobs   *)
(* of stories and the promise they keep, for any number of analysts,       *)
(* turns, tries and generations; the circuit before the store, for any     *)
(* number of overlapping requests and any threshold; and the store's       *)
(* events, for any number of products, changes, polls and turns.           *)
(***************************************************************************)
EXTENDS StoryJobs, TrayCircuit, StoreEvents, WellFoundedInduction, TLAPS

(***************************************************************************)
(* The jobs of stories.                                                    *)
(***************************************************************************)
JobType     == [status : JobStatus, generation : Generations, tries : 0..MaxTries,
                holder : SUBSET Analysts, leased : BOOLEAN, expired : BOOLEAN,
                result : 0..MaxGeneration]
AnalystType == [doing : {"idle", "analyzing", "writing", "publishing"},
                generation : Generations, tries : 0..MaxTries,
                writes : SUBSET Outcomes, late : BOOLEAN]
ReaderType  == [doing : {"idle", "asked", "filling", "waiting"},
                generation : Generations, evidence : 0..MaxGeneration]

\* What the assumption says in arithmetic.
LEMMA StoryBounds ==
  /\ MaxTries \in Nat /\ 0 < MaxTries
  /\ MaxGeneration \in Nat /\ 1 <= MaxGeneration
  /\ 0 \in 0..MaxTries /\ 0 \in 0..MaxGeneration /\ 1 \in Generations
  /\ \A g \in Generations : g \in 0..MaxGeneration /\ g # 0
BY StoryAssumption DEF StoryAssumption, Generations

LEMMA StartsTyped == Resting \in AnalystType /\ Quiet \in ReaderType
BY StoryBounds DEF Resting, Quiet, AnalystType, ReaderType

\* A job a write leaves is one the invariant allows.
GoodJob(j) ==
  /\ j \in JobType
  /\ j.expired => j.generation < MaxGeneration
  /\ j.status = "ready" => j.result = j.generation

\* The invariant speaks of each variable by itself.
LEMMA InvByVariable ==
  StoryInv <=>
    /\ GoodJob(job)
    /\ available \in BOOLEAN
    /\ cache \in [Generations -> 0..MaxGeneration] /\ CopiesAreTrue
    /\ analyst \in [Analysts -> AnalystType]
    /\ reader \in [Readers -> ReaderType] /\ FillsWhatItRead /\ EvidenceIsCurrent
BY DEF StoryInv, StoryTypeOK, ReadyHasResult, GoodJob, JobType, AnalystType, ReaderType

LEMMA NextByVariable ==
  StoryInv' <=>
    /\ GoodJob(job')
    /\ available' \in BOOLEAN
    /\ cache' \in [Generations -> 0..MaxGeneration] /\ CopiesAreTrue'
    /\ analyst' \in [Analysts -> AnalystType]
    /\ reader' \in [Readers -> ReaderType] /\ FillsWhatItRead' /\ EvidenceIsCurrent'
BY DEF StoryInv, StoryTypeOK, ReadyHasResult, GoodJob, JobType, AnalystType, ReaderType

\* What an analyst writes is a result of the generation it claimed.
LEMMA WriteKeepsJob ==
  ASSUME StoryInv, NEW a \in Analysts, NEW k, WriteOutcome(a, k)
  PROVE  GoodJob(job') /\ available' \in BOOLEAN
<1>1. GoodJob(job) /\ available \in BOOLEAN /\ analyst[a] \in AnalystType
  BY InvByVariable
<1>2. CASE ~Holds(a)
  BY <1>1, <1>2 DEF WriteOutcome
<1>3. CASE Holds(a)
  <2>1. job' = Written(a, k) /\ available' = FALSE /\ job.generation = analyst[a].generation
    BY <1>3 DEF WriteOutcome, Holds
  <2>2. analyst[a].generation \in 0..MaxGeneration /\ 0 \in 0..MaxGeneration
    BY <1>1, StoryBounds DEF AnalystType
  <2>3. Written(a, k) \in JobType
    BY <1>1, <2>2 DEF Written, GoodJob, JobType, JobStatus
  <2>4. Written(a, k).generation = job.generation /\ ~Written(a, k).expired
        /\ (Written(a, k).status = "ready" => Written(a, k).result = analyst[a].generation)
    BY <1>1 DEF Written, GoodJob, JobType
  <2> QED
    BY <2>1, <2>3, <2>4 DEF GoodJob
<1> QED
  BY <1>2, <1>3

\* ensure_job leaves a good job, renewed or not.
LEMMA RenewedIsGood ==
  ASSUME StoryInv
  PROVE  GoodJob(Renewed)
<1>1. GoodJob(job)
  BY InvByVariable
<1>2. CASE ~job.expired
  BY <1>1, <1>2 DEF Renewed
<1>3. CASE job.expired
  <2>1. job.generation + 1 \in Generations /\ job.generation \in Generations
    BY <1>1, <1>3, StoryBounds DEF GoodJob, JobType, Generations
  <2> QED
    BY <1>1, <1>3, <2>1, StoryBounds DEF Renewed, GoodJob, JobType, JobStatus
<1> QED
  BY <1>2, <1>3

LEMMA AnalystKeeps ==
  ASSUME StoryInv, NEW a \in Analysts, ClaimJob(a) \/ AnalystStep(a)
  PROVE  StoryInv'
<1> USE StoryBounds, StartsTyped
<1>1. GoodJob(job) /\ available \in BOOLEAN /\ analyst \in [Analysts -> AnalystType]
      /\ cache \in [Generations -> 0..MaxGeneration] /\ CopiesAreTrue
      /\ reader \in [Readers -> ReaderType] /\ FillsWhatItRead /\ EvidenceIsCurrent
  BY InvByVariable
<1>2. UNCHANGED reader
  BY DEF ClaimJob, AnalystStep, Concludes, TimesOut, FinishJob, WriteFails, Publish, AnalystDies
<1>3. reader' \in [Readers -> ReaderType] /\ FillsWhatItRead' /\ EvidenceIsCurrent'
  BY <1>1, <1>2 DEF FillsWhatItRead, EvidenceIsCurrent
<1>4. CASE ClaimJob(a)
  <2>1. job.tries + 1 \in 0..MaxTries /\ job.generation \in Generations
    BY <1>1, <1>4 DEF ClaimJob, GoodJob, JobType
  <2>2. job' \in JobType /\ job'.expired = job.expired /\ job'.generation = job.generation
        /\ job'.status = "processing"
    BY <1>1, <1>4, <2>1 DEF ClaimJob, GoodJob, JobType, JobStatus
  <2>3. analyst' \in [Analysts -> AnalystType]
    BY <1>1, <1>4, <2>1 DEF ClaimJob, AnalystType
  <2>4. GoodJob(job')
    BY <1>1, <2>2 DEF GoodJob
  <2>5. UNCHANGED <<available, cache>>
    BY <1>4 DEF ClaimJob
  <2> QED
    BY <1>1, <1>3, <2>3, <2>4, <2>5, NextByVariable DEF CopiesAreTrue
<1>5. CASE Concludes(a) \/ TimesOut(a) \/ AnalystDies(a)
  <2>1. analyst' \in [Analysts -> AnalystType]
    BY <1>1, <1>5 DEF Concludes, TimesOut, AnalystDies, AnalystType, Outcomes
  <2> QED
    BY <1>1, <1>3, <1>5, <2>1, NextByVariable
       DEF Concludes, TimesOut, AnalystDies, GoodJob, CopiesAreTrue
<1>6. CASE FinishJob(a)
  <2>1. PICK k \in analyst[a].writes : WriteOutcome(a, k) /\ analyst' = [analyst EXCEPT ![a] = Left(a, k)]
    BY <1>6 DEF FinishJob
  <2>2. Left(a, k) \in AnalystType
    BY <1>1 DEF Left, AnalystType
  <2> QED
    BY <1>1, <1>3, <1>6, <2>1, <2>2, WriteKeepsJob, NextByVariable DEF FinishJob, CopiesAreTrue
<1>7. CASE WriteFails(a)
  <2>1. analyst' \in [Analysts -> AnalystType]
    BY <1>1, <1>7 DEF WriteFails, AnalystType, Outcomes
  <2>2. GoodJob(job') /\ available' \in BOOLEAN
    BY <1>1, <1>7, WriteKeepsJob DEF WriteFails
  <2> QED
    BY <1>1, <1>3, <1>7, <2>1, <2>2, NextByVariable DEF WriteFails, CopiesAreTrue
<1>8. CASE Publish(a)
  <2>1. analyst' \in [Analysts -> AnalystType]
    BY <1>1, <1>8 DEF Publish
  <2>2. cache' \in [Generations -> 0..MaxGeneration] /\ CopiesAreTrue'
    BY <1>1, <1>8 DEF Publish, CopiesAreTrue, AnalystType
  <2> QED
    BY <1>1, <1>3, <1>8, <2>1, <2>2, NextByVariable DEF Publish, GoodJob
<1> QED
  BY <1>4, <1>5, <1>6, <1>7, <1>8 DEF AnalystStep

LEMMA ReaderKeeps ==
  ASSUME StoryInv, NEW r \in Readers,
         Resume(r) \/ Ask(r) \/ ReadCache(r) \/ ReadRow(r) \/ FillCache(r) \/ TurnDies(r)
  PROVE  StoryInv'
<1> USE StoryBounds, StartsTyped
<1>1. GoodJob(job) /\ available \in BOOLEAN /\ analyst \in [Analysts -> AnalystType]
      /\ cache \in [Generations -> 0..MaxGeneration] /\ CopiesAreTrue
      /\ reader \in [Readers -> ReaderType] /\ FillsWhatItRead /\ EvidenceIsCurrent
  BY InvByVariable
<1>2. UNCHANGED <<available, analyst>>
  BY DEF Resume, Ask, ReadCache, ReadRow, FillCache, TurnDies
<1>3. Quiet.doing = "idle" /\ Quiet.evidence = 0
  BY DEF Quiet
<1>4. CASE Resume(r) \/ TurnDies(r)
  <2>1. reader' \in [Readers -> ReaderType] /\ FillsWhatItRead' /\ EvidenceIsCurrent'
    BY <1>1, <1>3, <1>4 DEF Resume, TurnDies, FillsWhatItRead, EvidenceIsCurrent
  <2> QED
    BY <1>1, <1>2, <1>4, <2>1, NextByVariable DEF Resume, TurnDies, GoodJob, CopiesAreTrue
<1>5. CASE Ask(r)
  <2> DEFINE new == CASE Renewed.status = "ready"  -> [doing |-> "asked", generation |-> Renewed.generation, evidence |-> 0]
                      [] Renewed.status = "failed" -> Quiet
                      [] OTHER                     -> [Quiet EXCEPT !.doing = "waiting"]
  <2>1. GoodJob(job')
    BY <1>5, RenewedIsGood DEF Ask
  <2>2. Renewed.generation \in Generations
    BY RenewedIsGood DEF GoodJob, JobType
  <2>3. new \in ReaderType /\ new.doing # "filling" /\ new.evidence = 0
    BY <2>2 DEF ReaderType, Quiet
  <2>4. reader' = [reader EXCEPT ![r] = new]
    BY <1>5 DEF Ask
  <2> HIDE DEF new
  <2>5. reader' \in [Readers -> ReaderType] /\ FillsWhatItRead' /\ EvidenceIsCurrent'
    BY <1>1, <2>3, <2>4 DEF FillsWhatItRead, EvidenceIsCurrent
  <2> QED
    BY <1>1, <1>2, <1>5, <2>1, <2>5, NextByVariable DEF Ask, CopiesAreTrue
<1>6. CASE ReadCache(r)
  <2>1. cache[reader[r].generation] = reader[r].generation /\ reader[r].generation \in 0..MaxGeneration
    BY <1>1, <1>6 DEF ReadCache, CopiesAreTrue, ReaderType
  <2>2. reader' \in [Readers -> ReaderType] /\ FillsWhatItRead' /\ EvidenceIsCurrent'
    BY <1>1, <1>6, <2>1 DEF ReadCache, ReaderType, FillsWhatItRead, EvidenceIsCurrent
  <2> QED
    BY <1>1, <1>2, <1>6, <2>2, NextByVariable DEF ReadCache, GoodJob, CopiesAreTrue
<1>7. CASE ReadRow(r)
  <2> DEFINE new == IF job.generation = reader[r].generation /\ job.status = "ready" /\ ~job.expired
                      THEN [reader[r] EXCEPT !.doing = "filling", !.evidence = job.result]
                      ELSE [Quiet EXCEPT !.doing = "waiting"]
  <2>1. new \in ReaderType /\ (new.doing = "filling" => new.evidence = new.generation)
        /\ new.evidence \in {0, new.generation}
    BY <1>1 DEF ReaderType, Quiet, GoodJob, JobType
  <2>2. reader' = [reader EXCEPT ![r] = new]
    BY <1>7 DEF ReadRow
  <2> HIDE DEF new
  <2>3. reader' \in [Readers -> ReaderType] /\ FillsWhatItRead' /\ EvidenceIsCurrent'
    BY <1>1, <2>1, <2>2 DEF FillsWhatItRead, EvidenceIsCurrent
  <2> QED
    BY <1>1, <1>2, <1>7, <2>3, NextByVariable DEF ReadRow, GoodJob, CopiesAreTrue
<1>8. CASE FillCache(r)
  <2>1. reader' \in [Readers -> ReaderType] /\ FillsWhatItRead' /\ EvidenceIsCurrent'
    BY <1>1, <1>8 DEF FillCache, ReaderType, FillsWhatItRead, EvidenceIsCurrent
  <2>2. cache' \in [Generations -> 0..MaxGeneration] /\ CopiesAreTrue'
    BY <1>1, <1>8 DEF FillCache, ReaderType, FillsWhatItRead, CopiesAreTrue
  <2> QED
    BY <1>1, <1>2, <1>8, <2>1, <2>2, NextByVariable DEF FillCache, GoodJob
<1> QED
  BY <1>4, <1>5, <1>6, <1>7, <1>8

LEMMA OthersKeep ==
  ASSUME StoryInv, GiveUp \/ Unlink \/ LeaseLapses \/ Expires \/ ComesDue \/ Evict \/ UNCHANGED storyVars
  PROVE  StoryInv'
<1> USE StoryBounds
<1>1. GoodJob(job) /\ available \in BOOLEAN /\ analyst \in [Analysts -> AnalystType]
      /\ cache \in [Generations -> 0..MaxGeneration] /\ CopiesAreTrue
      /\ reader \in [Readers -> ReaderType] /\ FillsWhatItRead /\ EvidenceIsCurrent
  BY InvByVariable
<1>2. UNCHANGED <<analyst, reader>>
  BY DEF GiveUp, Unlink, LeaseLapses, Expires, ComesDue, Evict, storyVars
<1>3. analyst' \in [Analysts -> AnalystType] /\ reader' \in [Readers -> ReaderType]
      /\ FillsWhatItRead' /\ EvidenceIsCurrent'
  BY <1>1, <1>2 DEF FillsWhatItRead, EvidenceIsCurrent
<1>4. cache' \in [Generations -> 0..MaxGeneration] /\ CopiesAreTrue'
  BY <1>1 DEF GiveUp, Unlink, LeaseLapses, Expires, ComesDue, Evict, storyVars, CopiesAreTrue
<1>5. available' \in BOOLEAN
  BY <1>1 DEF GiveUp, Unlink, LeaseLapses, Expires, ComesDue, Evict, storyVars
<1>6. GoodJob(job')
  <2>1. CASE Unlink
    <3>1. job.generation + 1 \in Generations
      BY <1>1, <2>1 DEF Unlink, GoodJob, JobType, Generations
    <3> QED
      BY <2>1, <3>1 DEF Unlink, GoodJob, JobType, JobStatus
  <2>2. CASE GiveUp \/ LeaseLapses \/ Expires
    BY <1>1, <2>2 DEF GiveUp, LeaseLapses, Expires, GoodJob, JobType, JobStatus
  <2>3. CASE UNCHANGED job
    BY <1>1, <2>3
  <2> QED
    BY <2>1, <2>2, <2>3 DEF ComesDue, Evict, storyVars
<1> QED
  BY <1>3, <1>4, <1>5, <1>6, NextByVariable

LEMMA StoryStep == StoryInv /\ [StoryNext]_storyVars => StoryInv'
BY AnalystKeeps, ReaderKeeps, OthersKeep DEF StoryNext

\* The inductive invariant: copies and results carry the generation they are
\* filed under, whoever wrote them and whenever.
THEOREM StoryInvariant == StorySpec => []StoryInv
<1>1. StoryInit => StoryInv
  <2> SUFFICES ASSUME StoryInit PROVE StoryInv
    OBVIOUS
  <2>1. GoodJob(job) /\ available \in BOOLEAN
    BY StoryBounds DEF StoryInit, GoodJob, JobType, JobStatus
  <2>2. cache \in [Generations -> 0..MaxGeneration] /\ CopiesAreTrue
    BY StoryBounds DEF StoryInit, CopiesAreTrue
  <2>3. analyst \in [Analysts -> AnalystType] /\ reader \in [Readers -> ReaderType]
    BY StartsTyped DEF StoryInit
  <2>4. FillsWhatItRead /\ EvidenceIsCurrent
    BY DEF StoryInit, FillsWhatItRead, EvidenceIsCurrent, Quiet
  <2> QED
    BY <2>1, <2>2, <2>3, <2>4, InvByVariable
<1> QED
  BY <1>1, StoryStep, PTL DEF StorySpec

\* A turn never uses evidence from before an unlinking that preceded it.
THEOREM NoStaleEvidence == StorySpec => []EvidenceIsCurrent
<1>1. StoryInv => EvidenceIsCurrent
  BY DEF StoryInv
<1> QED
  BY <1>1, StoryInvariant, PTL

\* The first result of a generation is final.
THEOREM ResultsStay == StorySpec => ReadyIsFinal
<1>1. StoryInv /\ [StoryNext]_storyVars =>
        [ job.status = "ready" /\ job'.generation = job.generation
            => job'.status = "ready" /\ job'.result = job.result ]_storyVars
  <2> SUFFICES ASSUME StoryInv, StoryNext, job.status = "ready", job'.generation = job.generation
               PROVE  job'.status = "ready" /\ job'.result = job.result
    BY DEF storyVars
  <2>1. job \in JobType /\ job.generation \in Nat
    BY InvByVariable, StoryBounds DEF GoodJob, JobType, Generations
  <2>2. job.generation + 1 # job.generation
    BY <2>1
  <2>3. ASSUME NEW a \in Analysts, ClaimJob(a) \/ AnalystStep(a) PROVE UNCHANGED job
    <3>1. ~Holds(a) /\ ~ClaimJob(a)
      BY DEF Holds, ClaimJob
    <3> QED
      BY <2>3, <3>1 DEF AnalystStep, Concludes, TimesOut, FinishJob, WriteFails, WriteOutcome,
         Publish, AnalystDies
  <2>4. ASSUME NEW r \in Readers, Ask(r) PROVE UNCHANGED job
    BY <2>1, <2>2, <2>4 DEF Ask, Renewed, JobType
  <2>5. ASSUME LeaseLapses \/ Expires PROVE job'.status = "ready" /\ job'.result = job.result
    BY <2>1, <2>5 DEF LeaseLapses, Expires, JobType
  <2>6. ~GiveUp /\ ~Unlink
    BY <2>1, <2>2 DEF GiveUp, GivesUp, Exhausted, Unlink
  <2> QED
    BY <2>3, <2>4, <2>5, <2>6
       DEF StoryNext, Resume, ReadCache, ReadRow, FillCache, TurnDies, ComesDue, Evict
<1> QED
  BY <1>1, StoryInvariant, PTL DEF StorySpec, ReadyIsFinal

(***************************************************************************)
(* The turns that wait for a job.                                          *)
(***************************************************************************)
\* The types that the counting of attempts needs.
ServeTyped == job \in JobType /\ analyst \in [Analysts -> AnalystType] /\ MaxTries \in Nat

LEMMA ServeTypes == StoryInv => ServeTyped
BY InvByVariable, StoryBounds DEF ServeTyped, GoodJob

\* A write leaves an attempt to a job it leaves pending.
LEMMA WriteServes ==
  ASSUME ServeInv, NEW a \in Analysts, analyst[a].doing # "idle",
         NEW k \in Outcomes, WriteOutcome(a, k) \/ UNCHANGED job,
         NEW t \in AnalystType, analyst' = [analyst EXCEPT ![a] = t],
         t.doing = "idle" \/ (t.generation = analyst[a].generation /\ t.tries = analyst[a].tries)
  PROVE  HoldersCount' /\ PendingMayTry'
<1>0. ServeTyped /\ HoldersCount /\ PendingMayTry
  BY ServeTypes DEF ServeInv
<1>1. CASE UNCHANGED job
  BY <1>0, <1>1 DEF ServeTyped, HoldersCount, PendingMayTry
<1>2. CASE job' = Written(a, k) /\ Holds(a)
  <2>1. job'.holder = {} /\ job'.generation = job.generation /\ job'.tries = job.tries
    BY <1>0, <1>2 DEF Written, ServeTyped, JobType
  <2>2. job'.status = "pending" => ~Terminal(a, k) /\ k # "result"
    BY <1>0, <1>2 DEF Written, ServeTyped, JobType
  <2>3. job.tries = analyst[a].tries
    BY <1>0, <1>2 DEF Holds, HoldersCount
  <2>4. PendingMayTry'
    BY <1>0, <2>1, <2>2, <2>3 DEF Terminal, Outcomes, ServeTyped, JobType, PendingMayTry
  <2>5. HoldersCount'
    BY <1>0, <2>1 DEF HoldersCount, ServeTyped
  <2> QED
    BY <2>4, <2>5
<1> QED
  BY <1>1, <1>2 DEF WriteOutcome

LEMMA AnalystServes ==
  ASSUME ServeInv, NEW a \in Analysts, ClaimJob(a) \/ AnalystStep(a)
  PROVE  HoldersCount' /\ PendingMayTry'
<1>0. ServeTyped /\ HoldersCount /\ PendingMayTry
  BY ServeTypes DEF ServeInv
<1>1. CASE ClaimJob(a)
  <2>1. /\ job'.holder = {a} /\ job'.tries = job.tries + 1 /\ job'.generation = job.generation
        /\ job'.status = "processing"
    BY <1>0, <1>1 DEF ClaimJob, ServeTyped, JobType
  <2>2. /\ analyst'[a].generation = job.generation /\ analyst'[a].tries = job.tries + 1
        /\ \A b \in Analysts \ {a} : analyst'[b] = analyst[b]
    BY <1>0, <1>1 DEF ClaimJob, ServeTyped
  <2>3. job.generation <= job.generation
    BY <1>0 DEF ServeTyped, JobType, Generations
  <2>4. HoldersCount'
    BY <1>0, <2>1, <2>2, <2>3 DEF HoldersCount
  <2> QED
    BY <2>1, <2>4 DEF PendingMayTry
<1>2. CASE Concludes(a) \/ TimesOut(a) \/ Publish(a) \/ AnalystDies(a)
  <2> DEFINE t == analyst'[a]
  <2>1. analyst[a].doing # "idle" /\ UNCHANGED job
    BY <1>2 DEF Concludes, TimesOut, Publish, AnalystDies
  <2>2. analyst' = [analyst EXCEPT ![a] = t] /\ t \in AnalystType
    BY <1>0, <1>2, StartsTyped
       DEF Concludes, TimesOut, Publish, AnalystDies, ServeTyped, AnalystType, Outcomes
  <2>3. t.doing = "idle" \/ (t.generation = analyst[a].generation /\ t.tries = analyst[a].tries)
    BY <1>0, <1>2 DEF Concludes, TimesOut, Publish, AnalystDies, Resting, ServeTyped, AnalystType
  <2> HIDE DEF t
  <2> QED
    BY <2>1, <2>2, <2>3, WriteServes DEF Outcomes
<1>3. CASE FinishJob(a)
  <2>1. PICK k \in analyst[a].writes :
          WriteOutcome(a, k) /\ analyst' = [analyst EXCEPT ![a] = Left(a, k)]
    BY <1>3 DEF FinishJob
  <2>2. k \in Outcomes /\ Left(a, k) \in AnalystType
    BY <1>0, <2>1, StartsTyped DEF ServeTyped, AnalystType, Left
  <2>3. Left(a, k).doing = "idle" \/ (/\ Left(a, k).generation = analyst[a].generation
                                      /\ Left(a, k).tries = analyst[a].tries)
    BY <1>0 DEF Left, Resting, ServeTyped, AnalystType
  <2> QED
    BY <1>3, <2>1, <2>2, <2>3, WriteServes DEF FinishJob
<1>4. CASE WriteFails(a)
  <2>1. PICK k \in analyst[a].writes :
          /\ WriteOutcome(a, k) \/ UNCHANGED <<job, available>>
          /\ analyst' = [analyst EXCEPT ![a] =
               IF k = "result" /\ ~analyst[a].late THEN [analyst[a] EXCEPT !.writes = {"error"}]
               ELSE IF analyst[a].writes = {k} THEN Resting
               ELSE [analyst[a] EXCEPT !.writes = analyst[a].writes \ {k}]]
    BY <1>4 DEF WriteFails
  <2> DEFINE t == IF k = "result" /\ ~analyst[a].late THEN [analyst[a] EXCEPT !.writes = {"error"}]
                  ELSE IF analyst[a].writes = {k} THEN Resting
                  ELSE [analyst[a] EXCEPT !.writes = analyst[a].writes \ {k}]
  <2>2. k \in Outcomes /\ t \in AnalystType
    BY <1>0, <2>1, StartsTyped DEF ServeTyped, AnalystType, Outcomes
  <2>3. t.doing = "idle" \/ (t.generation = analyst[a].generation /\ t.tries = analyst[a].tries)
    BY <1>0 DEF Resting, ServeTyped, AnalystType
  <2>4. analyst' = [analyst EXCEPT ![a] = t]
    BY <2>1
  <2> HIDE DEF t
  <2> QED
    BY <1>4, <2>1, <2>2, <2>3, <2>4, WriteServes DEF WriteFails
<1> QED
  BY <1>1, <1>2, <1>3, <1>4 DEF AnalystStep

LEMMA OthersServe ==
  ASSUME ServeInv, StoryNext, ~\E a \in Analysts : ClaimJob(a) \/ AnalystStep(a)
  PROVE  HoldersCount' /\ PendingMayTry'
<1>0. ServeTyped /\ HoldersCount /\ PendingMayTry
  BY ServeTypes DEF ServeInv
<1>1. UNCHANGED analyst
  BY DEF StoryNext, GiveUp, Resume, Ask, ReadCache, ReadRow, FillCache, TurnDies, Unlink,
     LeaseLapses, Expires, ComesDue, Evict
<1>2. CASE UNCHANGED <<analyst, job>>
  BY <1>0, <1>2 DEF HoldersCount, PendingMayTry
<1>3. ASSUME job'.generation = job.generation + 1, job'.status = "pending", job'.tries = 0
      PROVE  HoldersCount' /\ PendingMayTry'
  BY <1>0, <1>1, <1>3, StoryBounds
     DEF HoldersCount, PendingMayTry, ServeTyped, JobType, AnalystType, Generations
<1>4. CASE \E r \in Readers : Ask(r)
  <2>1. job' = Renewed
    BY <1>4 DEF Ask
  <2>2. CASE job.expired
    <3>1. job'.generation = job.generation + 1 /\ job'.status = "pending" /\ job'.tries = 0
      BY <1>0, <2>1, <2>2 DEF Renewed, ServeTyped, JobType
    <3> QED
      BY <1>3, <3>1
  <2> QED
    BY <1>1, <1>2, <2>1, <2>2 DEF Renewed
<1>5. CASE Unlink
  BY <1>3, <1>5 DEF Unlink
<1>6. CASE GiveUp \/ LeaseLapses \/ Expires
  BY <1>0, <1>1, <1>6
     DEF GiveUp, LeaseLapses, Expires, HoldersCount, PendingMayTry, ServeTyped, JobType
<1>7. UNCHANGED job \/ (\E r \in Readers : Ask(r)) \/ Unlink \/ GiveUp \/ LeaseLapses \/ Expires
  BY DEF StoryNext, Resume, ReadCache, ReadRow, FillCache, TurnDies, ComesDue, Evict
<1> QED
  BY <1>1, <1>2, <1>4, <1>5, <1>6, <1>7

\* The inductive invariant behind it: whoever holds the job counts its attempts
\* as the row does, and a pending job has one left (claim_job, finish_job).
THEOREM ServeInvariant == StorySpec => []ServeInv
<1>1. StoryInit => HoldersCount /\ PendingMayTry
  BY StoryBounds DEF StoryInit, HoldersCount, PendingMayTry, Resting
<1>2. ServeInv /\ [StoryNext]_storyVars => HoldersCount' /\ PendingMayTry'
  <2>1. CASE UNCHANGED storyVars
    BY <2>1 DEF storyVars, ServeInv, HoldersCount, PendingMayTry
  <2> QED
    BY <2>1, AnalystServes, OthersServe
<1>3. StorySpec => [](HoldersCount /\ PendingMayTry)
  BY <1>1, <1>2, StoryInvariant, PTL DEF StorySpec, ServeInv
<1> QED
  BY <1>3, StoryInvariant, PTL DEF ServeInv

\* Turns that wait for a job are not stranded: it ends, is being analyzed, may
\* be claimed once more or is given up.
THEOREM WaitersServed == StorySpec => []WaitersAreServed
<1>1. ServeInv => WaitersAreServed
  <2> SUFFICES ASSUME ServeInv PROVE WaitersAreServed
    OBVIOUS
  <2>1. ServeTyped
    BY ServeTypes DEF ServeInv
  <2> QED
    BY <2>1 DEF ServeInv, PendingMayTry, WaitersAreServed, GivesUp, Exhausted, ServeTyped, JobType,
       JobStatus
<1> QED
  BY <1>1, ServeInvariant, PTL

(***************************************************************************)
(* Refinement: StoryJobs implements EvidencePromise.                       *)
(***************************************************************************)
\* The job and the turns, as EvidencePromise sees them.
Outcome == IF job.status \in {"ready", "failed"} THEN job.status ELSE "open"
Promised == [r \in Readers |-> IF reader[r].doing = "asked" \/ reader[r].evidence # 0
                                 THEN reader[r].generation ELSE 0]
Used == [r \in Readers |-> reader[r].evidence]

EvidenceStep == [Evidence!EvidenceNext]_(Evidence!evidenceVars)

LEMMA StepFromViews ==
  /\ (Outcome' = Outcome /\ Promised' = Promised /\ Used' = Used
       /\ job'.generation = job.generation) => EvidenceStep
  /\ Evidence!EvidenceNext => EvidenceStep
BY DEF EvidenceStep, Evidence!evidenceVars, Outcome, Promised, Used

\* The turns seen from the promise, when one of them steps.
LEMMA OneTurnMoves ==
  ASSUME NEW r \in Readers, NEW t, reader \in [Readers -> ReaderType], reader' = [reader EXCEPT ![r] = t]
  PROVE  /\ Promised' = [Promised EXCEPT ![r] = IF t.doing = "asked" \/ t.evidence # 0
                                                  THEN t.generation ELSE 0]
         /\ Used' = [Used EXCEPT ![r] = t.evidence]
BY DEF Promised, Used

LEMMA TurnForgets ==
  ASSUME NEW r \in Readers, NEW t, reader \in [Readers -> ReaderType],
         reader' = [reader EXCEPT ![r] = t], t.doing # "asked", t.evidence = 0
  PROVE  Evidence!Forget(r)
BY OneTurnMoves DEF Evidence!Forget, Promised, Used

LEMMA TurnLetsGo ==
  ASSUME NEW r \in Readers, NEW t, reader \in [Readers -> ReaderType],
         reader' = [reader EXCEPT ![r] = t], t.doing # "asked", t.evidence = 0,
         Outcome' = Outcome, job'.generation = job.generation
  PROVE  EvidenceStep
<1>1. Evidence!LetGo(r)
  BY TurnForgets DEF Evidence!LetGo, Outcome
<1> QED
  BY <1>1, StepFromViews DEF Evidence!EvidenceNext

\* Using what was promised, from Redis or from the row.
LEMMA TurnUses ==
  ASSUME NEW r \in Readers, NEW t, reader \in [Readers -> ReaderType],
         reader[r].doing = "asked", reader' = [reader EXCEPT ![r] = t], UNCHANGED job,
         t.generation = reader[r].generation, t.evidence = reader[r].generation,
         reader[r].generation # 0
  PROVE  EvidenceStep
<1>1. Promised[r] = reader[r].generation
  BY DEF Promised
<1>2. Promised' = Promised
  BY <1>1, OneTurnMoves DEF Promised
<1>3. Used' = [Used EXCEPT ![r] = Promised[r]]
  <2>1. Used' = [Used EXCEPT ![r] = t.evidence]
    BY OneTurnMoves, Zenon
  <2> QED
    BY <1>1, <2>1
<1>4. Evidence!Use(r)
  BY <1>1, <1>2, <1>3 DEF Evidence!Use, Promised, Used
<1> QED
  BY <1>4, StepFromViews DEF Evidence!EvidenceNext

LEMMA EvidenceAsked ==
  ASSUME StoryInv, NEW r \in Readers, Ask(r)
  PROVE  EvidenceStep
<1>0. reader \in [Readers -> ReaderType] /\ job \in JobType /\ Renewed \in JobType
  BY InvByVariable, RenewedIsGood DEF GoodJob
<1>1. Quiet.doing = "idle" /\ Quiet.evidence = 0
      /\ [Quiet EXCEPT !.doing = "waiting"].doing = "waiting"
      /\ [Quiet EXCEPT !.doing = "waiting"].evidence = 0
  BY DEF Quiet
<1>2. CASE Renewed.status = "ready"
  <2> DEFINE t == [doing |-> "asked", generation |-> job.generation, evidence |-> 0]
  <2>1. UNCHANGED job /\ reader' = [reader EXCEPT ![r] = t] /\ job.status = "ready"
    BY <1>0, <1>2 DEF Ask, Renewed, JobType
  <2>2. t.doing = "asked" /\ t.generation = job.generation /\ t.evidence = 0
    OBVIOUS
  <2> HIDE DEF t
  <2>3. Promised' = [Promised EXCEPT ![r] = job.generation] /\ Used' = [Used EXCEPT ![r] = 0]
    <3>1. /\ Promised' = [Promised EXCEPT ![r] = IF t.doing = "asked" \/ t.evidence # 0
                                                   THEN t.generation ELSE 0]
          /\ Used' = [Used EXCEPT ![r] = t.evidence]
      BY <1>0, <2>1, OneTurnMoves, Zenon
    <3> QED
      BY <2>2, <3>1
  <2>4. Evidence!PromiseTo(r)
    BY <2>1, <2>3 DEF Evidence!PromiseTo, Promised, Used
  <2> QED
    BY <2>4, StepFromViews DEF Evidence!EvidenceNext
<1>3. CASE Renewed.status # "ready"
  <2>1. PICK t : reader' = [reader EXCEPT ![r] = t] /\ t.doing # "asked" /\ t.evidence = 0
    BY <1>1, <1>3 DEF Ask
  <2>2. CASE UNCHANGED job
    BY <1>0, <2>1, <2>2, TurnLetsGo DEF Outcome
  <2>3. CASE job.expired
    <3>1. job'.generation = job.generation + 1 /\ Outcome' = "open"
      BY <1>0, <2>3 DEF Ask, Renewed, JobType, Outcome
    <3>2. Evidence!Forget(r)
      BY <1>0, <2>1, TurnForgets
    <3>3. Evidence!Renew
      BY <3>1, <3>2 DEF Evidence!Renew, Outcome
    <3> QED
      BY <3>3, StepFromViews DEF Evidence!EvidenceNext
  <2> QED
    BY <2>2, <2>3 DEF Ask, Renewed
<1> QED
  BY <1>2, <1>3

LEMMA ReaderStepsPromise ==
  ASSUME StoryInv, NEW r \in Readers,
         Resume(r) \/ Ask(r) \/ ReadCache(r) \/ ReadRow(r) \/ FillCache(r) \/ TurnDies(r)
  PROVE  EvidenceStep
<1>0. reader \in [Readers -> ReaderType] /\ GoodJob(job) /\ reader[r] \in ReaderType
      /\ CopiesAreTrue /\ FillsWhatItRead
  BY InvByVariable
<1>1. Quiet.doing = "idle" /\ Quiet.evidence = 0
      /\ [Quiet EXCEPT !.doing = "waiting"].doing = "waiting"
      /\ [Quiet EXCEPT !.doing = "waiting"].evidence = 0
  BY DEF Quiet
<1>2. reader[r].generation # 0 /\ reader[r].generation \in Generations
  BY <1>0, StoryBounds DEF ReaderType
<1>3. CASE Resume(r) \/ TurnDies(r)
  <2>1. UNCHANGED job /\ reader' = [reader EXCEPT ![r] = Quiet]
    BY <1>3 DEF Resume, TurnDies
  <2> QED
    BY <1>0, <1>1, <2>1, TurnLetsGo DEF Outcome
<1>4. CASE ReadCache(r)
  <2> DEFINE t == [reader[r] EXCEPT !.doing = "idle", !.evidence = cache[reader[r].generation]]
  <2>1. UNCHANGED job /\ reader[r].doing = "asked" /\ reader' = [reader EXCEPT ![r] = t]
    BY <1>0, <1>4 DEF ReadCache, ReaderType
  <2>2. cache[reader[r].generation] = reader[r].generation
    BY <1>2, <1>0, <1>4 DEF ReadCache, CopiesAreTrue
  <2>3. t.generation = reader[r].generation /\ t.evidence = reader[r].generation
    BY <1>0, <2>2 DEF ReaderType
  <2> HIDE DEF t
  <2> QED
    BY <1>0, <1>2, <2>1, <2>3, TurnUses
<1>5. CASE ReadRow(r)
  <2>1. CASE job.generation = reader[r].generation /\ job.status = "ready" /\ ~job.expired
    <3> DEFINE t == [reader[r] EXCEPT !.doing = "filling", !.evidence = job.result]
    <3>1. UNCHANGED job /\ reader[r].doing = "asked" /\ reader' = [reader EXCEPT ![r] = t]
      BY <1>5, <2>1 DEF ReadRow
    <3>2. t.generation = reader[r].generation /\ t.evidence = reader[r].generation
      BY <1>0, <2>1 DEF ReaderType, GoodJob
    <3> HIDE DEF t
    <3> QED
      BY <1>0, <1>2, <3>1, <3>2, TurnUses
  <2>2. CASE ~(job.generation = reader[r].generation /\ job.status = "ready" /\ ~job.expired)
    <3>1. UNCHANGED job /\ reader' = [reader EXCEPT ![r] = [Quiet EXCEPT !.doing = "waiting"]]
      BY <1>5, <2>2 DEF ReadRow
    <3> QED
      BY <1>0, <1>1, <3>1, TurnLetsGo DEF Outcome
  <2> QED
    BY <2>1, <2>2
<1>6. CASE FillCache(r)
  <2> DEFINE t == [reader[r] EXCEPT !.doing = "idle"]
  <2>1. UNCHANGED job /\ reader[r].doing = "filling" /\ reader' = [reader EXCEPT ![r] = t]
    BY <1>0, <1>6 DEF FillCache, ReaderType
  <2>2. t.doing = "idle" /\ t.generation = reader[r].generation /\ t.evidence = reader[r].evidence
    BY <1>0 DEF ReaderType
  <2>3. reader[r].evidence = reader[r].generation
    BY <1>0, <2>1 DEF FillsWhatItRead
  <2> HIDE DEF t
  <2>4. Promised' = Promised /\ Used' = Used
    BY <1>0, <1>2, <2>1, <2>2, <2>3, OneTurnMoves DEF Promised, Used
  <2> QED
    BY <2>1, <2>4, StepFromViews DEF Outcome
<1> QED
  BY <1>3, <1>4, <1>5, <1>6, EvidenceAsked

LEMMA JobStepsPromise ==
  ASSUME StoryInv, StoryNext, UNCHANGED reader
  PROVE  EvidenceStep
<1>0. job \in JobType
  BY InvByVariable DEF GoodJob
<1>1. UNCHANGED <<Promised, Used>>
  BY DEF Promised, Used
<1>2. ASSUME Outcome = "open", job'.generation = job.generation, Outcome' \in {"ready", "failed"}
      PROVE  EvidenceStep
  <2>1. Evidence!Conclude(Outcome')
    BY <1>1, <1>2 DEF Evidence!Conclude, Outcome, Promised, Used
  <2> QED
    BY <1>2, <2>1, StepFromViews DEF Evidence!EvidenceNext
<1>3. ASSUME job'.generation = job.generation + 1, Outcome' = "open"
      PROVE  EvidenceStep
  <2>1. Evidence!Renew
    BY <1>1, <1>3 DEF Evidence!Renew, Outcome, Promised, Used
  <2> QED
    BY <2>1, StepFromViews DEF Evidence!EvidenceNext
<1>4. ASSUME job'.generation = job.generation, Outcome' = Outcome
      PROVE  EvidenceStep
  BY <1>1, <1>4, StepFromViews
<1>5. ASSUME NEW a \in Analysts, NEW k, Holds(a), job' = Written(a, k)
      PROVE  EvidenceStep
  <2>1. job'.generation = job.generation /\ Outcome = "open" /\ Outcome' \in {"open", "ready", "failed"}
    BY <1>0, <1>5 DEF Holds, Written, JobType, Outcome
  <2> QED
    BY <1>2, <1>4, <2>1
<1>6. ASSUME NEW a \in Analysts, ClaimJob(a) PROVE EvidenceStep
  <2>1. job'.generation = job.generation /\ Outcome' = Outcome
    BY <1>0, <1>6 DEF ClaimJob, JobType, Outcome
  <2> QED
    BY <1>4, <2>1
<1>7. CASE UNCHANGED job
  BY <1>4, <1>7 DEF Outcome
<1>8. CASE GiveUp
  <2>1. job'.generation = job.generation /\ Outcome = "open" /\ Outcome' = "failed"
    BY <1>0, <1>8 DEF GiveUp, GivesUp, Exhausted, JobType, Outcome
  <2> QED
    BY <1>2, <2>1
<1>9. CASE Unlink
  BY <1>3, <1>9 DEF Unlink, Outcome
<1>10. CASE LeaseLapses \/ Expires
  <2>1. job'.generation = job.generation /\ Outcome' = Outcome
    BY <1>0, <1>10 DEF LeaseLapses, Expires, JobType, Outcome
  <2> QED
    BY <1>4, <2>1
<1>11. ASSUME NEW a \in Analysts, AnalystStep(a)
       PROVE  UNCHANGED job \/ \E k : Holds(a) /\ job' = Written(a, k)
  BY <1>11 DEF AnalystStep, Concludes, TimesOut, FinishJob, WriteFails, WriteOutcome, Publish,
     AnalystDies
<1>12. ASSUME NEW r \in Readers, Ask(r) PROVE EvidenceStep
  BY <1>12, EvidenceAsked
<1>13. ASSUME NEW r \in Readers, Resume(r) \/ ReadCache(r) \/ ReadRow(r) \/ FillCache(r) \/ TurnDies(r)
       PROVE  UNCHANGED job
  BY <1>13 DEF Resume, ReadCache, ReadRow, FillCache, TurnDies
<1> QED
  BY <1>5, <1>6, <1>7, <1>8, <1>9, <1>10, <1>11, <1>12, <1>13 DEF StoryNext, ComesDue, Evict

\* StoryJobs implements EvidencePromise: for any number of analysts, turns and
\* generations, a generation comes to one end, and a turn uses the evidence it
\* was promised when that was ready, or none (finish_job, read_result, unlink).
THEOREM JobsKeepPromise == StorySpec => KeepsEvidencePromise
<1>1. StoryInit => Evidence!EvidenceInit
  BY DEF StoryInit, Evidence!EvidenceInit, Quiet
<1>2. StoryInv /\ [StoryNext]_storyVars => EvidenceStep
  <2> SUFFICES ASSUME StoryInv, [StoryNext]_storyVars PROVE EvidenceStep
    OBVIOUS
  <2>1. CASE UNCHANGED storyVars
    BY <2>1, StepFromViews DEF storyVars, Outcome, Promised, Used
  <2>2. CASE \E r \in Readers :
               Resume(r) \/ Ask(r) \/ ReadCache(r) \/ ReadRow(r) \/ FillCache(r) \/ TurnDies(r)
    BY <2>2, ReaderStepsPromise
  <2>3. CASE StoryNext /\ UNCHANGED reader
    BY <2>3, JobStepsPromise
  <2> QED
    BY <2>1, <2>2, <2>3
       DEF StoryNext, ClaimJob, AnalystStep, Concludes, TimesOut, FinishJob, WriteFails, Publish,
           AnalystDies, GiveUp, Unlink, LeaseLapses, Expires, ComesDue, Evict
<1> QED
  BY <1>1, <1>2, StoryInvariant, PTL
     DEF StorySpec, KeepsEvidencePromise, Evidence!EvidenceSpec, EvidenceStep

(***************************************************************************)
(* The circuit.                                                            *)
(***************************************************************************)
\* What the assumption says in arithmetic.
LEMMA PositiveThreshold == Threshold \in Nat /\ 0 < Threshold
BY CircuitAssumption DEF CircuitAssumption

\* A report ends its request; what the circuit makes of it is one of four.
LEMMA ReportKeeps ==
  ASSUME CircuitInv, NEW r \in Requests, Ends(r), probing' = FALSE, UNCHANGED unreported,
         \/ Close
         \/ Trip /\ failures' \in 0..Threshold
         \/ circuit # "half_open" /\ UNCHANGED <<circuit, cooled>> /\ failures' \in 0..Threshold
            /\ (failures' < Threshold \/ circuit = "open")
  PROVE  CircuitInv'
<1>1. inFlight' \in SUBSET Requests /\ probes' \subseteq inFlight' /\ probes' \subseteq probes
  BY DEF Ends, CircuitInv, CircuitTypeOK
<1>2. CASE Close
  <2>1. failures' \in 0..Threshold /\ failures' < Threshold
    BY <1>2, PositiveThreshold DEF Close
  <2> QED
    BY <1>1, <1>2, <2>1 DEF Close, CircuitInv, CircuitTypeOK, OneProbe, RefusesForAProbe,
       ClosedBelowThreshold
<1>3. CASE Trip /\ failures' \in 0..Threshold
  BY <1>1, <1>3 DEF Trip, CircuitInv, CircuitTypeOK, OneProbe, RefusesForAProbe, ClosedBelowThreshold
<1>4. CASE circuit # "half_open" /\ UNCHANGED <<circuit, cooled>> /\ failures' \in 0..Threshold
           /\ (failures' < Threshold \/ circuit = "open")
  BY <1>1, <1>4 DEF CircuitInv, CircuitTypeOK, OneProbe, RefusesForAProbe, ClosedBelowThreshold
<1> QED
  BY <1>2, <1>3, <1>4

LEMMA CircuitStep == CircuitInv /\ [CircuitNext]_circuitVars => CircuitInv'
<1> SUFFICES ASSUME CircuitInv, [CircuitNext]_circuitVars PROVE CircuitInv'
  OBVIOUS
<1> USE PositiveThreshold
<1>1. CASE UNCHANGED circuitVars
  BY <1>1 DEF circuitVars, CircuitInv, CircuitTypeOK, OneProbe, RefusesForAProbe, ClosedBelowThreshold
<1>2. ASSUME NEW r \in Requests, Admit(r) PROVE CircuitInv'
  BY <1>2 DEF Admit, Admits, Seen, Waiting, Reopens, CircuitInv, CircuitTypeOK, OneProbe,
     RefusesForAProbe, ClosedBelowThreshold
<1>3. ASSUME NEW r \in Requests, Success(r) PROVE CircuitInv'
  <2>1. CASE circuit = "half_open"
    BY <1>3, <2>1, ReportKeeps DEF Success
  <2>2. CASE circuit # "half_open"
    <3>1. failures' = 0 /\ UNCHANGED <<circuit, cooled>>
      BY <1>3, <2>2 DEF Success
    <3>2. failures' \in 0..Threshold /\ failures' < Threshold
      BY <3>1
    <3> QED
      BY <1>3, <2>2, <3>1, <3>2, ReportKeeps DEF Success
  <2> QED
    BY <2>1, <2>2
<1>4. ASSUME NEW r \in Requests, AuthFailure(r) PROVE CircuitInv'
  BY <1>4, ReportKeeps DEF AuthFailure, CircuitInv, CircuitTypeOK
<1>5. ASSUME NEW r \in Requests, Transient(r) PROVE CircuitInv'
  <2>1. failures \in 0..Threshold
    BY DEF CircuitInv, CircuitTypeOK
  <2>2. CASE circuit = "half_open"
    BY <1>5, <2>1, <2>2, ReportKeeps DEF Transient
  <2>3. CASE circuit # "half_open"
    <3>1. failures' \in 0..Threshold
      BY <1>5, <2>1, <2>3 DEF Transient
    <3>2. CASE failures' >= Threshold
      BY <1>5, <2>3, <3>1, <3>2, ReportKeeps DEF Transient
    <3>3. CASE ~(failures' >= Threshold)
      <4>1. failures' < Threshold
        BY <3>1, <3>3
      <4> QED
        BY <1>5, <2>3, <3>1, <3>3, <4>1, ReportKeeps DEF Transient
    <3> QED
      BY <3>2, <3>3
  <2> QED
    BY <2>2, <2>3
<1>6. ASSUME NEW r \in Requests, ClientError(r) PROVE CircuitInv'
  BY <1>6, ReportKeeps DEF ClientError, CircuitInv, CircuitTypeOK, ClosedBelowThreshold
<1>7. ASSUME NEW r \in Requests, Unreported(r) PROVE CircuitInv'
  BY <1>7 DEF Unreported, Ends, CircuitInv, CircuitTypeOK, OneProbe, RefusesForAProbe,
     ClosedBelowThreshold
<1>8. CASE Look
  BY <1>8 DEF Look, Reopens, CircuitInv, CircuitTypeOK, OneProbe, RefusesForAProbe, ClosedBelowThreshold
<1>9. CASE CoolsDown
  BY <1>9 DEF CoolsDown, CircuitInv, CircuitTypeOK, OneProbe, RefusesForAProbe, ClosedBelowThreshold
<1> QED
  BY <1>1, <1>2, <1>3, <1>4, <1>5, <1>6, <1>7, <1>8, <1>9 DEF CircuitNext

\* The inductive invariant: among others, a closed circuit has not seen the
\* threshold and only a half-open one waits for a probe.
THEOREM CircuitInvariant == CircuitSpec => []CircuitInv
<1>0. 0 \in 0..Threshold /\ 0 < Threshold
  BY PositiveThreshold
<1>1. CircuitInit => CircuitInv
  BY <1>0 DEF CircuitInit, CircuitInv, CircuitTypeOK, OneProbe, RefusesForAProbe,
     ClosedBelowThreshold
<1> QED
  BY <1>1, CircuitStep, PTL DEF CircuitSpec

\* However many requests overlap and whenever they report, a half-open circuit
\* lets one of them through.
THEOREM OneProbeAtATime == CircuitSpec => []OneProbe
<1>1. CircuitInv => OneProbe
  BY DEF CircuitInv
<1> QED
  BY <1>1, CircuitInvariant, PTL

\* While every request reports, a half-open circuit that refuses has its probe
\* out.
THEOREM RefusalsHaveAProbe == CircuitSpec => []RefusesForAProbe
<1>1. CircuitInv => RefusesForAProbe
  BY DEF CircuitInv
<1> QED
  BY <1>1, CircuitInvariant, PTL
(***************************************************************************)
(* The store's events: the index follows the log of changes up to the      *)
(* cursor, and up to the event each poll has in work.                      *)
(***************************************************************************)
Entries == [of : Goods, act : {"save", "delete"}] \cup [of : Others, act : {"settled", "refused"}]
Rows    == [rev : Nat, read : Nat, stamp : Nat, offered : BOOLEAN]
Hands   == [of : Goods, rev : Nat, read : Nat, offered : BOOLEAN]
Polls   == [pc : {"idle", "list", "apply", "write", "save"}, since : Nat, page : Nat, at : Nat,
            spent : Nat, got : Nat]

StreamTypes ==
  /\ feed \in Seq(Entries) /\ day \in Nat
  /\ index \in [Goods -> Rows \cup {NoRow}] /\ hand \in [Turns -> Hands \cup {NoRow}]
  /\ acked \in Nat /\ acked <= Len(feed) /\ poll \in [Pollers -> Polls]

\* What is read of a product is a change that offered it.
Offered(p, r) == r \in Numbers(p) /\ feed[r].act = "save"
ReadsAreOffers ==
  /\ \A p \in Goods : index[p] # NoRow => Offered(p, index[p].rev)
  /\ \A t \in Turns : hand[t] # NoRow => Offered(hand[t].of, hand[t].rev)
  /\ \A w \in Pollers : poll[w].pc = "write" => Offered(Event(w).of, poll[w].got)

\* A poll works within its page, and a page within the log.
InPage(q) ==
  /\ q.page <= Len(feed)
  /\ q.pc = "list" => q.since <= Len(feed) /\ q.at = q.since + 1
  /\ q.pc \in {"apply", "write"} => 0 < q.at /\ q.at <= q.page
  /\ q.pc = "write" => feed[q.at].act = "save"
  /\ q.pc = "save" => 0 < q.at /\ q.at <= q.page + 1

PollsInPage == \A w \in Pollers : InPage(poll[w])

\* The index has what the log says of a product up to a change.
Last(p, k) == Newest({m \in Numbers(p) : m <= k})
Follows(p, k) ==
  LET n == Last(p, k)
  IN n > 0 =>
       IF feed[n].act = "delete" THEN index[p] = NoRow \/ index[p].rev > n
       ELSE IF index[p] # NoRow THEN index[p].rev >= n
       ELSE Revision(p) > n

\* It does so up to the cursor, and for each poll up to the event in work.
IndexFollows ==
  \A p \in Goods \ doubtful :
    /\ Follows(p, acked)
    /\ \A w \in Pollers : Busy(w) => Follows(p, poll[w].at - 1)

StreamInv == StreamTypes /\ ReadsAreOffers /\ PollsInPage /\ IndexFollows

\* A set of numbers has a least one, and below a bound a greatest.
LEMMA LeastExists ==
  ASSUME NEW S, S \subseteq Nat, S # {}
  PROVE  \E x \in S : \A y \in S : x <= y
<1> DEFINE R == {s \in Nat \X Nat : s[1] < s[2]}
<1>1. IsWellFoundedOn(R, Nat) BY NatLessThanWellFounded DEF OpToRel
<1> HIDE DEF R
<1>2. PICK x \in S : \A y \in S : ~(<<y, x>> \in R) BY <1>1, WFMin
<1>3. \A y \in S : ~(y < x) BY <1>2 DEF R
<1>4. QED BY <1>3

LEMMA GreatestExists ==
  ASSUME NEW n \in Nat, NEW S, S \subseteq 0..n, S # {}
  PROVE  \E x \in S : \A y \in S : y <= x
<1> DEFINE T == {n - x : x \in S}
<1>1. T \subseteq Nat
  <2>1. ASSUME NEW x \in S PROVE n - x \in Nat
    <3>1. x \in 0..n OBVIOUS
    <3>2. QED BY <3>1
  <2>2. QED BY <2>1
<1>2. T # {} OBVIOUS
<1>3. PICK t \in T : \A u \in T : t <= u BY <1>1, <1>2, LeastExists
<1>4. PICK x \in S : t = n - x OBVIOUS
<1>5. ASSUME NEW y \in S PROVE y <= x
  <2>1. n - x <= n - y BY <1>3, <1>4
  <2>2. x \in 0..n /\ y \in 0..n OBVIOUS
  <2>3. QED BY <2>1, <2>2
<1>6. QED BY <1>5

LEMMA NewestIs ==
  ASSUME NEW n \in Nat, NEW S, S \subseteq 1..n
  PROVE  /\ Newest(S) \in Nat
         /\ Newest(S) > 0 => Newest(S) \in S
         /\ \A m \in S : m <= Newest(S)
<1>1. CASE S = {}
  <2>1. Newest(S) = 0 BY <1>1 DEF Newest
  <2>2. QED BY <1>1, <2>1
<1>2. CASE S # {}
  <2>1. S \subseteq 0..n OBVIOUS
  <2>2. \E x \in S : \A m \in S : m <= x BY <1>2, <2>1, GreatestExists
  <2>3. Newest(S) \in S /\ \A m \in S : m <= Newest(S) BY <1>2, <2>2 DEF Newest
  <2>4. Newest(S) \in 1..n BY <2>3
  <2>5. QED BY <2>3, <2>4
<1>3. QED BY <1>1, <1>2

\* A number is the newest if it is one and none is above it.
LEMMA NewestIsThe ==
  ASSUME NEW n \in Nat, NEW S, S \subseteq 1..n, NEW x \in S, \A m \in S : m <= x
  PROVE  Newest(S) = x
<1>1. Newest(S) \in Nat /\ (Newest(S) > 0 => Newest(S) \in S) /\ x <= Newest(S) BY NewestIs
<1>2. x \in 1..n OBVIOUS
<1>3. Newest(S) \in S BY <1>1, <1>2
<1>4. Newest(S) <= x BY <1>3
<1>5. QED BY <1>1, <1>2, <1>4

-----------------------------------------------------------------------------
LEMMA NumbersAre ==
  ASSUME feed \in Seq(Entries), NEW p
  PROVE  /\ Numbers(p) \subseteq 1..Len(feed) /\ Len(feed) \in Nat
         /\ \A n \in Numbers(p) : n \in Nat /\ 0 < n /\ n <= Len(feed) /\ feed[n].of = p
BY DEF Numbers

\* The last change of a product up to some point, and of all.
LEMMA LastIs ==
  ASSUME feed \in Seq(Entries), NEW p, NEW k \in Nat
  PROVE  /\ Last(p, k) \in Nat
         /\ Last(p, k) > 0 => Last(p, k) \in Numbers(p) /\ Last(p, k) <= k
         /\ \A m \in Numbers(p) : m <= k => m <= Last(p, k)
         /\ Revision(p) \in Nat /\ (Revision(p) > 0 => Revision(p) \in Numbers(p))
         /\ \A m \in Numbers(p) : m <= Revision(p)
<1> DEFINE S == {m \in Numbers(p) : m <= k}
<1>1. Numbers(p) \subseteq 1..Len(feed) /\ Len(feed) \in Nat BY NumbersAre
<1>2. S \subseteq 1..Len(feed) BY <1>1
<1>3. Last(p, k) = Newest(S) BY DEF Last
<1>4. Newest(S) \in Nat /\ (Newest(S) > 0 => Newest(S) \in S) /\ \A m \in S : m <= Newest(S)
  BY <1>1, <1>2, NewestIs
<1>5. /\ Revision(p) \in Nat /\ (Revision(p) > 0 => Revision(p) \in Numbers(p))
      /\ \A m \in Numbers(p) : m <= Revision(p)
  BY <1>1, NewestIs DEF Revision
<1>6. QED BY <1>3, <1>4, <1>5

LEMMA LastIsOld ==
  ASSUME feed \in Seq(Entries), NEW p, NEW k \in Nat
  PROVE  Last(p, k) > 0 => Last(p, k) <= Revision(p)
BY LastIs

\* One change further.
LEMMA LastOfNext ==
  ASSUME feed \in Seq(Entries), NEW p, NEW k \in Nat, k + 1 <= Len(feed)
  PROVE  Last(p, k + 1) = IF feed[k + 1].of = p THEN k + 1 ELSE Last(p, k)
<1> DEFINE S == {m \in Numbers(p) : m <= k}
           T == {m \in Numbers(p) : m <= k + 1}
<1>1. Numbers(p) \subseteq 1..Len(feed) /\ Len(feed) \in Nat
      /\ \A n \in Numbers(p) : n \in Nat /\ feed[n].of = p
  BY NumbersAre
<1>2. CASE feed[k + 1].of = p
  <2>1. k + 1 \in Numbers(p) BY <1>1, <1>2 DEF Numbers
  <2>2. k + 1 \in T /\ T \subseteq 1..Len(feed) /\ \A m \in T : m <= k + 1 BY <1>1, <2>1
  <2>3. Newest(T) = k + 1 BY <1>1, <2>2, NewestIsThe
  <2>4. QED BY <1>2, <2>3 DEF Last
<1>3. CASE feed[k + 1].of # p
  <2>1. ASSUME NEW m \in T PROVE m <= k
    <3>1. m \in Nat /\ m <= k + 1 /\ m # k + 1 BY <1>1, <1>3
    <3>2. QED BY <3>1
  <2>2. ASSUME NEW m \in S PROVE m <= k + 1 BY <1>1
  <2>3. S = T BY <2>1, <2>2
  <2>4. QED BY <1>3, <2>3 DEF Last
<1>4. QED BY <1>2, <1>3

\* The log grows: what was last up to a point in it stays so.
LEMMA LogGrows ==
  ASSUME feed \in Seq(Entries), NEW e \in Entries, feed' = Append(feed, e)
  PROVE  /\ feed' \in Seq(Entries) /\ Len(feed') = Len(feed) + 1 /\ Len(feed) \in Nat
         /\ \A n \in 1..Len(feed) : feed'[n] = feed[n]
         /\ \A p : Numbers(p) \subseteq Numbers(p)'
         /\ \A p : \A k \in 0..Len(feed) : Last(p, k)' = Last(p, k)
         /\ \A p : Revision(p) <= Revision(p)'
<1>1. /\ feed' \in Seq(Entries) /\ Len(feed') = Len(feed) + 1 /\ Len(feed) \in Nat
      /\ \A n \in 1..Len(feed) : feed'[n] = feed[n]
  OBVIOUS
<1>2. ASSUME NEW p, NEW n \in 1..Len(feed) PROVE n \in Numbers(p)' <=> n \in Numbers(p)
  BY <1>1, <1>2 DEF Numbers
<1>3. \A p : Numbers(p) \subseteq Numbers(p)' BY <1>2 DEF Numbers
<1>4. ASSUME NEW p, NEW k \in 0..Len(feed) PROVE Last(p, k)' = Last(p, k)
  <2>1. \A m \in Numbers(p)' : m \in Nat /\ 0 < m BY <1>1 DEF Numbers
  <2>2. \A m \in Numbers(p)' : m <= k => m \in Numbers(p) BY <1>1, <1>2, <2>1
  <2>3. {m \in Numbers(p)' : m <= k} = {m \in Numbers(p) : m <= k} BY <1>3, <2>2
  <2>4. Last(p, k)' = Newest({m \in Numbers(p)' : m <= k}) BY DEF Last, Newest
  <2>5. QED BY <2>3, <2>4 DEF Last
<1>5. ASSUME NEW p PROVE Revision(p) <= Revision(p)'
  <2>1. Revision(p) \in Nat /\ (Revision(p) > 0 => Revision(p) \in Numbers(p)) BY LastIs
  <2>2. Numbers(p)' \subseteq 1..Len(feed') BY DEF Numbers
  <2>3. Revision(p)' = Newest(Numbers(p)') BY DEF Revision, Newest
  <2>4. Newest(Numbers(p)') \in Nat /\ \A m \in Numbers(p)' : m <= Newest(Numbers(p)')
    BY <1>1, <2>2, NewestIs
  <2>5. QED BY <1>3, <2>1, <2>3, <2>4
<1>6. QED BY <1>1, <1>3, <1>4, <1>5

-----------------------------------------------------------------------------
LEMMA StreamInitially == StreamInit => StreamInv
<1> SUFFICES ASSUME StreamInit PROVE StreamInv OBVIOUS
<1>1. /\ feed = <<>> /\ day = 0 /\ doubtful = {} /\ index = [p \in Goods |-> NoRow]
      /\ hand = [t \in Turns |-> NoRow] /\ acked = 0 /\ poll = [w \in Pollers |-> NoPoll]
  BY DEF StreamInit, CatalogInit
<1>2. NoPoll \in Polls BY DEF NoPoll, Polls
<1>3. StreamTypes BY <1>1, <1>2 DEF StreamTypes
<1>4. \A w \in Pollers : poll[w].pc = "idle" /\ poll[w].page = 0 BY <1>1 DEF NoPoll
<1>5. ReadsAreOffers BY <1>1, <1>4 DEF ReadsAreOffers
<1>6. PollsInPage BY <1>1, <1>4 DEF PollsInPage, InPage
<1>7. IndexFollows
  <2>1. Numbers(0) = {} /\ \A p : Numbers(p) = {} BY <1>1 DEF Numbers
  <2>2. \A p : Last(p, 0) = 0 BY <2>1 DEF Last, Newest
  <2>3. QED BY <1>1, <1>4, <2>2 DEF IndexFollows, Follows, Busy
<1>8. QED BY <1>3, <1>5, <1>6, <1>7 DEF StreamInv

\* What the index says of a product depends on its row and its changes.
LEMMA FollowsStays ==
  ASSUME feed \in Seq(Entries), NEW p, NEW k \in Nat, UNCHANGED feed, index'[p] = index[p],
         Follows(p, k)
  PROVE  Follows(p, k)'
<1>1. Last(p, k)' = Last(p, k) /\ Revision(p)' = Revision(p) BY DEF Last, Revision, Numbers, Newest
<1>2. QED BY <1>1 DEF Follows

\* One field after another of a poll.
LEMMA PollFields ==
  ASSUME NEW q \in Polls
  PROVE  /\ \A v \in {"idle", "list", "apply", "write", "save"} : \A e :
              e = [q EXCEPT !.pc = v] =>
                /\ e \in Polls /\ e.pc = v /\ e.since = q.since /\ e.page = q.page
                /\ e.at = q.at /\ e.spent = q.spent /\ e.got = q.got
         /\ \A n \in Nat : \A e :
              /\ e = [q EXCEPT !.since = n] =>
                   /\ e \in Polls /\ e.pc = q.pc /\ e.since = n /\ e.page = q.page
                   /\ e.at = q.at /\ e.spent = q.spent /\ e.got = q.got
              /\ e = [q EXCEPT !.page = n] =>
                   /\ e \in Polls /\ e.pc = q.pc /\ e.since = q.since /\ e.page = n
                   /\ e.at = q.at /\ e.spent = q.spent /\ e.got = q.got
              /\ e = [q EXCEPT !.at = n] =>
                   /\ e \in Polls /\ e.pc = q.pc /\ e.since = q.since /\ e.page = q.page
                   /\ e.at = n /\ e.spent = q.spent /\ e.got = q.got
              /\ e = [q EXCEPT !.spent = n] =>
                   /\ e \in Polls /\ e.pc = q.pc /\ e.since = q.since /\ e.page = q.page
                   /\ e.at = q.at /\ e.spent = n /\ e.got = q.got
              /\ e = [q EXCEPT !.got = n] =>
                   /\ e \in Polls /\ e.pc = q.pc /\ e.since = q.since /\ e.page = q.page
                   /\ e.at = q.at /\ e.spent = q.spent /\ e.got = n
BY DEF Polls

LEMMA StreamFacts ==
  ASSUME StreamInv
  PROVE  /\ feed \in Seq(Entries) /\ Len(feed) \in Nat /\ acked \in Nat /\ acked <= Len(feed)
         /\ day \in Nat /\ index \in [Goods -> Rows \cup {NoRow}]
         /\ hand \in [Turns -> Hands \cup {NoRow}]
         /\ NoRow \notin Rows /\ NoPoll \in Polls /\ NoPoll.pc = "idle"
         /\ poll \in [Pollers -> Polls]
         /\ \A w \in Pollers :
              /\ poll[w] \in Polls /\ InPage(poll[w]) /\ poll[w].at \in Nat /\ poll[w].page \in Nat
              /\ poll[w].since \in Nat /\ poll[w].spent \in Nat /\ poll[w].got \in Nat
              /\ Busy(w) => poll[w].at > 0 /\ poll[w].at - 1 \in Nat /\ poll[w].at - 1 <= Len(feed)
<1>1. /\ feed \in Seq(Entries) /\ acked \in Nat /\ acked <= Len(feed)
      /\ day \in Nat /\ index \in [Goods -> Rows \cup {NoRow}]
      /\ hand \in [Turns -> Hands \cup {NoRow}] /\ poll \in [Pollers -> Polls]
  BY DEF StreamInv, StreamTypes
<1>2. Len(feed) \in Nat BY <1>1
<1>3. NoRow \notin Rows BY CatalogAssumption DEF CatalogAssumption, Rows
<1>4. NoPoll \in Polls /\ NoPoll.pc = "idle" BY DEF NoPoll, Polls
<1>5. ASSUME NEW w \in Pollers
      PROVE  /\ poll[w] \in Polls /\ InPage(poll[w]) /\ poll[w].at \in Nat /\ poll[w].page \in Nat
             /\ poll[w].since \in Nat /\ poll[w].spent \in Nat /\ poll[w].got \in Nat
             /\ Busy(w) => poll[w].at > 0 /\ poll[w].at - 1 \in Nat /\ poll[w].at - 1 <= Len(feed)
  <2>1. poll[w] \in Polls /\ InPage(poll[w]) BY <1>1 DEF StreamInv, PollsInPage
  <2>2. /\ poll[w].at \in Nat /\ poll[w].page \in Nat /\ poll[w].since \in Nat
        /\ poll[w].spent \in Nat /\ poll[w].got \in Nat
        /\ poll[w].pc \in {"idle", "list", "apply", "write", "save"}
    BY <2>1 DEF Polls
  <2>3. Busy(w) => poll[w].at > 0 /\ poll[w].at - 1 \in Nat /\ poll[w].at - 1 <= Len(feed)
    BY <1>2, <2>1, <2>2 DEF Busy, InPage
  <2>4. QED BY <2>1, <2>2, <2>3
<1>6. QED BY <1>1, <1>2, <1>3, <1>4, <1>5

\* A poll does a step of its own, the index and the log stay.
LEMMA PollMoves ==
  ASSUME StreamInv, NEW w \in Pollers, UNCHANGED catalogVars, acked' \in Nat,
         NEW q \in Polls, poll' = [poll EXCEPT ![w] = q], InPage(q),
         q.pc = "write" => Offered(feed[q.at].of, q.got),
         acked' = acked \/ (Busy(w) /\ acked' = poll[w].at - 1),
         q.pc # "idle" => \/ q.at = acked + 1
                          \/ Busy(w) /\ q.at = poll[w].at
                          \/ Busy(w) /\ q.at = poll[w].at + 1 /\ 0 < poll[w].at
                               /\ poll[w].at <= Len(feed) /\ feed[poll[w].at].of \notin Goods
  PROVE  StreamInv'
<1>1. UNCHANGED <<feed, day, index, hand, doubtful>> BY DEF catalogVars
<1>2. poll'[w] = q /\ \A v \in Pollers \ {w} : poll'[v] = poll[v] BY StreamFacts
<1>3. acked' <= Len(feed) BY StreamFacts
<1>4. StreamTypes' BY <1>1, <1>3, StreamFacts DEF StreamTypes
<1>5. ReadsAreOffers'
  BY <1>1, <1>2 DEF StreamInv, ReadsAreOffers, Offered, Numbers, Event
<1>6. PollsInPage' BY <1>1, <1>2 DEF StreamInv, PollsInPage, InPage
<1>7. IndexFollows'
  <2> SUFFICES ASSUME NEW p \in Goods \ doubtful
               PROVE  /\ Follows(p, acked)'
                      /\ \A v \in Pollers : Busy(v)' => Follows(p, poll[v].at - 1)'
    BY <1>1 DEF IndexFollows
  <2>1. ASSUME NEW k \in Nat, Follows(p, k) PROVE Follows(p, k)'
    BY <1>1, <2>1, FollowsStays, StreamFacts
  <2>2. Follows(p, acked) /\ \A v \in Pollers : Busy(v) => Follows(p, poll[v].at - 1)
    BY DEF StreamInv, IndexFollows
  <2>3. PICK a \in Nat : a = acked' BY DEF StreamInv
  <2>4. Follows(p, a)' BY <2>1, <2>2, <2>3, StreamFacts
  <2>5. Follows(p, acked)' BY <2>3, <2>4 DEF Follows, Last
  <2>6. ASSUME NEW v \in Pollers, poll'[v].pc # "idle"
        PROVE  \E k \in Nat : k = poll'[v].at - 1 /\ Follows(p, k)'
    <3>1. CASE v # w
      <4>1. poll'[v] = poll[v] BY <1>2, <3>1
      <4>2. Busy(v) BY <2>6, <4>1 DEF Busy
      <4>3. PICK k \in Nat : k = poll[v].at - 1 BY <4>2, StreamFacts
      <4>4. Follows(p, k) BY <2>2, <4>2, <4>3
      <4>5. QED BY <2>1, <4>1, <4>3, <4>4
    <3>2. CASE v = w
      <4>1. q.pc # "idle" /\ poll'[v] = q BY <1>2, <2>6, <3>2
      <4>2. CASE q.at = acked + 1
        <5>1. PICK k \in Nat : k = acked BY StreamFacts
        <5>2. q.at - 1 = k BY <4>2, <5>1
        <5>3. Follows(p, k) BY <2>2, <5>1
        <5>4. QED BY <2>1, <4>1, <5>2, <5>3
      <4>3. CASE Busy(w) /\ q.at = poll[w].at
        <5>1. PICK k \in Nat : k = poll[w].at - 1 BY <4>3, StreamFacts
        <5>2. Follows(p, k) BY <2>2, <4>3, <5>1
        <5>3. QED BY <2>1, <4>1, <4>3, <5>1, <5>2
      <4>4. CASE Busy(w) /\ q.at = poll[w].at + 1 /\ 0 < poll[w].at
                   /\ poll[w].at <= Len(feed) /\ feed[poll[w].at].of \notin Goods
        <5>1. PICK k \in Nat : k = poll[w].at - 1 BY <4>4, StreamFacts
        <5>2. k + 1 = poll[w].at /\ k + 1 <= Len(feed) /\ q.at - 1 = k + 1 /\ k + 1 \in Nat
          BY <4>4, <5>1, StreamFacts
        <5>3. feed[k + 1].of # p BY <4>4, <5>2
        <5>4. Last(p, k + 1) = Last(p, k) BY <5>2, <5>3, LastOfNext, StreamFacts
        <5>5. Follows(p, k) BY <2>2, <4>4, <5>1
        <5>6. Follows(p, k + 1) BY <5>4, <5>5 DEF Follows
        <5>7. PICK m \in Nat : m = k + 1 BY <5>2
        <5>8. Follows(p, m)' BY <2>1, <5>6, <5>7
        <5>9. QED BY <4>1, <5>2, <5>7, <5>8
      <4>5. QED BY <4>1, <4>2, <4>3, <4>4
    <3>3. QED BY <3>1, <3>2
  <2>7. ASSUME NEW v \in Pollers, Busy(v)' PROVE Follows(p, poll[v].at - 1)'
    <3>1. poll'[v].pc # "idle" BY <2>7 DEF Busy
    <3>2. PICK k \in Nat : k = poll'[v].at - 1 /\ Follows(p, k)' BY <2>6, <3>1
    <3>3. QED BY <3>2 DEF Follows, Last
  <2>8. QED BY <2>5, <2>7
<1>8. QED BY <1>4, <1>5, <1>6, <1>7 DEF StreamInv

\* A row with the last change, or a row that is gone rightly.
LEMMA NewestRowFollows ==
  ASSUME feed \in Seq(Entries), NEW p, NEW k \in Nat, UNCHANGED feed, index'[p] # NoRow,
         index'[p].rev = Revision(p), Offered(p, Revision(p))
  PROVE  Follows(p, k)'
<1>1. Last(p, k)' = Last(p, k) /\ Revision(p)' = Revision(p) BY DEF Last, Revision, Numbers, Newest
<1>2. Last(p, k) \in Nat /\ Revision(p) \in Nat /\ (Last(p, k) > 0 => Last(p, k) <= Revision(p))
  BY LastIs, LastIsOld
<1>3. feed[Revision(p)].act = "save" BY DEF Offered
<1>4. Last(p, k) > 0 /\ feed[Last(p, k)].act = "delete" => Last(p, k) < Revision(p)
  BY <1>2, <1>3
<1>5. QED BY <1>1, <1>2, <1>4 DEF Follows

LEMMA GoneRowFollows ==
  ASSUME feed \in Seq(Entries), NEW p \in Goods, NEW k \in Nat, UNCHANGED feed, index'[p] = NoRow,
         ~Sold(p) \/ feed[Last(p, k)].act = "delete" \/ Last(p, k) < Revision(p)
  PROVE  Follows(p, k)'
<1>1. Last(p, k)' = Last(p, k) /\ Revision(p)' = Revision(p) BY DEF Last, Revision, Numbers, Newest
<1>2. Last(p, k) \in Nat /\ Revision(p) \in Nat /\ (Last(p, k) > 0 => Last(p, k) <= Revision(p))
  BY LastIs, LastIsOld
<1>3. ASSUME ~Sold(p), Last(p, k) > 0, feed[Last(p, k)].act # "delete" PROVE Last(p, k) < Revision(p)
  <2>1. Revision(p) > 0 /\ Revision(p) \in Numbers(p) /\ Last(p, k) \in Numbers(p)
    BY <1>2, <1>3, LastIs
  <2>2. feed[Revision(p)].act # "save" BY <1>3, <2>1 DEF Sold
  <2>3. feed[Last(p, k)] \in Entries /\ feed[Last(p, k)].of = p BY <2>1, NumbersAre
  <2>4. feed[Last(p, k)].act = "save"
    BY <1>3, <2>3, StreamAssumption DEF Entries, StreamAssumption
  <2>5. QED BY <1>2, <1>3, <2>2, <2>4
<1>4. QED BY <1>1, <1>2, <1>3 DEF Follows

\* A row is written: of the others nothing changes.
LEMMA WriteMoves ==
  ASSUME StreamInv, NEW p \in Goods, UNCHANGED <<feed, day, acked>>,
         index' \in [Goods -> Rows \cup {NoRow}], hand' \in [Turns -> Hands \cup {NoRow}],
         \A r \in Goods \ {p} : index'[r] = index[r] /\ (r \in doubtful' <=> r \in doubtful),
         index'[p] # NoRow => Offered(p, index'[p].rev),
         \A t \in Turns : hand'[t] # NoRow => Offered(hand'[t].of, hand'[t].rev),
         \/ UNCHANGED poll
         \/ \E w \in Pollers : \E q \in Polls :
              /\ poll' = [poll EXCEPT ![w] = q] /\ InPage(q) /\ Busy(w)
              /\ q.pc # "write"
              /\ \/ q.at = poll[w].at
                 \/ /\ q.at = poll[w].at + 1 /\ 0 < poll[w].at
                    /\ poll[w].at <= Len(feed) /\ feed[poll[w].at].of = p,
         p \notin doubtful' =>
           \A k \in Nat : \/ k = acked
                          \/ \E v \in Pollers : poll'[v].pc # "idle" /\ k = poll'[v].at - 1
                          => Follows(p, k)'
  PROVE  StreamInv'
<1>1. /\ feed \in Seq(Entries) /\ Len(feed) \in Nat /\ acked \in Nat /\ acked <= Len(feed)
      /\ poll \in [Pollers -> Polls]
  BY StreamFacts
<1>2. poll' \in [Pollers -> Polls] BY <1>1
<1>3. \A v \in Pollers :
        \/ poll'[v] = poll[v]
        \/ /\ Busy(v) /\ InPage(poll'[v]) /\ poll'[v].pc # "write" /\ poll'[v] \in Polls
           /\ \/ poll'[v].at = poll[v].at
              \/ /\ poll'[v].at = poll[v].at + 1 /\ 0 < poll[v].at
                 /\ poll[v].at <= Len(feed) /\ feed[poll[v].at].of = p
  BY <1>1
<1>4. StreamTypes' BY <1>1, <1>2, StreamFacts DEF StreamTypes
<1>5. ReadsAreOffers'
  <2>1. \A r \in Goods : \A n : Offered(r, n)' <=> Offered(r, n) BY DEF Offered, Numbers
  <2>2. \A r \in Goods : index'[r] # NoRow => Offered(r, index'[r].rev)
    BY DEF StreamInv, ReadsAreOffers
  <2>3. \A v \in Pollers : poll'[v].pc = "write" => Offered(feed[poll'[v].at].of, poll'[v].got)
    BY <1>3 DEF StreamInv, ReadsAreOffers, Event
  <2>4. QED BY <2>2, <2>3 DEF ReadsAreOffers, Offered, Numbers, Event
<1>6. PollsInPage' BY <1>3 DEF StreamInv, PollsInPage, InPage
<1>7. IndexFollows'
  <2>1. ASSUME NEW r \in Goods \ doubtful', NEW k \in Nat,
               \/ k = acked
               \/ \E v \in Pollers : poll'[v].pc # "idle" /\ k = poll'[v].at - 1
        PROVE  Follows(r, k)'
    <3>1. CASE r = p BY <2>1, <3>1
    <3>2. CASE r # p
      <4>1. r \notin doubtful /\ index'[r] = index[r] BY <2>1, <3>2
      <4>2. Follows(r, acked) /\ \A v \in Pollers : Busy(v) => Follows(r, poll[v].at - 1)
        BY <4>1, <2>1 DEF StreamInv, IndexFollows
      <4>3. Follows(r, k)
        <5>1. CASE k = acked BY <4>2, <5>1
        <5>2. ASSUME NEW v \in Pollers, poll'[v].pc # "idle", k = poll'[v].at - 1
              PROVE  Follows(r, k)
          <6>1. CASE poll'[v] = poll[v] BY <4>2, <5>2, <6>1 DEF Busy
          <6>2. CASE Busy(v) /\ poll'[v].at = poll[v].at BY <4>2, <5>2, <6>2
          <6>3. CASE Busy(v) /\ poll'[v].at = poll[v].at + 1 /\ 0 < poll[v].at
                     /\ poll[v].at <= Len(feed) /\ feed[poll[v].at].of = p
            <7>1. PICK j \in Nat : j = poll[v].at - 1 BY <6>3, StreamFacts
            <7>2. j + 1 = poll[v].at /\ j + 1 <= Len(feed) /\ k = j + 1
              BY <5>2, <6>3, <7>1, StreamFacts
            <7>3. feed[j + 1].of # r BY <3>2, <6>3, <7>2
            <7>4. Last(r, j + 1) = Last(r, j) BY <1>1, <7>2, <7>3, LastOfNext
            <7>5. Follows(r, j) BY <4>2, <6>3, <7>1
            <7>6. QED BY <7>2, <7>4, <7>5 DEF Follows
          <6>4. QED BY <1>3, <6>1, <6>2, <6>3
        <5>3. QED BY <2>1, <5>1, <5>2
      <4>4. QED BY <1>1, <4>1, <4>3, FollowsStays
    <3>3. QED BY <3>1, <3>2
  <2>2. ASSUME NEW r \in Goods \ doubtful' PROVE Follows(r, acked)'
    <3>1. PICK k \in Nat : k = acked BY <1>1
    <3>2. Follows(r, k)' BY <2>1, <2>2, <3>1
    <3>3. QED BY <3>1, <3>2 DEF Follows, Last
  <2>3. ASSUME NEW r \in Goods \ doubtful', NEW v \in Pollers, poll'[v].pc # "idle"
        PROVE  Follows(r, poll[v].at - 1)'
    <3>1. poll'[v].at \in Nat /\ poll'[v].at - 1 \in Nat
      <4>1. Busy(v) BY <1>3, <2>3 DEF Busy
      <4>2. poll[v].at \in Nat /\ poll[v].at > 0 BY <4>1, StreamFacts
      <4>3. poll'[v].at = poll[v].at \/ poll'[v].at = poll[v].at + 1 BY <1>3
      <4>4. QED BY <4>2, <4>3
    <3>2. PICK k \in Nat : k = poll'[v].at - 1 BY <3>1
    <3>3. Follows(r, k)' BY <2>1, <2>3, <3>2
    <3>4. QED BY <3>2, <3>3 DEF Follows, Last
  <2>4. QED BY <2>2, <2>3 DEF IndexFollows, Busy
<1>8. QED BY <1>4, <1>5, <1>6, <1>7 DEF StreamInv

-----------------------------------------------------------------------------
\* The store, and turns that read.
LEMMA FeedGrows ==
  ASSUME StreamInv, NEW e \in Entries, feed' = Append(feed, e),
         UNCHANGED <<day, index, hand, doubtful, acked, poll>>
  PROVE  StreamInv'
<1>1. /\ feed' \in Seq(Entries) /\ Len(feed') = Len(feed) + 1 /\ Len(feed) \in Nat
      /\ \A n \in 1..Len(feed) : feed'[n] = feed[n]
      /\ \A p : Numbers(p) \subseteq Numbers(p)'
      /\ \A p : \A k \in 0..Len(feed) : Last(p, k)' = Last(p, k)
      /\ \A p : Revision(p) <= Revision(p)'
  BY LogGrows, StreamFacts
<1>2. StreamTypes' BY <1>1, StreamFacts DEF StreamTypes
<1>3. \A p, n : Offered(p, n) => Offered(p, n)'
  BY <1>1, NumbersAre, StreamFacts DEF Offered, Numbers
<1>4. \A w \in Pollers : poll[w].pc = "write" => Event(w)' = Event(w)
  <2>1. ASSUME NEW w \in Pollers, poll[w].pc = "write" PROVE poll[w].at \in 1..Len(feed)
    BY <2>1, StreamFacts DEF InPage
  <2>2. QED BY <1>1, <2>1 DEF Event
<1>5. ReadsAreOffers'
  BY <1>3, <1>4 DEF StreamInv, ReadsAreOffers, Offered
<1>6. PollsInPage'
  <2>1. ASSUME NEW w \in Pollers PROVE InPage(poll[w])'
    <3>1. InPage(poll[w]) /\ poll[w].page \in Nat /\ poll[w].since \in Nat /\ poll[w].at \in Nat
      BY StreamFacts
    <3>2. poll[w].page <= Len(feed') /\ (poll[w].since <= Len(feed) => poll[w].since <= Len(feed'))
      BY <1>1, <3>1 DEF InPage
    <3>3. poll[w].pc = "write" => feed'[poll[w].at] = feed[poll[w].at]
      BY <1>1, <3>1 DEF InPage
    <3>4. QED BY <3>1, <3>2, <3>3 DEF InPage
  <2>2. QED BY <2>1 DEF PollsInPage
<1>7. IndexFollows'
  <2>1. ASSUME NEW p \in Goods, NEW k \in 0..Len(feed), Follows(p, k) PROVE Follows(p, k)'
    <3>1. Last(p, k)' = Last(p, k) /\ Revision(p) <= Revision(p)' BY <1>1
    <3>2. Last(p, k) \in Nat /\ Revision(p) \in Nat
          /\ (Last(p, k) > 0 => Last(p, k) \in 1..Len(feed))
      BY LastIs, NumbersAre, StreamFacts
    <3>3. Last(p, k) > 0 => feed'[Last(p, k)] = feed[Last(p, k)] BY <1>1, <3>2
    <3>4. Revision(p)' \in Nat
      <4>1. Numbers(p)' \subseteq 1..Len(feed') BY DEF Numbers
      <4>2. Revision(p)' = Newest(Numbers(p)') BY DEF Revision, Newest
      <4>3. QED BY <1>1, <4>1, <4>2, NewestIs
    <3>5. QED BY <2>1, <3>1, <3>2, <3>3, <3>4 DEF Follows
  <2>2. ASSUME NEW p \in Goods \ doubtful PROVE Follows(p, acked)'
    <3>1. PICK k \in 0..Len(feed) : k = acked BY StreamFacts
    <3>2. Follows(p, k)' BY <2>1, <2>2, <3>1 DEF StreamInv, IndexFollows
    <3>3. QED BY <3>1, <3>2 DEF Follows, Last
  <2>3. ASSUME NEW p \in Goods \ doubtful, NEW w \in Pollers, Busy(w)
        PROVE  Follows(p, poll[w].at - 1)'
    <3>1. PICK k \in 0..Len(feed) : k = poll[w].at - 1 BY <2>3, StreamFacts
    <3>2. Follows(p, k)' BY <2>1, <2>3, <3>1 DEF StreamInv, IndexFollows
    <3>3. QED BY <3>1, <3>2 DEF Follows, Last
  <2>4. QED BY <2>2, <2>3 DEF IndexFollows, Busy
<1>8. QED BY <1>2, <1>5, <1>6, <1>7 DEF StreamInv

\* What is on sale was offered by its last change.
LEMMA SoldIsOffered ==
  ASSUME feed \in Seq(Entries), NEW p, Sold(p) PROVE Offered(p, Revision(p)) /\ Revision(p) \in Nat
<1>1. Revision(p) > 0 /\ feed[Revision(p)].act = "save" BY DEF Sold
<1>2. Revision(p) \in Nat /\ (Revision(p) > 0 => Revision(p) \in Numbers(p)) BY LastIs
<1>3. QED BY <1>1, <1>2 DEF Offered

LEMMA TurnReads ==
  ASSUME StreamInv, NEW t \in Turns, NEW p \in Goods, ReadStore(t, p) \/ ReadIndex(t, p),
         UNCHANGED <<acked, poll>>
  PROVE  StreamInv'
<1>1. UNCHANGED <<feed, day, index, doubtful, acked, poll>> BY DEF ReadStore, ReadIndex
<1>2. PICK h \in Hands : hand' = [hand EXCEPT ![t] = h] /\ Offered(h.of, h.rev)
  <2>1. CASE ReadStore(t, p)
    <3>1. Sold(p) /\ hand' = [hand EXCEPT ![t] =
            [of |-> p, rev |-> Revision(p), read |-> day, offered |-> TRUE]]
      BY <2>1 DEF ReadStore
    <3>2. Offered(p, Revision(p)) /\ Revision(p) \in Nat BY <3>1, SoldIsOffered, StreamFacts
    <3>3. [of |-> p, rev |-> Revision(p), read |-> day, offered |-> TRUE] \in Hands
      BY <3>2, StreamFacts DEF Hands
    <3>4. QED BY <3>1, <3>2, <3>3
  <2>2. CASE ReadIndex(t, p)
    <3>1. index[p] # NoRow /\ hand' = [hand EXCEPT ![t] =
            [of |-> p, rev |-> index[p].rev, read |-> index[p].read, offered |-> index[p].offered]]
      BY <2>2 DEF ReadIndex
    <3>2. index[p] \in Rows /\ Offered(p, index[p].rev)
      BY <3>1, StreamFacts DEF StreamInv, ReadsAreOffers
    <3>3. [of |-> p, rev |-> index[p].rev, read |-> index[p].read, offered |-> index[p].offered]
            \in Hands
      BY <3>2 DEF Rows, Hands
    <3>4. QED BY <3>1, <3>2, <3>3
  <2>3. QED BY <2>1, <2>2
<1>3. hand' \in [Turns -> Hands \cup {NoRow}]
      /\ \A s \in Turns : hand'[s] = hand[s] \/ (hand'[s] = h /\ Offered(h.of, h.rev))
  BY <1>2, StreamFacts
<1>4. StreamTypes' BY <1>1, <1>3, StreamFacts DEF StreamTypes
<1>5. ReadsAreOffers'
  BY <1>1, <1>3 DEF StreamInv, ReadsAreOffers, Offered, Numbers, Event
<1>6. PollsInPage' BY <1>1 DEF StreamInv, PollsInPage, InPage
<1>7. IndexFollows'
  <2>1. (IndexFollows <=> IndexFollows')
    BY <1>1 DEF IndexFollows, Follows, Last, Revision, Numbers, Newest, Busy
  <2>2. QED BY <2>1 DEF StreamInv
<1>8. QED BY <1>4, <1>5, <1>6, <1>7 DEF StreamInv

\* A turn writes back what it read.
LEMMA WriteBackKeeps ==
  ASSUME StreamInv, NEW t \in Turns, WriteBack(t), UNCHANGED <<acked, poll>> PROVE StreamInv'
<1> DEFINE h == hand[t]
<1>1. /\ h # NoRow /\ hand' = [hand EXCEPT ![t] = NoRow] /\ UNCHANGED <<feed, day>>
      /\ Upsert(h.of, h.rev, h.read, h.offered) \/ LoseWrite(h.of)
  BY DEF WriteBack
<1>2. h \in Hands /\ Offered(h.of, h.rev) BY <1>1, StreamFacts DEF StreamInv, ReadsAreOffers
<1>3. PICK p \in Goods : p = h.of BY <1>2 DEF Hands
<1>4. hand' \in [Turns -> Hands \cup {NoRow}]
      /\ \A s \in Turns : hand'[s] = hand[s] \/ hand'[s] = NoRow
  BY <1>1, StreamFacts
<1>5. \A s \in Turns : hand'[s] # NoRow => Offered(hand'[s].of, hand'[s].rev)
  BY <1>4 DEF StreamInv, ReadsAreOffers
<1>6. CASE LoseWrite(h.of)
  <2>1. UNCHANGED index /\ doubtful' = doubtful \cup {p} BY <1>3, <1>6 DEF LoseWrite
  <2>2. index[p] # NoRow => Offered(p, index[p].rev) BY DEF StreamInv, ReadsAreOffers
  <2>3. QED BY <1>1, <1>4, <1>5, <2>1, <2>2, StreamFacts, WriteMoves
<1>7. CASE Upsert(h.of, h.rev, h.read, h.offered)
  <2> DEFINE row == Row(h.rev, h.read, h.offered)
  <2>1. /\ index' = [index EXCEPT ![p] = row]
        /\ doubtful' = IF h.rev = Revision(p) THEN doubtful \ {p} ELSE doubtful \cup {p}
    BY <1>3, <1>7 DEF Upsert
  <2>2. row \in Rows /\ row.rev = h.rev BY <1>2, StreamFacts DEF Hands, Rows, Row
  <2> HIDE DEF row
  <2>3. /\ index' \in [Goods -> Rows \cup {NoRow}] /\ index'[p] = row
        /\ \A r \in Goods \ {p} : index'[r] = index[r] /\ (r \in doubtful' <=> r \in doubtful)
    BY <2>1, <2>2, StreamFacts
  <2>4. index'[p] # NoRow /\ Offered(p, index'[p].rev) BY <1>2, <1>3, <2>2, <2>3, StreamFacts
  <2>5. ASSUME p \notin doubtful', NEW k \in Nat PROVE Follows(p, k)'
    <3>1. h.rev = Revision(p) BY <2>1, <2>5
    <3>2. QED BY <1>1, <2>2, <2>3, <2>4, <3>1, NewestRowFollows, StreamFacts
  <2>6. QED BY <1>1, <1>4, <1>5, <2>3, <2>4, <2>5, WriteMoves
<1>8. QED BY <1>1, <1>6, <1>7

-----------------------------------------------------------------------------
\* Polls that only move on.
LEMMA LoadKeeps == ASSUME StreamInv, NEW w \in Pollers, Load(w) PROVE StreamInv'
<1> DEFINE a == [NoPoll EXCEPT !.pc = "list"]
           b == [a EXCEPT !.since = acked]
           q == [b EXCEPT !.at = acked + 1]
<1>1. poll' = [poll EXCEPT ![w] = q] /\ UNCHANGED <<catalogVars, acked>> BY DEF Load
<1>2. acked \in Nat /\ acked + 1 \in Nat /\ acked <= Len(feed) /\ Len(feed) \in Nat /\ NoPoll \in Polls
  BY StreamFacts
<1>3. a \in Polls /\ a.pc = "list" /\ a.page = 0 BY <1>2, PollFields DEF NoPoll
<1> HIDE DEF a
<1>4. b \in Polls /\ b.pc = "list" /\ b.page = 0 /\ b.since = acked BY <1>2, <1>3, PollFields
<1> HIDE DEF b
<1>5. q \in Polls /\ q.pc = "list" /\ q.page = 0 /\ q.since = acked /\ q.at = acked + 1
  BY <1>2, <1>4, PollFields
<1> HIDE DEF q
<1>6. InPage(q) BY <1>2, <1>5 DEF InPage
<1>7. acked' \in Nat /\ acked' = acked BY <1>1, <1>2
<1>8. UNCHANGED catalogVars BY <1>1
<1>9. QED BY <1>1, <1>5, <1>6, <1>7, <1>8, PollMoves

\* A poll that ends.
LEMMA EndsKeep ==
  ASSUME StreamInv, NEW w \in Pollers, UNCHANGED catalogVars, acked' \in Nat,
         poll' = [poll EXCEPT ![w] = NoPoll],
         acked' = acked \/ (Busy(w) /\ acked' = poll[w].at - 1)
  PROVE  StreamInv'
<1>1. NoPoll \in Polls /\ NoPoll.pc = "idle" /\ NoPoll.page = 0 BY StreamFacts DEF NoPoll
<1>2. InPage(NoPoll) BY <1>1, StreamFacts DEF InPage
<1>3. QED BY <1>1, <1>2, PollMoves

LEMMA ListKeeps == ASSUME StreamInv, NEW w \in Pollers, List(w) PROVE StreamInv'
<1> DEFINE since == poll[w].since
           page == IF Len(feed) < since + PageLimit THEN Len(feed) ELSE since + PageLimit
           a == [poll[w] EXCEPT !.pc = "apply"]
           q == [a EXCEPT !.page = page]
<1>1. /\ poll[w].pc = "list" /\ UNCHANGED <<catalogVars, acked>>
      /\ poll' = [poll EXCEPT ![w] = IF page = @.since THEN NoPoll
                                     ELSE [@ EXCEPT !.pc = "apply", !.page = page]]
  BY DEF List
<1>2. poll' = [poll EXCEPT ![w] = NoPoll] \/ (page # since /\ poll' = [poll EXCEPT ![w] = q])
  BY <1>1, StreamFacts
<1>3. acked' \in Nat /\ acked' = acked /\ UNCHANGED catalogVars BY <1>1, StreamFacts
<1>4. CASE poll' = [poll EXCEPT ![w] = NoPoll] BY <1>3, <1>4, EndsKeep
<1>5. CASE page # since /\ poll' = [poll EXCEPT ![w] = q]
  <2>1. poll[w] \in Polls /\ since \in Nat /\ since <= Len(feed) /\ Len(feed) \in Nat
        /\ poll[w].at = since + 1
    BY <1>1, StreamFacts DEF InPage
  <2>2. page \in Nat /\ page <= Len(feed) /\ since < page
    BY <1>5, <2>1, StreamAssumption DEF StreamAssumption
  <2> HIDE DEF page
  <2>3. a \in Polls /\ a.pc = "apply" /\ a.at = since + 1 BY <2>1, PollFields
  <2> HIDE DEF a
  <2>4. q \in Polls /\ q.pc = "apply" /\ q.at = since + 1 /\ q.page = page BY <2>2, <2>3, PollFields
  <2> HIDE DEF q
  <2>5. InPage(q) BY <2>1, <2>2, <2>4 DEF InPage
  <2>6. Busy(w) /\ q.at = poll[w].at BY <1>1, <2>1, <2>4 DEF Busy
  <2>7. QED BY <1>3, <1>5, <2>4, <2>5, <2>6, PollMoves
<1>6. QED BY <1>2, <1>4, <1>5

LEMMA SaveKeeps == ASSUME StreamInv, NEW w \in Pollers, Save(w) PROVE StreamInv'
<1>1. /\ Busy(w) /\ UNCHANGED catalogVars /\ poll' = [poll EXCEPT ![w] = NoPoll]
      /\ acked' = acked \/ acked' = poll[w].at - 1
  BY DEF Save, Busy
<1>2. acked' \in Nat BY <1>1, StreamFacts
<1>3. QED BY <1>1, <1>2, EndsKeep

LEMMA AbandonKeeps == ASSUME StreamInv, NEW w \in Pollers, Abandon(w) PROVE StreamInv'
<1>1. UNCHANGED catalogVars /\ poll' = [poll EXCEPT ![w] = NoPoll] /\ acked' = acked
  BY DEF Abandon
<1>2. acked' \in Nat BY <1>1, StreamFacts
<1>3. QED BY <1>1, <1>2, EndsKeep

-----------------------------------------------------------------------------
\* Polls that apply an event.
LEMMA EventInPage ==
  ASSUME StreamInv, NEW w \in Pollers, poll[w].pc \in {"apply", "write"}
  PROVE  /\ poll[w] \in Polls /\ poll[w].at \in Nat /\ 0 < poll[w].at /\ poll[w].at <= Len(feed)
         /\ poll[w].at <= poll[w].page /\ poll[w].page <= Len(feed) /\ poll[w].page \in Nat
         /\ Len(feed) \in Nat /\ Busy(w) /\ poll[w].at - 1 \in Nat
         /\ Event(w) = feed[poll[w].at] /\ Event(w) \in Entries
         /\ poll[w].at \in Numbers(Event(w).of)
<1>1. poll[w] \in Polls /\ InPage(poll[w]) /\ poll[w].at \in Nat /\ poll[w].page \in Nat
      /\ Len(feed) \in Nat /\ feed \in Seq(Entries)
  BY StreamFacts
<1>2. 0 < poll[w].at /\ poll[w].at <= poll[w].page /\ poll[w].page <= Len(feed)
  BY DEF InPage, StreamInv, PollsInPage
<1>3. poll[w].at \in 1..Len(feed) /\ poll[w].at - 1 \in Nat BY <1>1, <1>2
<1>4. QED BY <1>1, <1>2, <1>3 DEF Event, Busy, Numbers

LEMMA AdvanceMoves ==
  ASSUME StreamInv, NEW w \in Pollers, poll[w].pc \in {"apply", "write"}, Advance(w)
  PROVE  \E q \in Polls : /\ poll' = [poll EXCEPT ![w] = q] /\ InPage(q)
                          /\ q.at = poll[w].at + 1 /\ q.pc \in {"apply", "save"}
<1> DEFINE pc == IF poll[w].at < poll[w].page THEN "apply" ELSE "save"
           a == [poll[w] EXCEPT !.at = poll[w].at + 1]
           q == [a EXCEPT !.pc = pc]
<1>1. poll' = [poll EXCEPT ![w] = q]
  BY DEF Advance
<1>2. poll[w] \in Polls /\ poll[w].at \in Nat /\ 0 < poll[w].at /\ poll[w].page \in Nat
      /\ poll[w].at <= poll[w].page /\ poll[w].page <= Len(feed) /\ poll[w].at + 1 \in Nat
  BY EventInPage
<1>3. a \in Polls /\ a.at = poll[w].at + 1 /\ a.page = poll[w].page BY <1>2, PollFields
<1>4. pc \in {"apply", "save"} /\ (pc = "apply" => poll[w].at < poll[w].page) OBVIOUS
<1> HIDE DEF a, pc
<1>5. q \in Polls /\ q.at = poll[w].at + 1 /\ q.page = poll[w].page /\ q.pc = pc
  BY <1>3, <1>4, PollFields
<1> HIDE DEF q
<1>6. InPage(q) BY <1>2, <1>4, <1>5 DEF InPage
<1>7. QED BY <1>1, <1>4, <1>5, <1>6

LEMMA StopMoves ==
  ASSUME StreamInv, NEW w \in Pollers, poll[w].pc \in {"apply", "write"}, Stop(w)
  PROVE  \E q \in Polls : /\ poll' = [poll EXCEPT ![w] = q] /\ InPage(q)
                          /\ q.at = poll[w].at /\ q.pc = "save"
<1> DEFINE q == [poll[w] EXCEPT !.pc = "save"]
<1>1. poll' = [poll EXCEPT ![w] = q] BY StreamFacts DEF Stop
<1>2. poll[w] \in Polls /\ poll[w].at \in Nat /\ 0 < poll[w].at /\ poll[w].page \in Nat
      /\ poll[w].at <= poll[w].page /\ poll[w].page <= Len(feed)
  BY EventInPage
<1>3. q \in Polls /\ q.at = poll[w].at /\ q.page = poll[w].page /\ q.pc = "save"
  BY <1>2, PollFields
<1> HIDE DEF q
<1>4. InPage(q) BY <1>2, <1>3 DEF InPage
<1>5. QED BY <1>1, <1>3, <1>4

LEMMA ApplyOtherKeeps == ASSUME StreamInv, NEW w \in Pollers, ApplyOther(w) PROVE StreamInv'
<1>1. /\ poll[w].pc = "apply" /\ Event(w).of \in Others /\ UNCHANGED <<catalogVars, acked>>
      /\ Advance(w) \/ Stop(w)
  BY DEF ApplyOther
<1>2. UNCHANGED catalogVars /\ acked' = acked /\ acked' \in Nat BY <1>1, StreamFacts
<1>3. /\ 0 < poll[w].at /\ poll[w].at <= Len(feed) /\ Busy(w)
      /\ feed[poll[w].at].of \notin Goods
  BY <1>1, EventInPage, StreamAssumption DEF StreamAssumption
<1>4. PICK q \in Polls : /\ poll' = [poll EXCEPT ![w] = q] /\ InPage(q)
                         /\ q.at = poll[w].at + 1 \/ q.at = poll[w].at
                         /\ q.pc # "write"
  BY <1>1, AdvanceMoves, StopMoves
<1>5. QED BY <1>2, <1>3, <1>4, PollMoves

LEMMA ApplyReadKeeps == ASSUME StreamInv, NEW w \in Pollers, ApplyRead(w) PROVE StreamInv'
<1> DEFINE r == Revision(Event(w).of)
           a == [poll[w] EXCEPT !.pc = "write"]
           b == [a EXCEPT !.spent = poll[w].spent + 1]
           q == [b EXCEPT !.got = r]
<1>1. /\ poll[w].pc = "apply" /\ Event(w).act = "save" /\ Sold(Event(w).of)
      /\ UNCHANGED <<catalogVars, acked>>
      /\ poll' = [poll EXCEPT ![w] = [@ EXCEPT !.pc = "write", !.spent = poll[w].spent + 1,
                                               !.got = r]]
  BY DEF ApplyRead, Refreshes
<1>2. UNCHANGED catalogVars /\ acked' = acked /\ acked' \in Nat BY <1>1, StreamFacts
<1>3. poll[w] \in Polls /\ poll[w].spent + 1 \in Nat /\ poll[w].spent \in Nat BY StreamFacts
<1>4. poll' = [poll EXCEPT ![w] = q] BY <1>1
<1>5. Offered(Event(w).of, r) /\ r \in Nat BY <1>1, SoldIsOffered, StreamFacts
<1> HIDE DEF r
<1>6. a \in Polls /\ a.pc = "write" /\ a.at = poll[w].at /\ a.page = poll[w].page BY <1>3, PollFields
<1> HIDE DEF a
<1>7. b \in Polls /\ b.pc = "write" /\ b.at = poll[w].at /\ b.page = poll[w].page
  BY <1>3, <1>6, PollFields
<1> HIDE DEF b
<1>8. q \in Polls /\ q.pc = "write" /\ q.at = poll[w].at /\ q.page = poll[w].page /\ q.got = r
  BY <1>5, <1>7, PollFields
<1> HIDE DEF q
<1>9. /\ 0 < poll[w].at /\ poll[w].at <= poll[w].page /\ poll[w].page <= Len(feed) /\ Busy(w)
      /\ Event(w) = feed[poll[w].at]
  BY <1>1, EventInPage
<1>10. InPage(q) BY <1>1, <1>8, <1>9 DEF InPage
<1>11. QED BY <1>2, <1>4, <1>5, <1>8, <1>9, <1>10, PollMoves

LEMMA ApplyInvalidateKeeps ==
  ASSUME StreamInv, NEW w \in Pollers, ApplyInvalidate(w) PROVE StreamInv'
<1>1. /\ poll[w].pc = "apply" /\ Event(w).act = "save" /\ Advance(w)
      /\ doubtful' = doubtful \cup {Event(w).of}
      /\ UNCHANGED <<feed, day, index, hand, acked>>
  BY DEF ApplyInvalidate
<1>2. /\ Event(w) \in Entries /\ Event(w) = feed[poll[w].at] /\ Busy(w)
      /\ 0 < poll[w].at /\ poll[w].at <= Len(feed)
  BY <1>1, EventInPage
<1>3. PICK p \in Goods : p = Event(w).of BY <1>1, <1>2 DEF Entries
<1>4. PICK q \in Polls : /\ poll' = [poll EXCEPT ![w] = q] /\ InPage(q)
                         /\ q.at = poll[w].at + 1 /\ q.pc \in {"apply", "save"}
  BY <1>1, AdvanceMoves
<1>5. /\ index[p] # NoRow => Offered(p, index[p].rev)
      /\ \A t \in Turns : hand[t] # NoRow => Offered(hand[t].of, hand[t].rev)
  BY DEF StreamInv, ReadsAreOffers
<1>6. QED BY <1>1, <1>2, <1>3, <1>4, <1>5, StreamFacts, WriteMoves

\* A row is deleted for the event of its product that a poll is at.
LEMMA DeleteRowKeeps ==
  ASSUME StreamInv, NEW w \in Pollers, poll[w].pc = "apply", NEW p \in Goods, p = Event(w).of,
         DeleteRow(w, p), UNCHANGED <<feed, day, hand, acked>>,
         \/ Advance(w) /\ Event(w).act = "delete"
         \/ Stop(w)
  PROVE  StreamInv'
<1>1. /\ Event(w) = feed[poll[w].at] /\ Busy(w) /\ poll[w].at \in Nat /\ poll[w].at \in Numbers(p)
      /\ 0 < poll[w].at /\ poll[w].at <= Len(feed) /\ poll[w].at - 1 \in Nat
  BY EventInPage
<1>2. PICK q \in Polls : /\ poll' = [poll EXCEPT ![w] = q] /\ InPage(q) /\ q.pc # "write"
                         /\ \/ q.at = poll[w].at + 1 /\ Event(w).act = "delete"
                            \/ q.at = poll[w].at
  BY AdvanceMoves, StopMoves
<1>3. \A t \in Turns : hand[t] # NoRow => Offered(hand[t].of, hand[t].rev)
  BY DEF StreamInv, ReadsAreOffers
<1>4. CASE LoseWrite(p)
  <2>1. UNCHANGED index /\ doubtful' = doubtful \cup {p} BY <1>4 DEF LoseWrite
  <2>2. index[p] # NoRow => Offered(p, index[p].rev) BY DEF StreamInv, ReadsAreOffers
  <2>3. QED BY <1>1, <1>2, <1>3, <2>1, <2>2, StreamFacts, WriteMoves
<1>5. CASE /\ index' = [index EXCEPT ![p] = NoRow]
           /\ doubtful' = IF ~Sold(p) THEN doubtful \ {p}
                          ELSE IF Overlapped(w) THEN doubtful \cup {p} ELSE doubtful
  <2>1. /\ index' \in [Goods -> Rows \cup {NoRow}] /\ index'[p] = NoRow
        /\ \A r \in Goods \ {p} : index'[r] = index[r] /\ (r \in doubtful' <=> r \in doubtful)
    BY <1>5, StreamFacts
  <2>2. poll'[w] = q /\ \A v \in Pollers \ {w} : poll'[v] = poll[v] BY <1>2, StreamFacts
  <2>3. ASSUME p \notin doubtful', NEW k \in Nat,
               \/ k = acked
               \/ \E v \in Pollers : poll'[v].pc # "idle" /\ k = poll'[v].at - 1
        PROVE  Follows(p, k)'
    <3>1. CASE ~Sold(p) BY <2>1, <3>1, GoneRowFollows, StreamFacts
    <3>2. CASE Sold(p)
      <4>1. ~(poll[w].at <= acked) /\ \A v \in Pollers \ {w} : ~Busy(v)
        BY <1>5, <2>3, <3>2 DEF Overlapped
      <4>2. k = acked \/ k = q.at - 1 BY <2>2, <2>3, <4>1 DEF Busy
      <4>3. acked \in Nat /\ poll[w].at <= Revision(p) /\ Revision(p) \in Nat
        BY <1>1, LastIs, StreamFacts
      <4>4. CASE k < poll[w].at
        <5>1. Last(p, k) \in Nat /\ (Last(p, k) > 0 => Last(p, k) <= k) BY LastIs, StreamFacts
        <5>2. Last(p, k) < Revision(p) BY <1>1, <4>3, <4>4, <5>1
        <5>3. QED BY <2>1, <5>2, GoneRowFollows, StreamFacts
      <4>5. CASE ~(k < poll[w].at)
        <5>1. k = poll[w].at /\ Event(w).act = "delete" BY <1>1, <1>2, <4>1, <4>2, <4>3, <4>5
        <5>2. Last(p, k) = k
          <6>1. Last(p, k) \in Nat /\ (Last(p, k) > 0 => Last(p, k) <= k) /\ k <= Last(p, k)
            BY <1>1, <5>1, LastIs, StreamFacts
          <6>2. QED BY <1>1, <5>1, <6>1
        <5>3. feed[Last(p, k)].act = "delete" BY <1>1, <5>1, <5>2
        <5>4. QED BY <2>1, <5>3, GoneRowFollows, StreamFacts
      <4>6. QED BY <4>4, <4>5
    <3>3. QED BY <3>1, <3>2
  <2>4. QED BY <1>1, <1>2, <1>3, <2>1, <2>3, StreamFacts, WriteMoves
<1>6. QED BY <1>4, <1>5 DEF DeleteRow

LEMMA ApplyDeleteKeeps == ASSUME StreamInv, NEW w \in Pollers, ApplyDelete(w) PROVE StreamInv'
<1>1. /\ poll[w].pc = "apply" /\ Event(w).act = "delete" /\ DeleteRow(w, Event(w).of)
      /\ Advance(w) /\ UNCHANGED <<feed, day, hand, acked>>
  BY DEF ApplyDelete
<1>2. Event(w).of \in Goods BY <1>1, EventInPage DEF Entries
<1>3. QED BY <1>1, <1>2, DeleteRowKeeps

LEMMA ApplyReadFailsKeeps ==
  ASSUME StreamInv, NEW w \in Pollers, ApplyReadFails(w) PROVE StreamInv'
<1>1. /\ poll[w].pc = "apply" /\ Event(w).act = "save" /\ DeleteRow(w, Event(w).of)
      /\ Stop(w) /\ UNCHANGED <<feed, day, hand, acked>>
  BY DEF ApplyReadFails, Refreshes
<1>2. Event(w).of \in Goods BY <1>1, EventInPage DEF Entries
<1>3. QED BY <1>1, <1>2, DeleteRowKeeps

LEMMA ApplyWriteKeeps == ASSUME StreamInv, NEW w \in Pollers, ApplyWrite(w) PROVE StreamInv'
<1>1. /\ poll[w].pc = "write" /\ Advance(w) /\ UNCHANGED <<feed, day, hand, acked>>
      /\ Upsert(Event(w).of, poll[w].got, day, TRUE) \/ LoseWrite(Event(w).of)
  BY DEF ApplyWrite
<1>2. /\ Event(w) = feed[poll[w].at] /\ Event(w) \in Entries /\ Busy(w)
      /\ 0 < poll[w].at /\ poll[w].at <= Len(feed)
  BY <1>1, EventInPage
<1>3. Offered(Event(w).of, poll[w].got) /\ Event(w).act = "save"
  BY <1>1, <1>2, StreamFacts DEF StreamInv, ReadsAreOffers, InPage
<1>4. PICK p \in Goods : p = Event(w).of BY <1>2, <1>3 DEF Entries
<1>5. PICK q \in Polls : /\ poll' = [poll EXCEPT ![w] = q] /\ InPage(q)
                         /\ q.at = poll[w].at + 1 /\ q.pc \in {"apply", "save"}
  BY <1>1, AdvanceMoves
<1>6. \A t \in Turns : hand[t] # NoRow => Offered(hand[t].of, hand[t].rev)
  BY DEF StreamInv, ReadsAreOffers
<1>7. CASE LoseWrite(p)
  <2>1. UNCHANGED index /\ doubtful' = doubtful \cup {p} BY <1>7 DEF LoseWrite
  <2>2. index[p] # NoRow => Offered(p, index[p].rev) BY DEF StreamInv, ReadsAreOffers
  <2>3. QED BY <1>1, <1>2, <1>4, <1>5, <1>6, <2>1, <2>2, StreamFacts, WriteMoves
<1>8. CASE Upsert(p, poll[w].got, day, TRUE)
  <2> DEFINE row == Row(poll[w].got, day, TRUE)
  <2>1. /\ index' = [index EXCEPT ![p] = row]
        /\ doubtful' = IF poll[w].got = Revision(p) THEN doubtful \ {p} ELSE doubtful \cup {p}
    BY <1>8 DEF Upsert
  <2>2. row \in Rows /\ row.rev = poll[w].got BY StreamFacts DEF Rows, Row
  <2> HIDE DEF row
  <2>3. /\ index' \in [Goods -> Rows \cup {NoRow}] /\ index'[p] = row
        /\ \A r \in Goods \ {p} : index'[r] = index[r] /\ (r \in doubtful' <=> r \in doubtful)
    BY <2>1, <2>2, StreamFacts
  <2>4. index'[p] # NoRow /\ Offered(p, index'[p].rev) BY <1>3, <1>4, <2>2, <2>3, StreamFacts
  <2>5. ASSUME p \notin doubtful', NEW k \in Nat PROVE Follows(p, k)'
    <3>1. poll[w].got = Revision(p) BY <2>1, <2>5
    <3>2. QED BY <1>1, <2>2, <2>3, <2>4, <3>1, NewestRowFollows, StreamFacts
  <2>6. QED BY <1>1, <1>2, <1>4, <1>5, <1>6, <2>3, <2>4, <2>5, StreamFacts, WriteMoves
<1>9. QED BY <1>1, <1>4, <1>7, <1>8

-----------------------------------------------------------------------------
LEMMA StreamStep == StreamInv /\ [StreamNext]_streamVars => StreamInv'
<1> SUFFICES ASSUME StreamInv, [StreamNext]_streamVars PROVE StreamInv' OBVIOUS
<1>1. ASSUME NEW p \in Goods, NEW act \in {"save", "delete"}, Change(p, act),
             UNCHANGED <<acked, poll>>
      PROVE  StreamInv'
  <2>1. [of |-> p, act |-> act] \in Entries BY DEF Entries
  <2>2. QED BY <1>1, <2>1, FeedGrows DEF Change
<1>2. ASSUME NEW t \in Turns, NEW p \in Goods, ReadStore(t, p) \/ ReadIndex(t, p),
             UNCHANGED <<acked, poll>>
      PROVE  StreamInv'
  BY <1>2, TurnReads
<1>3. ASSUME NEW t \in Turns, WriteBack(t), UNCHANGED <<acked, poll>> PROVE StreamInv'
  BY <1>3, WriteBackKeeps
<1>4. ASSUME NEW o \in Others, NEW act \in {"settled", "refused"}, OtherEvent(o, act)
      PROVE  StreamInv'
  <2>1. [of |-> o, act |-> act] \in Entries BY DEF Entries
  <2>2. QED BY <1>4, <2>1, FeedGrows DEF OtherEvent
<1>5. ASSUME NEW w \in Pollers, PollStep(w) \/ Abandon(w) PROVE StreamInv'
  BY <1>5, LoadKeeps, ListKeeps, SaveKeeps, ApplyDeleteKeeps, ApplyInvalidateKeeps, ApplyReadKeeps,
     ApplyReadFailsKeeps, ApplyWriteKeeps, ApplyOtherKeeps, AbandonKeeps DEF PollStep
<1>6. CASE UNCHANGED streamVars
  <2>1. UNCHANGED <<feed, day, index, hand, doubtful, acked, poll>>
    BY <1>6 DEF streamVars, catalogVars
  <2>2. StreamTypes' /\ ReadsAreOffers' /\ PollsInPage'
    BY <2>1 DEF StreamInv, StreamTypes, ReadsAreOffers, Offered, Numbers, Event, PollsInPage, InPage
  <2>3. IndexFollows <=> IndexFollows'
    BY <2>1 DEF IndexFollows, Follows, Last, Revision, Numbers, Newest, Busy
  <2>4. QED BY <2>2, <2>3 DEF StreamInv
<1>7. QED BY <1>1, <1>2, <1>3, <1>4, <1>5, <1>6 DEF StreamNext

\* Every reachable state satisfies the invariant, for any number of products,
\* changes, polls and turns, any page and any budget of reads.
THEOREM StreamInvariant == StreamSpec => []StreamInv
<1>1. QED BY StreamInitially, StreamStep, PTL DEF StreamSpec

\* Acknowledging an event loses nothing that the history does not tell.
THEOREM CursorLosesNothing == StreamSpec => []IndexFollowsCursor
<1>1. StreamInv => IndexFollowsCursor
  BY DEF StreamInv, IndexFollows, Follows, Last, IndexFollowsCursor, Acknowledged
<1>2. QED BY <1>1, StreamInvariant, PTL
=============================================================================

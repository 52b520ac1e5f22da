----------------------------- MODULE StoryJobs ------------------------------
(***************************************************************************)
(* The analysis of one Instagram Story, shared by every conversation that  *)
(* asks about it: app/stories/story_analysis_jobs.py and its worker,       *)
(* app/stories/story_analysis_worker.py.  A row of the database is the job *)
(* and says which generation of evidence is wanted; Redis keeps copies by  *)
(* generation.  An administrator who unlinks the Story                     *)
(* (app/stories/story_product_repository.py) starts a new generation.      *)
(*                                                                         *)
(* Jobs share nothing, so one is enough.  Evidence is named by the         *)
(* generation its analyst was asked for, none of it by 0.                  *)
(***************************************************************************)
EXTENDS Naturals

CONSTANTS Analysts,       \* calls of process_story_analysis_batch
          Readers,        \* inbox rows whose turn is about the Story
          MaxTries,       \* 3
          MaxGeneration   \* bound of the model: the last generation does not expire

ASSUME StoryAssumption ==
  /\ MaxTries \in Nat \ {0}
  /\ MaxGeneration \in Nat \ {0}

Generations == 1..MaxGeneration
JobStatus   == {"pending", "processing", "ready", "failed"}

\* What an analyst may be about to write: a result, an error, an error that
\* ends the job (file_too_large, duration_limit, http_404, http_410).
Outcomes == {"result", "error", "fatal"}

VARIABLES job,        \* the row
          available,  \* its available_at has come
          cache,      \* Redis: evidence by generation
          analyst,    \* copy of the row each analyst claimed, and what it does
          reader      \* what each turn knows

storyVars == <<job, available, cache, analyst, reader>>

Resting == [doing |-> "idle", generation |-> 1, tries |-> 0, writes |-> {}, late |-> FALSE]

Quiet   == [doing |-> "idle", generation |-> 1, evidence |-> 0]

StoryInit ==
  /\ job = [status |-> "pending", generation |-> 1, tries |-> 0, holder |-> {},
            leased |-> FALSE, expired |-> FALSE, result |-> 0]
  /\ available = TRUE
  /\ cache = [g \in Generations |-> 0]
  /\ analyst = [a \in Analysts |-> Resting]
  /\ reader = [r \in Readers |-> Quiet]

-----------------------------------------------------------------------------
(* The worker *)

\* claim_job gives a job up whose last analyst died.
Exhausted ==
  /\ job.status = "processing" /\ ~job.leased /\ job.tries >= MaxTries

\* Variant: claim_job only looks for work.
NeverGivesUp == Exhausted /\ FALSE

GivesUp == Exhausted

GiveUp ==
  /\ GivesUp
  /\ job' = [job EXCEPT !.status = "failed", !.holder = {}, !.expired = FALSE]
  /\ UNCHANGED <<available, cache, analyst, reader>>

ClaimJob(a) ==
  /\ analyst[a].doing = "idle"
  /\ job.tries < MaxTries /\ available
  /\ job.status = "pending" \/ (job.status = "processing" /\ ~job.leased)
  /\ job' = [job EXCEPT !.status = "processing", !.holder = {a}, !.leased = TRUE,
                        !.tries = @ + 1]
  /\ analyst' = [analyst EXCEPT ![a] =
       [doing |-> "analyzing", generation |-> job.generation, tries |-> job.tries + 1,
        writes |-> {}, late |-> FALSE]]
  /\ UNCHANGED <<available, cache, reader>>

\* analyze_job comes to an end and hands its write to a thread.
Concludes(a) ==
  /\ analyst[a].doing = "analyzing"
  /\ \E k \in Outcomes :
       analyst' = [analyst EXCEPT ![a].doing = "writing", ![a].writes = {k}]
  /\ UNCHANGED <<job, available, cache, reader>>

\* wait_for gives up after 210 seconds; a thread that is writing goes on.
TimesOut(a) ==
  /\ analyst[a].doing # "idle" /\ ~analyst[a].late
  /\ analyst' = [analyst EXCEPT ![a].doing = "writing", ![a].late = TRUE,
                                ![a].writes = @ \cup {"error"}]
  /\ UNCHANGED <<job, available, cache, reader>>

\* Variant: the write names the job and its generation, nothing more.
HoldsGeneration(a) == job.generation = analyst[a].generation

Holds(a) ==
  /\ job.generation = analyst[a].generation
  /\ job.holder = {a}
  /\ job.status = "processing"
  /\ job.leased

\* Variant: one attempt more than claim_job allows.
TerminalLater(a, k) == k = "fatal" \/ (k = "error" /\ analyst[a].tries > MaxTries)

Terminal(a, k) == k = "fatal" \/ (k = "error" /\ analyst[a].tries >= MaxTries)

\* finish_job's update.
Written(a, k) ==
  [job EXCEPT !.status = IF k = "result" THEN "ready" ELSE IF Terminal(a, k) THEN "failed" ELSE "pending",
              !.result = IF k = "result" THEN analyst[a].generation ELSE 0,
              !.holder = {}, !.leased = FALSE, !.expired = FALSE]

WriteOutcome(a, k) ==
  IF Holds(a) THEN job' = Written(a, k) /\ available' = FALSE ELSE UNCHANGED <<job, available>>

\* The analyst after a write; only a result saved in time goes on to Redis.
Left(a, k) ==
  LET left == analyst[a].writes \ {k} IN
  CASE left # {}                                       -> [analyst[a] EXCEPT !.writes = left]
    [] k = "result" /\ Holds(a) /\ ~analyst[a].late   -> [analyst[a] EXCEPT !.writes = {}, !.doing = "publishing"]
    [] OTHER                                           -> Resting

FinishJob(a) ==
  /\ analyst[a].doing = "writing"
  /\ \E k \in analyst[a].writes :
       /\ WriteOutcome(a, k)
       /\ analyst' = [analyst EXCEPT ![a] = Left(a, k)]
  /\ UNCHANGED <<cache, reader>>

\* The connection fails, before or after the commit: a result is then followed
\* by an error, and an error that cannot be written ends the call.
WriteFails(a) ==
  LET now == analyst[a] IN
  /\ now.doing = "writing"
  /\ \E k \in now.writes :
       /\ WriteOutcome(a, k) \/ UNCHANGED <<job, available>>
       /\ analyst' = [analyst EXCEPT ![a] =
            IF k = "result" /\ ~now.late THEN [now EXCEPT !.writes = {"error"}]
            ELSE IF now.writes = {k} THEN Resting
            ELSE [now EXCEPT !.writes = now.writes \ {k}]]
  /\ UNCHANGED <<cache, reader>>

\* Redis takes the copy, or cannot be reached.
Publish(a) ==
  /\ analyst[a].doing = "publishing"
  /\ \/ cache' = [cache EXCEPT ![analyst[a].generation] = analyst[a].generation]
     \/ UNCHANGED cache
  /\ analyst' = [analyst EXCEPT ![a] = Resting]
  /\ UNCHANGED <<job, available, reader>>

\* The process ends, or load_persona_runtime fails before the analysis.
AnalystDies(a) ==
  /\ analyst[a].doing # "idle"
  /\ analyst' = [analyst EXCEPT ![a] = Resting]
  /\ UNCHANGED <<job, available, cache, reader>>

-----------------------------------------------------------------------------
(* The turns *)

\* ensure_job renews a job that has expired.
Renewed ==
  IF job.expired
    THEN [job EXCEPT !.status = "pending", !.generation = @ + 1, !.tries = 0,
                     !.result = 0, !.expired = FALSE]
    ELSE job

\* The inbox claims a deferred row once its job is ready or failed.
Resume(r) ==
  /\ reader[r].doing = "waiting" /\ job.status \in {"ready", "failed"}
  /\ reader' = [reader EXCEPT ![r] = Quiet]
  /\ UNCHANGED <<job, available, cache, analyst>>

\* prepare_story_turn: ensure_job, and what the row it returns says.
Ask(r) ==
  /\ reader[r].doing = "idle"
  /\ job' = Renewed
  /\ reader' = [reader EXCEPT ![r] =
       CASE Renewed.status = "ready"  -> [doing |-> "asked", generation |-> Renewed.generation, evidence |-> 0]
         [] Renewed.status = "failed" -> Quiet
         [] OTHER                     -> [Quiet EXCEPT !.doing = "waiting"]]
  /\ UNCHANGED <<available, cache, analyst>>

ReadCache(r) ==
  /\ reader[r].doing = "asked"
  /\ cache[reader[r].generation] # 0
  /\ reader' = [reader EXCEPT ![r].doing = "idle", ![r].evidence = cache[reader[r].generation]]
  /\ UNCHANGED <<job, available, cache, analyst>>

\* Redis has no copy or does not answer.
ReadRow(r) ==
  /\ reader[r].doing = "asked"
  /\ reader' = [reader EXCEPT ![r] =
       IF job.generation = reader[r].generation /\ job.status = "ready" /\ ~job.expired
         THEN [@ EXCEPT !.doing = "filling", !.evidence = job.result]
         ELSE [Quiet EXCEPT !.doing = "waiting"]]
  /\ UNCHANGED <<job, available, cache, analyst>>

FillCache(r) ==
  /\ reader[r].doing = "filling"
  /\ \/ cache' = [cache EXCEPT ![reader[r].generation] = reader[r].evidence]
     \/ UNCHANGED cache
  /\ reader' = [reader EXCEPT ![r].doing = "idle"]
  /\ UNCHANGED <<job, available, analyst>>

\* The turn ends in an exception or with its process; the inbox retries it.
TurnDies(r) ==
  /\ reader[r].doing \in {"asked", "filling"}
  /\ reader' = [reader EXCEPT ![r] = Quiet]
  /\ UNCHANGED <<job, available, cache, analyst>>

-----------------------------------------------------------------------------
(* The administrator, and time *)

Unlink ==
  /\ job.generation < MaxGeneration
  /\ job' = [status |-> "pending", generation |-> job.generation + 1, tries |-> 0,
             holder |-> {}, leased |-> FALSE, expired |-> FALSE, result |-> 0]
  /\ available' = TRUE
  /\ UNCHANGED <<cache, analyst, reader>>

LeaseLapses ==
  /\ job.leased
  /\ job' = [job EXCEPT !.leased = FALSE]
  /\ UNCHANGED <<available, cache, analyst, reader>>

\* Two minutes after a failure, seven days after anything else.
Expires ==
  /\ ~job.expired /\ job.generation < MaxGeneration
  /\ job' = [job EXCEPT !.expired = TRUE]
  /\ UNCHANGED <<available, cache, analyst, reader>>

ComesDue ==
  /\ ~available
  /\ available' = TRUE
  /\ UNCHANGED <<job, cache, analyst, reader>>

Evict ==
  /\ \E g \in Generations : cache[g] # 0 /\ cache' = [cache EXCEPT ![g] = 0]
  /\ UNCHANGED <<job, available, analyst, reader>>

AnalystStep(a) ==
  Concludes(a) \/ TimesOut(a) \/ FinishJob(a) \/ WriteFails(a) \/ Publish(a) \/ AnalystDies(a)

StoryNext ==
  \/ \E a \in Analysts : ClaimJob(a) \/ AnalystStep(a)
  \/ GiveUp
  \/ \E r \in Readers : Resume(r) \/ Ask(r) \/ ReadCache(r) \/ ReadRow(r) \/ FillCache(r) \/ TurnDies(r)
  \/ Unlink \/ LeaseLapses \/ Expires \/ ComesDue \/ Evict

StorySpec == StoryInit /\ [][StoryNext]_storyVars

\* pg_cron calls the dispatcher every 15 seconds: a job that is due is claimed
\* or given up, a released row is taken up; analyses end and time passes.
StoryFair ==
  /\ WF_storyVars(GiveUp)
  /\ WF_storyVars(\E a \in Analysts : ClaimJob(a))
  /\ \A a \in Analysts : WF_storyVars(AnalystStep(a))
  /\ \A r \in Readers : WF_storyVars(Resume(r))
  /\ WF_storyVars(LeaseLapses)
  /\ WF_storyVars(ComesDue)

-----------------------------------------------------------------------------
(* Properties *)

\* A turn uses evidence of the generation that was current when it asked:
\* whatever late analysts write and old copies remain, evidence from before an
\* unlinking does not reach a turn that began after it.
EvidenceIsCurrent ==
  \A r \in Readers : reader[r].evidence \in {0, reader[r].generation}

\* Within a generation the first result is final: neither an analyst whose
\* lease lapsed nor the time-out of the one that saved it takes it back.
ReadyIsFinal ==
  [][ job.status = "ready" /\ job'.generation = job.generation
        => job'.status = "ready" /\ job'.result = job.result ]_storyVars

\* The jobs keep what EvidencePromise promises: whatever late analysts write and
\* old copies remain, every step is a step of the promise or none.
Evidence ==
  INSTANCE EvidencePromise WITH
    generation <- job.generation,
    outcome    <- IF job.status \in {"ready", "failed"} THEN job.status ELSE "open",
    asked      <- [r \in Readers |-> IF reader[r].doing = "asked" \/ reader[r].evidence # 0
                                       THEN reader[r].generation ELSE 0],
    used       <- [r \in Readers |-> reader[r].evidence]

KeepsEvidencePromise == Evidence!EvidenceSpec

\* A job that turns wait for can always be brought to its end: it is being
\* analyzed, or may be claimed once more when it is due, or claim_job gives it
\* up; it never runs out of attempts in between.
WaitersAreServed ==
  \A r \in Readers : reader[r].doing = "waiting" =>
    \/ job.status \in {"ready", "failed"}
    \/ job.status = "processing" /\ (job.leased \/ GivesUp)
    \/ job.tries < MaxTries

\* A message that waits for the analysis is taken up again, although analysts
\* die on any attempt (claim_job: "must eventually release waiters").
WaitersResume ==
  \A r \in Readers : reader[r].doing = "waiting" ~> reader[r].doing # "waiting"

-----------------------------------------------------------------------------
(* The inductive invariant *)

StoryTypeOK ==
  /\ job \in [status : JobStatus, generation : Generations, tries : 0..MaxTries,
              holder : SUBSET Analysts, leased : BOOLEAN, expired : BOOLEAN,
              result : 0..MaxGeneration]
  /\ available \in BOOLEAN
  /\ cache \in [Generations -> 0..MaxGeneration]
  /\ analyst \in [Analysts -> [doing : {"idle", "analyzing", "writing", "publishing"},
                               generation : Generations, tries : 0..MaxTries,
                               writes : SUBSET Outcomes, late : BOOLEAN]]
  /\ reader \in [Readers -> [doing : {"idle", "asked", "filling", "waiting"},
                             generation : Generations, evidence : 0..MaxGeneration]]

ReadyHasResult == job.status = "ready" => job.result = job.generation

CopiesAreTrue == \A g \in Generations : cache[g] \in {0, g}

FillsWhatItRead ==
  \A r \in Readers : reader[r].doing = "filling" => reader[r].evidence = reader[r].generation

StoryInv ==
  /\ StoryTypeOK
  /\ job.expired => job.generation < MaxGeneration
  /\ ReadyHasResult
  /\ CopiesAreTrue
  /\ FillsWhatItRead
  /\ EvidenceIsCurrent

\* Whoever holds the job counts its attempts as the row does.
HoldersCount ==
  \A a \in Analysts : analyst[a].doing # "idle" =>
    /\ analyst[a].generation <= job.generation
    /\ job.holder = {a} /\ job.generation = analyst[a].generation => job.tries = analyst[a].tries

PendingMayTry == job.status = "pending" => job.tries < MaxTries

ServeInv == StoryInv /\ HoldersCount /\ PendingMayTry

=============================================================================

# CallQA in TLA+

CallQA (`src/`) takes a bank's call recordings and turns each into a scored,
anonymised report: ingestion, audio preparation, speech recognition, speaker
separation, redaction, features, a language-model judge and a report.  A second
half, the *journey*, reads the calls and correspondences of a customer's story
together with the bankers' log.  The program runs unattended for hours on
machines that are shared, restarted and short of disk, and what it publishes is
about people: a wrong quote, an identifier left in a text or a red flag on the
wrong banker is as bad as a lost recording.

The modules here specify both: the runs that die half-way, the locks and files
they leave behind, and the algorithms between a recording and a finding, over
recordings, texts and stories small enough to be written down.  TLC checks them
on small instances; TLAPS proves the statements listed under *What is proved*
for every value of the constants.

All paths below are relative to `src/src/callqa/` unless they start with
`src/`.

## 1. Inventory

### Components, their state, and how they meet

| component | code | state it keeps | operations | module |
|---|---|---|---|---|
| run state and call lock | `state.py` | SQLite tables `stages` and `locks`; artifacts written by rename | `mark_stage_done`, `is_stage_done`, `clear_call`, `acquire_lock`, `release_lock` | `CallLock`, `Mutex`, `Pipeline` |
| call pipeline | `pipeline.py` | eight artifacts per call, `results/`, `results_partial/`; in memory `_recompute_from`, `review_reasons` | `process_call` | `Pipeline`, `CallAnalysis` |
| early diarization worker | `pipeline.py:149-272`, `speakers/diar_worker.py` | a child process and two files beside the WAV | `start`, `collect`, `cancel` | `CallAnalysis` |
| speakers | `speakers/` | none | two labels, attribution of words, roles, stereo | `Speakers` |
| text redaction | `redaction.py` | none | `find_pii`, cutting of finds into turns | `Detection`, `Masks` |
| redacted audio | `audio_redaction.py`, `pipeline.py:461-500` | `redacted_audio/<id>.wav` and its sidecar | `masked_time_ranges`, `produce_redacted_audio` | `Masks`, `RedactedAudio` |
| features, rubric, aggregation, calibration | `features.py`, `rubric.py`, `aggregation.py`, `calibration.py` | none | pure functions of a dialog, of scorecards and of ratings | `Features`, `Scores` |
| judge | `judge/` | none; retries with feedback | `judge_call`, the HTTP client | `Judge` |
| management report | `reporting/executive/` | none; reads the output directory | `load_dataset`, `analyse`, `derive_findings` | `Batch`, `Opinion` |
| watch loop | `cli.py:385-498` | `sizes`: when each file was last seen to change | `watch_loop` | `Watch` |
| dashboard | `src/dashboard/server.py` | none; reads the files of the pipeline | `GET /api/...` | `RedactedAudio` (audio route) |
| dataset lock | `journey/engine.py:84-150` | the file `process.lock` | `__enter__`, `__exit__` | `DatasetLock` |
| journey processing | `journey/engine.py`, `journey/cli.py` | `output/redacted/<id>.json` of each call, the report | `process`, `content`, `estimate` | `Journey` |
| journey content | `journey/content.py`, `journey/llm/` | `content.json`, the answer cache | `run_content`, `read_story`, `ask` | `Content` |
| journey sessions, timeline, rules | `journey/sessions.py`, `timeline.py`, `rules.py`, `session_analysis.py` | none | pure functions of a data set | `Timeline` |
| ingestion, audio, ASR | one module each | none | metadata, signal processing, a neural model | inputs |
| operations, rendering, configuration, scripts | | logs, ratings, run manifests | one command each | not modelled |

The parts meet in four ways only.

* **Through the state database.**  Any number of processes (`run`, `watch`,
  `process`, `journey process`, on one machine or several) share the tables.  A
  call is entered through `acquire_lock` and left through `release_lock`; inside,
  rows of `stages` say what a later run may reuse.
* **Through files.**  A stage hands its artifact to the next stage *and* to the
  next run.  The dashboard, the reports and the retention sweep read or remove
  the same files with no lock at all.
* **Through the file system of the input.**  A recorder the program knows
  nothing about writes into `input/calls/`; the watch loop moves files out of it.
* **Through return values.**  Drivers look at the status and at one prefix
  (`locked:`) of the error in the envelope that `process_call` returns.

### What is hard, and what makes each part right

* *Call lock.*  Insert, select, age, liveness, age again and update are separate
  statements, and anything may happen between two of them; pids are reused; the
  age limit takes a lock from a process that is merely slow.  Right means: one
  process at a time while nothing outlives the limit; never a row removed by
  somebody else; never a call locked for ever.
* *Pipeline.*  Crashes between an artifact and its row, runs that stop early or
  start over, and artifacts that vanish.  Right means: what is published was
  built from what is there now; a reason for human review survives a resume;
  nothing ever needs `--force`.
* *Worker.*  A child with a deadline of its own that may outlive a killed parent
  and write its answer beside a newer recording.  Right means: what is heard of
  it is about the recording of this run, and it holds nothing up.
* *Speakers.*  Words split among labels that mean nothing in themselves.  Right
  means: nothing said is lost or doubled, the roles do not depend on the
  diarizer's names, and swapping what was heard swaps what is concluded.
* *Redaction.*  Finds that overlap, that span two turns, that a word without a
  time belongs to.  Right means: what was masked in the text is silent in the
  audio, and nothing is masked for no reason.
* *Judge.*  An answer that is repaired again and again: quotes snapped to the
  transcript, samples merged, formats given up.  Right means: a quote that is
  shown was said, and by the party it is said to have been; a failed gate never
  vanishes in a mean or a median.
* *Management report.*  Thirty figures over the same calls that must agree with
  each other.  Right means: nothing is shown that was not proven redacted,
  everything adds up to the index, bad news is not pushed out by good news.
* *Redacted audio.*  Three files replaced one after another while a reader
  looks at all three.  Right means: audio silenced for an old mask is not played.
* *Watch loop.*  Deciding that a file is complete from two looks at its size,
  with a clock read once per pass.  Right means: never half a recording, never
  one recording over another, every recording out of the folder in the end.
* *Dataset lock.*  The same problem as the call lock, with a file instead of a
  transaction.
* *Journey content.*  Answers cached before they are parsed, stories read in
  parallel, a deadline, a reading that must not lose what an earlier one had.
  Right means: what is saved belongs together, a second run is free, what is not
  reached is kept, and the report comes in the end.
* *Journey timeline.*  Judgements about a story that is still going on.  Right
  means: a promise is not broken before its day is over nor kept by an act
  before it, missing data is no verdict, a fact overrules the model, and a
  later export does not change what was settled.

The full list, each at its line and with the property that covers it or the
reason why none does, is under `hazards` in `PROJECT.json`.

## 2. The modules and the code

Three kinds of module.  *Machines* have variables and actions and follow a
program through its steps: `Mutex`, `CallLock`, `Pipeline`, `RedactedAudio`,
`Watch`, `DatasetLock`, `Content`, `Journey`, and, around algorithms,
`CallAnalysis`, `Judge` and `Timeline`.  *Algorithms* are operators without
state: `Speakers`, `Features`, `Detection`, `Masks`, `Scores`, `Batch`,
`Opinion`; the machines above apply them.  `MC*` modules give the constants of
the machines their values for TLC, `*Proofs` modules hold proofs.

    CallAnalysis  EXTENDS  Speakers, Features, Masks, Detection
    Judge         EXTENDS  Opinion  EXTENDS  Batch  EXTENDS  Scores
    Journey       EXTENDS  Content
    CallLock      implements  Mutex

### `Mutex` - what a lock promises

Work with at most one holder, which gives it up or dies holding it; only a dead
holder's work is inherited.  Two variables, four actions.  `CallLock` implements it.

### `CallLock` - `acquire_lock`, `release_lock`

A *slot* is a pid on a host.  `lock` is the row for one call; `pc[p]` is the
statement a process is about to execute.

| code | action |
|---|---|
| INSERT succeeds (`state.py:200-205`) | `TryInsert` |
| INSERT fails, SELECT pid, hostname in the same transaction (`:206-211`) | `InsertFails` |
| `acquired_at = time.time() - _lock_age()` (`:212`) | `ReadAcquiredAt` |
| `_pid_alive`, `started_after` (`:213-216`) | `ProbeOwner` |
| `stale_by_age` (`:220`) | `CheckExpiry` |
| conditional UPDATE (`:225-231`) | `Steal` |
| conditional DELETE (`:249-253`) | `Release` |

The environment kills a process (`Crash`), gives its pid away (`Respawn`) and
lets time pass (`Tick`).  Ages count upwards and saturate one tick past the
limit, where nothing distinguishes them any more, so time needs no bound.
`Windows` says whether `started_after` can tell when a process began (elsewhere
it answers "no").  `MaxBusy` bounds how long an attempt or a processing lasts:
below `TTL` nothing outlives the limit, above it the slow process is robbed.

### `Pipeline` - `process_call`

`at` is the stage a run is in and `step` where in the stage: loading, making,
marking.  Artifacts have no contents: `disk` says whether a file is there and
usable, `stale` which artifacts were built from inputs replaced since, `flagged`
which of them give a reason for human review.  `Inputs(s)` is read off the
arguments of each stage's function.

| code | definition |
|---|---|
| lock, `force`, `clear_call` (`pipeline.py:302-321`) | `Begin` |
| `_ArtifactStore.is_done`, `.load` (`:109-146`) | `IsDone`, `Usable`, `LoadArtifact`, `NoteRecompute` |
| compute and `atomic_write_model` of each stage | `MakeArtifact` |
| `mark_done`, then `_stopped` or the next stage | `MarkDone`, `Finish` |
| the envelope of a complete run (`:556-566`) | `Publish` |
| `NeedsHumanReviewError` (`:530-539`) | `JudgeGivesUp` |
| `except Exception` (`:567-584`) | `Fail` |
| `finally` (`:585-589`) | `Release`, `ReleaseFails` |

An unsafe `call_id` or a locked call returns before anything is written and is
therefore no step.  `lock` has only the values a single run can tell apart:
that two runs are not inside together is `CallLock`'s promise.  `cut` is a
history variable and decides nothing: it remembers that a run which had begun to
recompute after a loss ended before its last stage (`CutShort`), until `force`
clears the rows.

### `CallAnalysis` - what stages 3 to 6 make of a call

Two things in one machine, because they meet in the dialog.  First the race of
recognition with the diarization worker: the worker writes, fails, hangs, quits
or is killed (`WorkerWrites`, `WorkerFails`, ...), the run transcribes, collects
with a deadline or diarizes itself, and a killed run leaves an orphan that goes
on writing until it notices (`OrphanWrites`, `OrphanNotices`).  What a worker
writes is told apart by the recording it read.  Then the algorithms, applied by
one action each: `Attribute` (stage 4, `Speakers`), `Redact` (stage 5,
`Detection` and `Masks`), `ComputeFeatures` (stage 6, `Features`).  A *call* of
the instance is a small recording written down as a record; the families of
`MCCallAnalysis` enumerate them.

* `Speakers`: `diarization.py` (`ReduceToTwo`, `LabelFor`, `SmoothIslands`,
  `AttributeSegments`), `roles.py` (`FirstSayers`, `Votes`, `Tally`,
  `InferRoles`) and `stereo.py` (`MergeStereo`, `VerifyStereoRoles`).  Of a word
  only the cue is kept that `roles.py` looks for.
* `Detection`: `redaction.py` over tokens.  `DigitRuns`, `Classified` and the
  checksums find shaped identifiers; `Dictations` folds numbers dictated in
  words; `RepeatedFragments` finds the tail read back; `Extract`, `Reply` and
  `Inline` find what answers a question for a name, a birth date or an address;
  `FindPii` puts them together in the order of the code.
* `Masks`: `Apply` and `RedactTurn` cut finds into turns; `MaskedTimeRanges`
  turns them into stretches of silence, `Required` and `Located` being the
  second pass over turns whose words have no times.
* `Features`: talk shares, monologues, interruptions, patience and dead air.

### `RedactedAudio` - the silenced recording and its reader

A mask is a number; two transcripts with the same masks have the same
fingerprint.  The writer replaces transcript, row, WAV and sidecar in separate
steps, each of which may be the last before a crash; a failed WAV is followed by
two deletions, each of which may fail.  A run told to stop with the redaction
returns before it looks at the audio (`StopEarly`, `pipeline.py:458-459`): so
does every `journey process`.  The history variable `cut` remembers that a run
ended behind the transcript it had written, by a crash (`Behind`) or by such a
stop; it is cleared when the pair is whole again, or the WAV gone.  The
reader executes the route of the dashboard check by check.  `during` remembers
which transcripts there were while the request was answered, so that
`ServedWasCurrent` does not ask for more than a reader without a lock can give.

### `Judge` - the judging of a call, and what the reports make of it

| code | definition |
|---|---|
| `prompts.py`: transcript lines, the cut of a long one | `FormatTranscript`, `ElideMiddle` |
| `vllm_judge.py`: `json_schema`, then the model's JSON; system role, then merged | `ChatJson`, `ChatWithRoleFallback` |
| `validation.py`: a quote is looked for, snapped, accepted or refused | `HoldersOf`, `SnapQuote`, `Verified`, `Valid` |
| `runner.py`: an answer, a rejection with feedback, a transport failure | `Accept`, `Reject`, `TransportFails` |
| the samples merged, the card, `results/` | `Assemble` |
| the aggregates, the calibration, the management report | `Report` |

A text is a sequence of words.  `Size` says how long a word is and `Plain` to
which pieces normalisation brings it: a number to its digits, a word to itself, a
mask to its name without the brackets, a punctuation mark to nothing.  A quote is
compared piece by piece (`Normal`, `Holds`), as `needle in text` compares by
characters (`validation.py:163,184`), so it may begin or end inside a number, and
two texts that differ only in punctuation are the same to `validation.py` and
differ to a reader.

* `Scores`: `WeightedTotal` with the gate's cap (`rubric.py`), `MergeSamples`
  (`runner.py`), `LoadScorecards` and `AggregateBankers` (`aggregation.py`),
  `HumanScores`, `SafeQwk`, `Flagged`, `Passes` (`calibration.py`).
* `Batch`: `dataset.py` (`TextGate`, `CardOf`, `Record`, `LoadBatch`, `Matches`)
  and `analysis.py` (`Periods`, `Segments`, `Groups`, `Typical`, `Drivers`,
  `Trend`, `Best`, `Worst`, `Attention`, `Analyse`).  Whether an interval leaves
  out a value is the parameter `Significant`; the instance gives it a sign test
  that is wrong sometimes, as a real test is.  Means are exact: `Unit` is a
  multiple of the sizes of all groups, and `Shares` of the numbers of gates.
* `Opinion`: the rules of `findings.py` (`GateFindings` ... `CoverageFindings`),
  their order, the five of the first page (`ExecutiveFive`), the proposed
  actions.

### `Watch` - `watch_loop`

`pc` follows the loop through one file; `now` is the age of the loop variable
`now`, which is read once per pass; `sizes` is the dictionary of the same name.
A file's size is the number of pieces still to be written.  `old` marks a copy
that came with its source's mtime.  `process_call` is seen from outside: it takes
the lock or is refused, and answers from what the call's first stages were made
of (`built`).  Other processes may hold a call, work on it, and move its file.
`nameOf` never changes; Init chooses it freely, so one run covers recordings with
different names and with one name.

### `DatasetLock` - `DatasetLock`

`file` is `process.lock` with the process that created it, the pid in it and
whether it is younger than `FRESH_SEC`.  A command that is started, or started
again (`Restart`), gets any pid that no living process has, and so does any other
program of the machine (`OtherStarts`, `OtherEnds`): the pid in a dead command's
file may come back, as another command's, as an unrelated program's, or as the
starter's own.  Unlike `acquire_lock`, `__enter__` asks of a pid only whether it
is alive (`engine.py:139`): it compares no start time and does not ask whether the
pid is its own.  `links` says whether the file system has
hard links: with them the file appears with its pid in it, without them it is
created empty and written next.  Every read, check and unlink is an action.

### `Content`, `Journey` - a night's work on a data set

A story is a sequence of contacts; its reading is a card for each contact with a
text, then the reasons of the returns, then a verdict.  `ask` is `FromCache`,
`FromEngine`, `EngineFails` and `Parse` (with `Put` before parsing, `Retry` and
`Fail` after it); `read_story` is `MoveOn`; `run_content` is `Open` (a thread
takes a story), `Record`, `Unreadable`, `Finish` with `MaySave` and `Merge`,
`End`.  A card is full, or *cut* when quotes in it could not be verified; what is
told to the model is part of the question, so a cached answer can be seen to
belong to another question.  `Journey` puts the three commands around it:
`Start`, one action per call transcribed or failed, the deadline between two
calls, the report; and deaths, other commands and trials of another model
between any two steps.

### `Timeline` - one story, event by event

The world acts: `Call`, `Write`, `Reply`, `Act` (a burst of a banker's log rows)
add to `contacts` and `rows`; `Run` is what the program makes of everything that
happened so far.  `BuildSessions` (`sessions.py`, `importers/atlas.py`),
`ServedBy` (`timeline.py`: touch points, nearest first and window after),
`CheckPromise`, `InferStatus` and `AddBusinessDays` (`rules.py`),
`StorySessions`, `FirstMoveAfter` and the figures (`session_analysis.py`),
`ShownStatus` (`analysis.py`).  Two runs at different times see each other only
through the properties.

### Faults in the definitions

Some definitions are *not* part of a specification: a comment ("Seeded
defect: ...", or the header of the module) says so.  Each is the definition
after it with a plausible mistake: a dropped condition, a row left behind, two
instants subtracted the wrong way.  Put in place of the right one, each makes TLC
report the property it is listed with in `PROJECT.json`.  They keep the
properties honest.

## 3. What TLC checks

| run | instance | shows |
|---|---|---|
| `call_lock_prompt` | 3 slots on 2 machines, 2 crashes, `MaxBusy <= TTL`, no pid reused | `MutualExclusion`, `ImplementsMutex` |
| `call_lock_slow` | 2 slots on 2 machines, a crash, `MaxBusy = 2 * TTL`, pids reused, fair | `RemovedByItsWriter`, `Unblocked` |
| `call_lock_theft` | 2 slots on one machine, no crash | a counterexample to `NoFreshTheft` |
| `pipeline_runs` | any sequence of complete, stopped and forced runs; two faults of four kinds; one artifact lost or damaged; fair | `FreshUnlessCut`, `ResumableUnlessLost`, `ReviewSurvivesResume`, `PartialIsNotDone`, `Recovers` |
| `pipeline_stale` | one artifact lost, no fault | a counterexample to `PublishedFresh` |
| `dataset_lock_commands` | 2 commands started again and again and other programs, on 3 pids that come back; 2 crashes, with and without hard links; fair | `OneWriterWhileAlive`, `BlockedByALivePidOnly` |
| `redacted_audio_serve` | 3 masks, runs that stop early, 3 crashes or files held open | `ServedWasCurrent`, `AudioIsRemade` |
| `watch_folder` | 2 recordings, 2 names, 1 fault; fair | `NoneOverwritten`, `Handled`, `ProcessedWasMade`, `StableFirst`, `EveryFileLeaves` |
| `journey_nights` | 2 stories, 3 contacts with a text, nightly runs, trials, estimates; a bad answer, a fault, a mishap; fair | `ReadingIsWhole`, `FreeRerun`, `UnreadKept`, `ReportedInTheEnd` |
| `call_analysis` | some hundred recordings and texts in families; 2 recordings and 2 faults of the worker; fair | `AnswerIsOfThisRecording`, `DialogIsFaithful`, `RolesAreStable`, `AudioCoversText`, `TextIsMasked`, `FeaturesAsDefined`, `WorkerNeverHoldsUp` |
| `judge_calls` | calls, servers and judges in families; some thirty output directories | `EvidenceIsReal`, `ScoreIsSafe`, `DegradesAsPromised`, `CountsWhatStands`, `JudgingEnds`, `NothingUnproven`, `ReportAddsUp`, `OpinionIsFair` |
| `timeline_story` | every story of 4 events, in 2 paces, with and without a covered log | `PromisesAreFair`, `PageAgrees`, `PastStays` |

Several properties are conjunctions of named parts, each with a comment of its
own where it is defined: `DialogIsFaithful` is `SpeechKept`, `NoWordLost` and
`ExchangeKept`; `RolesAreStable` is `NamesAreArbitrary` and `RolesSettle`;
`EvidenceIsReal` is `EvidenceWasSaid` and `MeaningKept`; `ScoreIsSafe` is
`GateSafe`, `WordsFitTheScore` and `BetterIsNotWorse`; `CountsWhatStands` is
`OneRubric`, `HeldIsNotCounted` and `CalibrationNeedsSpread`;
`DegradesAsPromised` is `PromptFits` (a shortened transcript is within the
budget), `EndsSurvive` (a line is missing only if the lines from there to either
end are too long for that end's share, and the gap is marked exactly if the last
line is there) and `ServerDegrades` (which servers get an answer out of the
fallbacks, and which do not); `ReportAddsUp` is
`IndexAddsUp` and `EachCallOnce`; `OpinionIsFair` is `FlagsFit` and
`RedIsNotHidden`; `PromisesAreFair` is `KeptFirst`, `DueOnAWorkingDay` and
`NoDataIsNoVerdict`; `PageAgrees` is `SessionsAreSound`, `FiguresAgree` and
`FactBeatsModel`; `ReadingIsWhole` is `Consistent` and `Counted`.

### Bounds, and why they are enough

* *Processes.*  A theft that goes wrong needs a dead owner and two thieves, hence
  three slots; two of them on one machine and one on another give both ways of
  finding an owner stale.  With `MaxBusy > TTL` two slots already rob each other.
* *Ages.*  `TTL = 2` leaves room for "just taken", "taken a while ago", "at the
  limit" and "past it".
* *Runs of the pipeline.*  Their number is not bounded: states repeat.  Two faults
  allow a fault in a run that recovers from a fault; one loss suffices for every
  property here, since a second artifact is made stale by recomputing the first.
  `stop_after` takes the one value the program itself passes (`redaction`, from
  `journey process`) and none; `Doubtful` is the stage whose reason is found
  after the stop check.
* *Masks.*  A request can meet two rewrites of the transcript; three masks let
  the third differ from both.
* *Pids.*  Two commands and one pid more: the pid of a dead one can be given to
  the other, to an unrelated program, or to nobody, while a living program holds
  the third.  `OtherStarts` leaves one pid free, since a machine does not run out
  of them.  Two crashes let a command die that was removing what a dead one left.
* *Watch.*  A tick stands for `stable_seconds` *and* for `poll_seconds`; the
  model's `Poll >= Stable` is the shipped configuration's (30 and 10).  One extra
  tick of a pass (`MaxCycle`) is enough for `now` to be old.
* *Recordings and texts* (`MCCallAnalysis`).  Every family is the set of all
  small values of the thing it is about: up to three regions of up to three
  labels, segments with missing times, roles with every combination of cues,
  stereo channels told apart or not.  The texts are written down one by one, each
  for one way of saying an identifier and its near misses; between them they use
  every detector.  The worker's faults are followed in one recording, since no
  fault depends on what it hears.
* *Calls and batches* (`MCJudge`).  Four dimensions, two of them gates, are
  enough for a cap to hurt and for a dimension to be blamed in part.  Turns that
  meet, quotes that span them, quotes one word off and scores that disagree in
  samples of one to four.  Of the numbers spoken, one ends in another and one
  becomes another when its point is dropped; each comes to its digits.  Transcripts
  longer than the budget include some whose first line, or whose last, alone is
  too long for its share.  Then eight to twenty calls of a batch, so that bankers,
  segments and quarters lie on both sides of the least sizes, which are scaled
  down with them.
* *Stories* (`MCTimeline`).  Four events: a promise, what keeps or breaks it, and
  one more of each for what a later run makes of it.  The working week is real
  (the instance begins on a Thursday), a day has two ticks.
* *Nights* (`MCJourney`).  Two stories let one be reached and the other not; one
  bad answer, one fault and one mishap may fall together.

### Fairness

* `CallLock`: an attempt that began goes on (no statement waits), a processing
  ends, time passes, and one process, the watch loop, keeps coming back
  (`Watcher`) and is started again if it dies.
* `Pipeline`: a run goes on and releases; a dead owner's lock can be taken over
  in the end (that is `Unblocked`); and the call is run again, in the end,
  without `--force` and without `stop_after`.  The last needs strong fairness,
  because other runs hold the lock again and again.
* `Watch`: the loop and time go on, and other processes finish their calls.  That
  the recorder ever finishes a file is *not* assumed; the property begins when it
  has.
* `DatasetLock`: commands go on, time passes, the operator tries again.  Nothing
  is assumed of the other programs: they may keep a pid for ever, and the property
  says what follows then.
* `CallAnalysis`: the run goes on, its waiting ends by its own deadline, and an
  orphan notices that its parent is gone.  Nothing is assumed of the worker: it
  may hang for ever.
* `Journey`: calls, stories and the report go on, and the nightly command is
  started again and again whatever else takes the data set in between.
* `Judge` and `Timeline` state none.  `JudgingEnds` is a measure that every step
  lowers, which with the absence of deadlock says the same.

### What the counterexamples show

These are places where the program does something other than a comment, a
docstring or a page of documentation says.  The quotations are in `PROJECT.json`.

1. **A fresh lock stolen** (`call_lock_theft`, `state.py:225`).  A process finds
   a row past the age limit.  Before its UPDATE, the owner finishes, releases and
   takes the call again.  The UPDATE names pid and hostname but not
   `acquired_at`, so it takes the new row: both processes work on the call.
2. **Later stages served from old data** (`pipeline_stale`, `pipeline.py:95`).
   A transcript is lost; `journey process` recomputes it and stops after
   redaction.  `_recompute_from` dies with that run, and the rows of features,
   judge and report still say done: the next run publishes them.

### Known limits

What follows was met while modelling; a property says what holds beside it, and
the condition it needs is written into the property or into the instance.

* *Pipeline.*  A partial run that fails writes its envelope to `results/`
  (`pipeline.py:581`, against `:285-288`).  An exception that leaves
  `process_call` (a `finally` that raises before the release) is a failed release
  here; what the drivers do with it is not modelled.  A worker file that cannot be
  unlinked fails the call (`:182`), although the docstring promises a fallback.
* *Redacted audio.*  A run that ends behind the transcript it has rewritten, by a
  crash before the sidecar or because it was told to stop with the redaction
  (`pipeline.py:458-459`; every `journey process`), leaves the pair of the old
  mask.  The next run finds the transcript recorded and both files there, and does
  not make them again (`:475`), although the comment before it (`:471-474`)
  promises that a rewritten transcript never leaves stale audio: the call has no
  playable audio until its transcript is made again.  `AudioIsRemade` says so
  (`~cut`), and the fingerprint keeps the old pair from being played, which
  `ServedWasCurrent` checks without any such condition.  With rules that return to
  an earlier mask, `ServedWasCurrent` fails: a WAV whose sidecar was never written
  carries the earlier mask's name.
* *Watch.*  A second recording under a name already processed is answered from the
  first one's stages (`cli.py:462`).  With `Poll < Stable`, `StableFirst` fails,
  because a file's age is counted from a `now` read before the last write.
* *Dataset lock.*  A pid that has come back, as an unrelated program's or as the
  starter's own, is respected like a living command (`engine.py:139`): the data
  set stays closed for as long as that process runs.  The call lock guards against
  this with `started_after` (`state.py:213-216`), the data set's does not.
  `BlockedByALivePidOnly` promises no more than that a file whose pid nobody has
  is removed.  Exclusion is promised, and checked, only until a command dies: two
  commands that find a dead owner's file can both get in, because the slower one's
  unlink removes the file of the faster (`engine.py:144`).
* *Journey.*  An answer is cached before it is parsed (`content.py:148`): one that
  never parses is found again by every run, so `ReportedInTheEnd` needs as many
  retries as bad answers.  A trial of another model whose engine fails replaces a
  complete reading (`content.py:434`, against `:355-358`).  TLC reads the stories
  with one thread; that threads do not spoil each other's readings is proved
  (`ReadingStaysWhole`), not run.
* *Redaction.*  An identifier followed, with nothing but spaces and punctuation
  between, by another number merges with it into one run and may be missed.  The
  mother's-name rule masks one word, and the answer rule's longer find, which
  overlaps it, is dropped whole.  A birth date is not looked for after a refusal.
  `AudioCoversText` holds for persons found by the NER model only where the finds
  of the turn are apart (`audio_redaction.py:184-194`), and for searched text only
  in turns whose words have times all or none.
* *Diarization.*  `_merge_adjacent` joins consecutive regions only
  (`diarization.py:146-151`), so regions of one speaker may still overlap.
* *Judge.*  A quote is contained by letters and digits, not by words: a quote that
  begins with "90" passes inside "190" (`validation.py:163,184`), normalisation
  drops full stops, so "35" passes for a spoken "3.5", and brackets, so "id"
  passes for the mask of an identifier.  `EvidenceWasSaid` promises containment in
  that sense, and `MeaningKept` that a quote which was *snapped* keeps the numbers
  and negations it was given.  Masks in a quote are taken out after verification.  A server that
  lacks both the JSON schema and the system role and complains of the roles first
  is never answered (`vllm_judge.py:207-253`); `ServerDegrades` names it.  A last
  line longer than the tail's share drops the closing and the marker, a first line
  longer than the head's the opening (`prompts.py:84-102`), although the docstring
  has both survive and the middle marked (`:72-80`); `EndsSurvive` says exactly
  when.  Below `MIN_CALLS_FOR_PASS` an undefined kappa is not flagged.  A card
  without a readable envelope counts as a success (`aggregation.py:43`).
* *Management report.*  Flags compare a banker with the median of the *others*
  (`analysis.py:529-538`), the text with the median of all
  (`findings.py:454-466`): the median banker can be flagged, and is then promised
  a gain of nothing.  In large batches gate actions may rank below larger gains.
  A proposal may name bankers with fewer than `MIN_GROUP_N` calls.  A results file
  copied under another name is read by its stem in one place and by the id inside
  in the other.
* *Timeline.*  An act of the bank before the log begins is not in the model, so a
  promise called broken although it was kept there is not met.  Of `analysis.py`,
  the status overruled by a recorded fact is modelled (`ShownStatus`), the
  inferred ones are not (`:176`).  A customer's message inside a thread is not
  "coming back" (`rules.py:19-22`).  `data_end` takes the exports of the log and
  of the contacts to end together.  A session begun before an abandoned call is no
  move after it.

## 4. What is proved

Each `*Proofs` module EXTENDS the module it is about; `DatasetProofs` is about
`DatasetLock` and `Timeline`, which share no state.

| theorem | statement | rests on |
|---|---|---|
| `CallLockProofs!Typing` | `TypeOK` | `LockAssumption` |
| `CallLockProofs!NoDoubleProcessing` | `MutualExclusion`, if `~Recycle` and `MaxBusy` is at most the limit | `LInv` |
| `CallLockProofs!LockImplementsMutex` | `Spec` implements `Mutex`, same conditions | `LInv` |
| `CallLockProofs!RemovalIsByTheWriter` | `RemovedByItsWriter`, no condition | `Typing` |
| `PipelineProofs!Typing` | `TypeOK` | `PipelineAssumption` |
| `PipelineProofs!RowsStayResumable` | `ResumableUnlessLost` | `IInv` |
| `PipelineProofs!FreshPublication` | `FreshUnlessCut` | `ResumableUnlessLost`, `Course`, `Cascade` |
| `PipelineProofs!ReviewsReachTheEnvelope` | `ReviewSurvivesResume` | `Seen`: the reasons gathered so far are those of the artifacts passed |
| `PipelineProofs!EarlyStopsPublishNothing` | `PartialIsNotDone` | `NotBeyondStop` |
| `RedactedAudioProofs!Typing` | `TypeOK` | `Writing` |
| `RedactedAudioProofs!ServingIsFresh` | `ServedWasCurrent`, if `~Revert` | `Paired`, `Asked` |
| `RedactedAudioProofs!AudioFollowsTranscript` | `AudioIsRemade` | `Course`, `Remade` |
| `DatasetProofs!Typing` | `TypeOK` of `DatasetLock` | the round counter |
| `DatasetProofs!Exclusive` | `OneWriterWhileAlive` | `OwnPid`: living commands have different pids |
| `DatasetProofs!FairPromises` | `PromisesAreFair` of `Timeline` | `StoryOK`, `DueIs`, `ReportOK` |
| `DatasetProofs!PageIsTrue` | `PageAgrees` of `Timeline` | `StoryOK`, `Sound`, `TotalSplit` |
| `WatchProofs!Typing` | `TypeOK` | `Shape`: with the time a pass has left |
| `WatchProofs!NoRecordingIsLost` | `NoneOverwritten` | `Clear`: no move is aimed at a name that is taken |
| `WatchProofs!OnlyHandledLeave` | `Handled` | `Settings`, `Handling` |
| `WatchProofs!ProcessedMeansMade` | `ProcessedWasMade` | `Settings`, `Making` |
| `WatchProofs!StableBeforeProcessing` | `StableFirst`, if `Poll >= Stable` | `Handling`, `Quieter` |
| `JourneyProofs!Typing` | `TypeOK` of `Content` | `Typed`: with where each thread is |
| `JourneyProofs!ReadingStaysWhole` | `ReadingIsWhole` | `Gathered`: what a thread has so far is whole |
| `JourneyProofs!UnreadStoriesAreKept` | `UnreadKept` | `Kept` |
| `JourneyProofs!RereadingIsFree` | `FreeRerun` | `Trails`: what a story's cards and retries leave in the cache |
| `JourneyProofs!JourneyRunsContent` | `JSpec => Spec`: the commands use the stage as it is specified | `JTyped` |
| `JourneyProofs!NightAfterNight` | all of that for the commands | the two lines above |
| `CallAnalysisProofs!Typing` | `TypeOK` | `CallAnalysisAssumption` |
| `CallAnalysisProofs!SegmentsAreOfThisRecording` | `AnswerIsOfThisRecording` | `WorkerIsMine`, `NoneBefore` |
| `JudgeProofs!Typing` | `TypeOK` | `JInv` |
| `JudgeProofs!LongCallsAndOldServers` | `DegradesAsPromised` | `CallIs`, `ElideFits`, `TooLong`, `Fits`, `Survives`, `Degrades` |
| `JudgeProofs!TheSafeScore` | `ScoreIsSafe` | `JInv`, `MergedIs`, `Capped`, `NeverWorse` |
| `JudgeProofs!JudgingComesToAnEnd` | `JudgingEnds`, if `NoValue` is no record | `JInv` |
| `JudgeProofs!ReportsCountWhatStands` | `CountsWhatStands` | `JInv`, `ReportIs`, `CohortIs`, `LoadedIs`, `NoSpread` |
| `JudgeProofs!NothingUnprovenIsShown` | `NothingUnproven` | `JInv`, `ReportIs`, `ScoredIs`, `RankExists`, `FindingsNames`, `CandidatesNames` |
| `JudgeProofs!TheReportAddsUp` | `ReportAddsUp` | `JInv`, `ReportIs`, `SumSwap`, `ChargedInFull`, `QuartersApart`, `AllLoaded`; `RubricAssumption` |
| `JudgeProofs!TheFlagsFit` | `FlagsFit`, of `OpinionIsFair` | `JInv`, `ReportIs`, `MediansMeet`, `FlagsAreFair`, `NamesAreFlags` |

The assumptions on constants are the named ASSUMEs of the modules, no stronger
than "these are numbers" and "this value is not one of those", and TLC evaluates
them on every run.

**Mutual exclusion** is not inductive: a process about to `Steal` must know that
the owner it has read is really gone.  `LInv` says what each process still knows
at each statement: someone who has read an owner and found it dead is right for
ever if pids are not reused; someone who judged by age has seen a row as old as
the limit, and a row that old cannot belong to a process that is still working
because `busy` of its owner grows with the row's age.  The refinement adds only
that the thief's victim is outside `Up`.

**Freshness of publication.**  The rows being a prefix of the stages (`Resumable`)
is not enough: in the middle of a run, artifacts after the current one may be
stale.  `Position` ties `at`, `step` and `rows` together, so that a stage being
recomputed has no row after it.  When artifacts *can* be lost this fails (the
rows beyond the lost one remain), and the argument is another: `Cascade` says
that an artifact both recorded and stale lies at or after the current stage and
that `_recompute_from` will make the run replace it; between runs there is none.
`Course`, which holds always, ties the two to the stages a run has passed.
`Cascade` is exactly what is lost when a run that has begun to recompute after a
loss ends before its last stage.  `cut` remembers such a run and nothing else:
`FreshUnlessCut` covers every history of losses, crashes, early stops and forced
runs without one, and counterexample 2 is a history with one.  A run with `force`
begins with no rows and restores `Cascade`, so it clears `cut`.

**Audio.**  `AudioIsRemade` has the same shape.  `Course` says what a run in progress
has done, and `Remade`, which holds unless `cut`, that the pair on disk is that of
the transcript on disk, or is incomplete so that the next look at it finds it
missing, or is the business of the run in progress.  Only a run that ends between its
transcript and its sidecar breaks it: the `LookAtAudio` of a later run sees two
files and no reason to make them.

**Serving.**  `Paired`: a sidecar naming the newest mask is never beside a WAV of
an older one, because the WAV is renamed first and deleted first.  `Asked` carries
that through the request: what a request has already compared stays a transcript
of `during`.

**Reviews and early stops.**  `ReviewSurvivesResume` speaks of the end of a run
only.  At stage `at` the invariant says that `reasons` holds exactly if an
artifact *before* it is flagged; a loaded artifact adds its reason as much as a
made one, and a stage that is made again is one the run has yet to pass.

**Watch.**  The loop decides on a name long before it moves.  `Clear` says that
the plain target it picked is still free (only this loop moves files, which is
the property's `~meddled`) and that a name with the second in it is free because
no two files of one name are moved in one second.  `Handling` follows a file from
the look at it to the move: it stays where it is, so what is moved is what
`process_call` was run on.  `Making` holds with any number of other processes: a
call is made from a file of its name and never again from another.  `StableFirst`
needs an assumption that the configuration makes true and the code does not
check: `Poll >= Stable` (config.yaml: 30 and 10).  `Quieter` says that a file with
as many pieces left as when it was last looked at has rested since, for as long as
the loop slept, so for `stable_seconds` when the next pass begins; without the
assumption TLC finds the recording that was written in between.

**Journey content.**  `FreeRerun` says that a story read once costs nothing
again: every question on the way is in the cache.  Questions depend on what was
told before, retries on the answers refused, and neither is kept.  The invariant
follows the *trail* a story leaves, question by question; the cache only grows, a
thread's next question is the next one on the trail, and a reader that went
through without a failure of the engine has the trail to its end.  `JSpec => Spec`
maps each of the commands' steps to a step of `Content` or to none, so these
theorems hold night after night, with deaths and deadlines.

**The worker.**  The file a run trusts carries no name of what it is about.  A
worker of this run reads this run's recording, and a worker of an earlier run
either was alive when this one began (the exception in the property) or is gone;
the old file is removed before the new worker starts.  That a run ending in
between, because it could not remove the file, is harmless was found by the
failed proof of `NoneBefore`, which first left it out.

**Sums.**  What the judge computes are folds, which unfold to a recursive
function that TLA+ chooses.  `IterExists` proves, by a smallest counterexample
among the subsets of a finite set (`MinimalSet`), that it exists; `SumStep`,
`SumWithout`, `SumSplit` and `SumGrows` are the laws of sums that follow.  They
give, for every transcript and every budget, that what is kept of the opening and
the closing fits with the marker and that neither could be one line longer
(`ElideFits`), that a transcript over its budget is too long for the two shares
together (`TooLong`), so that lines go only from the middle, unless one line is
too long for its share (`Survives`), and, for every rubric, that a better score
never lowers a total (`NeverWorse`: the sum grows, and a cap can only be lifted).
`MedianIs` says of the low median what a gate needs: it is one of the numbers and
not larger than a number that half of them do not exceed; `MergedIs` adds that
the words beside it were given with it.  `JInv` carries this through the samples,
the parts of a long call and the retries, and its bound on the retries gives that
`StepsLeft` falls.

**What the reports count and show.**  `ReportIs` says that a report is what the
operators of `Scores`, `Batch` and `Opinion` make of the cards and envelopes that
are on disk once the call is judged, and that the call's own card is a card like
the others.  The rest is about these operators.  A newest card exists because cards
are finite in number and their times, with the order of the files, are a total
order (`NewerOrders`, `FirstIn`); choosing the cohort of a cohort changes nothing
(`CohortAgain`), which `AggregateBankers` relies on.  Sorting by rank returns
elements of what is sorted (`RankExists`, by a smallest counterexample), so each
quoted example is from the pool of calls whose text may be told.  Names go the
other way round: every rule of the opinion names bankers of the analysis only
(`FindingsNames`, `CandidatesNames`), and those are shown ids (`NobodyShown`).
`RecordsAssumption` says what kind of files there are, and nothing of their
contents: any cards, of any rubrics and times, any envelopes and any folder.

**The figures add up.**  For one card `PointsGone` splits what is missing from the
maximum into the points lost on each dimension and the penalty, by `SumAdd` and
`SumTimes`, and `ChargedInFull` splits the penalty among the gates that failed:
`Shares` parts make up a penalty, and every number of gates divides them
(`BatchAssumption`, `SharedOut`), as the program's division by that number does but
without its rounding.  The report sums over the calls for each dimension, and the
index over the dimensions for each call: `SumSwap` says that a table of finitely
many rows and columns has the same sum either way (smallest counterexample in the
rows).  That lifting a low score never costs points is `NoLower`, which also gives
`NeverWorse`.  The quarters of a driver are found by rank: `NthGrows` says that a
higher rank has no smaller value, so the first quarter's bound is not above the
third's, `QuartersGrow`, also where it lies between two values, and calls at or below
the one are not at or above the other.  `AllLoaded` says that a batch without a
filter has the cards that the bankers' reports count.  Cards that were written with
other weights would not add up to an index computed with those of now: the
analysis takes the rubric that is loaded (`analysis.py:276-291`), the card the total
it was given.  `RubricAssumption` leaves them out, and only this theorem uses it.

**The named are on the right side.**  A banker is flagged against the median of
the others, and the finding quotes the median of all.  `MediansMeet` says that who
is not below the one is not below the other, and the same for "not above".  It
counts: `MedianBetween` finds two values in the middle with the median between
them, half of the others lie on either side of each, and one more banker moves the
middle by half a place at most (`OneMore`, `TwoMore`).  `FlagsAreFair` carries this
to the flags, for means rounded down and whatever the interval says: which flag it
is depends on the sign of the mean's distance from the median of the others.
`NamesAreFlags` says that no other rule of the opinion names anybody.

**Promises.**  `StoryOK` orders the story: nothing is later than `now`, a promise
stands in a line that exists, and messages follow their thread's beginning, so a
promise was made at a moment that `BankActed` can look beyond.  `ReportOK` says
that a fresh report is what `CheckPromise` and `ObjectiveClass` give for the
contacts and rows of now, and `KeptIsFirst` that the first action of the bank
before the customer's next contact is one that exists.  The deadline is a loop
over days: `LoopExists` shows that such a loop has a value in every round, by a
smallest counterexample; of any three days in a row one is a working day
(`OneOfThree`), so `3 * BusinessDays` rounds suffice (`ThirdDayCounts`); and
`DueByRounds` counts, round by round, the working days that are still left.

**The page.**  `RecursionExists` gives every recursion over the rows or numbers
of a sequence its values, from `LoopExists`.  The time order is a permutation
because ranks are different numbers below the number of rows (`OrderIs`), so no
row is lost or taken twice when several fall in one tick.  `Sound` is what holds
of the sessions of the first `k` rows, in `k`: each is one banker's and goes
forward, the next begins where the last has ended, and their lengths add up to
`k`; a row either opens a session (`OpenedIsSound`) or lengthens the last
(`LengthenedIsSound`).  The minutes are split place by place (`TotalSplit`), and a
list of classes without a change holds one class (`AllAlike`), so a story that
crossed was handed over.

The SMT translation of this version takes two CASE expressions for equal when
their first arm and their OTHER agree.  No leaf of these proofs compares CASE
expressions with more than one guarded arm: the arms are gone through one by one
(`SameClass`), or the expression is first shown equal to nested IFs
(`SamePromise`).

## 5. Only model-checked

* Liveness (`Unblocked`, `Recovers`, `EveryFileLeaves`, `BlockedByALivePidOnly`,
  `WorkerNeverHoldsUp`, `ReportedInTheEnd`): the proof system does not reason
  about fairness and ENABLED here.
* What is computed by folds and selections over *sequences*: how words are
  attributed, roles inferred, identifiers found and masked, features measured
  (`DialogIsFaithful`, `RolesAreStable`, `AudioCoversText`, `TextIsMasked`,
  `FeaturesAsDefined`), how a quote is found in the blocks of a speaker
  (`EvidenceIsReal`).  The library's
  induction takes an operator as its parameter, which the installed provers
  cannot instantiate; sums over sets were brought within reach by hand, each fold
  over a sequence would need the same again, and the provers have no rule at all
  for `SelectSeq`.  TLC compares these with definitions
  of their own, or with what they must agree with, over all small inputs.
* The management report and the story.  Of `OpinionIsFair` only `FlagsFit` is
  proved; `RedIsNotHidden` is about a selection by `SelectSeq`.  `PastStays`
  compares what two logs, one longer than the other, are cut into.

## 6. Not modelled, and why

* What neural models, signal processing and templates compute: their results are
  inputs here.  Vocabularies and regular expressions over characters: a token says
  which vocabularies it is in.
* `watch_loop` without `move_processed`, its Windows-only probe for files held
  open and the 1980 date of robocopy: they only delay a file further.
* Two watch loops moving the same file, and a data set shared by machines: the
  program has no protection there and promises none.  Other hazards without a
  property are single statements of single commands: two first starts racing for
  the key file (`ingestion.py:84`), a rating or a manifest written by two sessions
  at once (`ops/review.py:74`, `ops/runrecord.py:32`), a destruction that is
  logged after it was done (`ops/retention.py:112`), the fixed temporary name of
  an assembled recording (`journey/assemble.py:119`).
* Of redaction: `part_role_conflicts` and the joining of word texts.
* Of the judge: the wording of prompts; `difflib`'s ratio is a longest common
  subsequence of pieces weighted by their length.
* Of the management report: wording and layout, the concentration of failed
  gates, the coefficient of a rank correlation (only what it is computed over),
  intervals themselves, counts of left-out calls.
* Of the journey: exports cut inside one second, contacts of unknown direction,
  the `back` class, exported session tables, survival curves, bootstrap,
  `transcript_view`.
* The pool of `run`, argument parsing, configuration, installation scripts.

## 7. Plan

1. `Timeline` over a batch of stories: the journey report's tables and findings.
2. Import (`journey/importers/`): identities, duplicates and attachment.
3. Audio preparation and ingestion as inputs made explicit.
4. Proofs: `RedIsNotHidden`, then `PastStays`.

# TLA+ models of 6529seize-backend

This directory holds a TLA+ model of the parts of the 6529 backend whose
correctness depends on the order in which concurrent transactions, Lambdas and
queue messages happen to run: what TLC checks on small instances and what
TLAPS proves for every instance. Definitions carry the names of the code they
model; `PROJECT.json` maps each one to its lines.

| Module | What it is |
| --- | --- |
| `DropVoting` | votes on the drops of a RANK wave, revocation of over-votes, decisions |
| `WaveDropMetrics` | repair of drop counters through a table of dirty waves |
| `DurableRepair` | abstract specification of that repair |
| `Attachments` | upload, scan, processing and publication of one drop attachment |
| `ApproveLeaderboard` | weighted votes of an APPROVE wave, its leaderboard entries and its winners |
| `CollectionIndexing` | snapshot and live tail of one external collection over a chain that reorganizes |
| `CollectionLifecycle` | abstract specification of what the indexer promises for a collection |
| `RatingsLedger` | ratings, the sums, events, aggregations and proxy balances derived from them, over-rates revocation |
| `XtdhGrants` | grants of xTDH: creation, changes, review and re-review, on top of `CollectionLifecycle` |
| `NftLinks` | a link to an NFT: locking, resolving, and the preview of its media |
| `Sums`, `SumTheorems` | sums over finite sets, for columns that MySQL adds up, and their theorems |
| `MC*` | instances for TLC; the `.cfg` files beside them are the runs |
| `*Proofs` | theorems about the module named, checked by `tlapm`; `MediaProofs` is about `Attachments` and `NftLinks` |

    tlc -config VotingDecisions.cfg MCDropVoting   one run
    tlapm DropVotingProofs.tla                     one proof module

Comments that begin with "Mutant" or "Faulty variant" mark deliberately wrong
versions of the definition that follows. No specification uses them: they are
put in place of it to see that a property notices.

## The system

The backend is one TypeScript repository: an API Lambda (REST and WebSocket), about
sixty background Lambdas and a MySQL database with a write pool and a read
replica pool, plus Redis, S3, SQS, SNS and Ethereum RPC. Processes share state
only through the database and talk through queues. Three patterns carry nearly
all of the concurrency: (a) transactions of API requests against each other and
against a batch job, (b) a row that marks work to be done, drained by a Lambda
that a queue message or a schedule wakes up, and (c) a chain of SQS messages
that are delivered at least once.

Inventory, with the state each part keeps, its operations and partners, what is
hard about it and what makes it correct:

| Component | State and operations | Interacts with | What is hard; what must hold |
| --- | --- | --- | --- |
| **Drop voting and decisions** (`drops/vote-for-drop.use-case`, `waves/wave-decisions.service`) | `drop_voter_states`, `drop_ranks`, `drop_real_vote_in_time`, `winner_drop_voter_votes`, `wave_decisions`; vote, revoke over-votes, decide | API, TDH and over-rates Lambdas, decision Lambda | REPEATABLE READ snapshots, partial locking, Lambda death; ranks are the tally of votes, credit is not overspent, no decision lost, winners final. *Partly modelled.* |
| **Wave drop metrics repair** | `wave_drop_metrics_refresh_requests`, counters; mark, drain, park | API deletes, SQS, schedule | mark during recount, swallowed failures, continuation; no repair lost. *Modelled.* |
| **Attachments** | `attachments` row, S3 objects, two queues; complete, poll, scan, claim, publish | client, GuardDuty, IPFS | duplicate and lost deliveries, late scan, claims; nothing unclean published, everything settles. *Partly modelled.* |
| **Leaderboards** (`wave-leaderboard-calculation.service`, snapshotter) | weighted vote over a time lock, leaderboard rows, APPROVE decisions; recompute, top N | voting, decisions, two Lambdas that refresh the same rows | time integral over history rows, late votes, an older refresh that writes later, dips between refreshes; entries and winners follow the votes. *Partly modelled: APPROVE waves.* |
| **Wave Score refresh** | `wave_score_refresh_requests`; same pattern as metrics repair | TDH done (SNS), API | as metrics repair. *Not modelled.* |
| **Ratings** (`rates/`: CIC, REP), over-rates revocation | `ratings`, `events`; rate, bulk rate, revoke over TDH, reset lost profiles | TDH, events | credit against shrinking TDH, lock by upsert, proxy allowances, swallowed errors; sums are the sums, spending comes back within the credit. *Partly modelled.* |
| **Events outbox** (`events/`) | `events`, `listener_processed_events`; schedule in the producer's transaction, lock with `skip locked`, dispatch, mark | ratings, identities, notifications | one failing listener rolls the batch back, locks outlive a killed Lambda; every event counted once. *Modelled, with ratings.* |
| **NFT links** | `nft_links` with lock timestamps (two minutes); lock, resolve, update, preview | API, two queues, external sites | an expired lock while its holder still works, stale preview jobs, lost workers; one holder at a time, what is shown is what the site shows. *Partly modelled.* |
| **External collection indexing** | contract state, heads, owner epochs, transfers; snapshot, live tail | Ethereum RPC | lock takeover, interrupted snapshots, ranges written in four statements, reorganizations; owners are those of the chain up to the head. *Partly modelled.* |
| **Auth sessions v2, connection shares** | sessions with secret hashes, one-time shares; create, rotate, log out, redeem | API, browsers | two refreshes of one cookie, log-out during a rotation; single use. *Not modelled.* |
| **xTDH** (`xTdhLoop`, grants reviewer) | universe tables, two statistics slots, grants | TDH done, own queue, external indexing, API | a re-review of grants read minutes before, review against a capacity that falls; promises within the capacity. *Partly modelled: grants.* |
| **Subscriptions** (daily, top-up, redemption, coverage) | balances, subscriptions, final selections, alert states | transactions, owners' balances | selection against balance, alert transitions. *Not modelled.* |
| **Release bus v1/v2** | trains, leases, deployments | GitHub | leases and restarts of a 7000-line reconciler. *Not modelled.* |
| **Claims** (`claimsBuilder`, `claimsMediaArweaveUploader`, minting claims) | claim rows and media locations | decisions, Arweave | redelivered uploads. *Not modelled.* |
| **Identities and profiles** (consolidation, merging, handles, proxies, groups) | `identities`, `profiles`, `address_consolidation_keys`, groups | TDH, delegations, ENS | merging two profiles moves every table that names one. *Not modelled.* |
| **TDH and ownership** (transactions, NFTs, owners, TDH, history, balances, aggregated activity, market stats, rememes, royalties) | snapshots of chain state and sums over it | RPC, Arweave | batch computations by one writer each. *Not modelled.* |
| **NextGen** | contract events, metadata, media | RPC, S3 | batch. *Not modelled.* |
| **Notifications and WebSocket** | notification rows, connections, settings | all writers | broadcasts after commit, from replica reads. *Not modelled.* |
| **Help bot, release notes, mint announcements** | interaction rows, Redis locks | queues, LLMs | redelivery against Redis dedupe. *Not modelled.* |
| **Native competitions** (`competitions/`) | competition records; a router hands a wave to the legacy or the native engine | waves, decisions | a hand-over while a decision runs. The native engine executes nothing yet. *Not modelled.* |
| **Media** (resizer, sanitizer, video conversion, S3 uploader) | objects in S3 | S3, MediaConvert | stateless workers. *Not modelled.* |
| **CMS, curation, metrics, feeds, rate limiting, other API routes** | CRUD tables, Redis counters | API | mostly single statements. *Not modelled.* |
| **Operations** (dumps, migrations, replay, ENS, ETH price, team, Discord alarms) | | schedules | one-shot jobs. *Not modelled.* |

How the modelled parts meet: votes, deletions, attachments and ratings touch
disjoint tables, so each is a specification of its own. `ApproveLeaderboard` and
`DropVoting` share the history of votes; they model different kinds of waves and
different writers of it. `XtdhGrants` reads the status of collections: it is
composed with `CollectionLifecycle`, whose actions are its steps of the
indexer, and `CollectionIndexing` is shown to implement that specification
(model-checked with its liveness, the safety part proved). The event Lambda is
modelled together with the ratings whose events it counts, since the property
relates the two. Where one part calls another inside one transaction (the
decision archives votes) the call is part of the action; where only best-effort
effects cross (a notification, a metrics counter) they are left out and listed.

## Plan

Modules are written in the order of what several writers can do to shared rows
without a unit test noticing: metrics repair, attachments and voting came first,
then leaderboards, indexing, ratings with the outbox, grants and links. A run takes
minutes, so the number of runs is kept at a dozen; a new one replaces two that
can share an instance.

Left to model, in this order:

1. *Wave Score refresh* as a second implementation of `DurableRepair`.
2. *Time-locked RANK waves*: top N of the weighted votes, with its ties, on the
   operators of `ApproveLeaderboard`.
3. *Profile merges* as one more writer of `RatingsLedger`.
4. *xTDH distribution*: the switch of the statistics slot.

Left to prove: every invariant and every action property of a passing run is a
theorem, and so are the two refinements' safety parts. What is left are liveness
properties, which the prover cannot treat (see *Prover and checker*).
## Wave drop metrics repair

Modules: `WaveDropMetrics` (the protocol), `DurableRepair` (what it promises),
`MCWaveDropMetrics` (instances), `WaveDropMetricsProofs` (theorems).

A drop is deleted for good inside a MySQL transaction
(`DeleteDropUseCase.execute`). The counters of its wave (`wave_metrics`,
`wave_dropper_metrics`) are not trusted afterwards: the transaction writes a
request row for the wave (`markWaveDropMetricsDirtyBestEffort`), and after the
commit the API marks the wave once more and wakes the refresher through a FIFO
queue (`requestWaveDropMetricsRefreshBestEffort`). The refresher Lambda
(`waveDropMetricsRefreshLoop`, `reservedConcurrency: 1`) is invoked by that
queue and by a schedule; it drains the table in batches.

| State in the model | In the code |
| --- | --- |
| `deletes[w]` | committed deletions of drops of wave `w` |
| `metrics[w][t]` | with how many of them counter table `t` was last recounted (`resyncDropCountsForWaves`) |
| `requested`, `dirtyAt`, `attempts` | rows of `wave_drop_metrics_refresh_requests` |
| `wake` | a message is visible in the FIFO queue (one message group: a second one adds nothing) |
| `wpc`, `wwave`, `wtodo` | where each API request is, its wave, the tables it still recounts itself |
| `rpc`, `batch`, `row`, `todo`, `failed`, `batches`, `full` | locals of `refreshDirtyWaveDropMetrics` and `processDirtyWaveDropMetricsRefreshRequest` |
| `faults` | failed calls and killed Lambdas so far (bounded by `MaxFaults`) |

Every database or SQS call is a step of its own, because another request can
run between any two of them. Every call can fail: a statement that reports an
error may have taken effect (`MarkAgainFails`, `DeleteRowFails`), and a Lambda
can die between any two steps (`WriterCrash`, `RefresherCrash`). The two
recounts of a wave are issued together with `Promise.all`; their order is open
(`ResyncRow(t)`, `DirectResync(a, t)`). The clock is any value of `Times`: it
may repeat a millisecond or go back.

What a recount reads is one assumption about MySQL: `update .. join (select ..)`
at REPEATABLE READ uses locking reads, so it counts every committed deletion.

### Runs

| Run | Question | Instance |
| --- | --- | --- |
| `metrics` | can a single failure lose a repair (`NoLostRepair`)? does the protocol implement `DurableRepair` (`KeepsPromise`)? is every deletion counted eventually with the schedule (`EventuallyRepaired`), and without it when nothing fails (`WakeupsSuffice`)? | 2 waves, 1 request at a time, 2 deletions per wave, one clock value, 1 failure, one row and one batch per invocation |

Handing over to a continuation needs two waves and invocations of one row. One
request is enough for the version race, since it deletes again while the
refresher is still at its first deletion; with a single clock value every two
marks fall in the same millisecond, the worst case for versions. Rows are parked
only after two failures, so what holds of parked rows and of repeated failures
in one invocation is proved (below) and not run.

Fairness: a request that has committed runs on unless it is killed, the queue
redelivers, and a running invocation makes progress. The schedule may invoke the
refresher at any time; that it keeps doing so is the hypothesis
`WF_vars(InvokeBySchedule)` of `EventuallyRepaired` alone. A failure is never
forced and never excluded, except by the hypothesis of `WakeupsSuffice`.

### Proofs

`WaveDropMetricsProofs` proves for all values of the constants: `TypeCorrect`,
`NoSingleFailureLosesARepair`, `FailsOncePerInvocation`, `ParkedRowsWait` and
`ImplementsDurableRepair` (under `MaxFaults <= 1`). `NoLostRepair` is not
inductive: that deleting a row is safe needs to know that a row whose version
is the captured one was not re-dirtied since its recount. `IInv` adds

* `BatchOK`: a selected row stays in the table, at the same or a later version,
* `RowOK`: so does the row being worked on, and it is not parked,
* `RecountOK`: while its version is the captured one, the tables already
  recounted are up to date.

The step that needs them all is a mark during a recount: the row is still
there, so the mark's `greatest(now, dirty_at + 1)` is above the captured
version and the captured-version delete finds nothing. This is where the single
refresher matters: with two, one could delete the row the other captured, and a
write in the same millisecond could insert it anew at the captured version.
Liveness is checked by TLC only.

## Drop attachments

Modules: `Attachments`, `MCAttachments` (instances), `MediaProofs`
(theorems, together with those of `NftLinks`).

A client uploads a PDF or CSV straight to a private S3 bucket and then asks the
API to complete the upload. The API calls S3 and marks the row VERIFYING. The
finished object sends an event to the orchestration queue. The orchestrator
polls by sending itself delayed messages: first for the row to become VERIFYING,
then for the GuardDuty tag of the object. A clean file goes to the processing
queue; the processor claims the row with a conditional update, validates,
publishes to IPFS and settles it.

| State in the model | In the code |
| --- | --- |
| `status`, `scan`, `verdict`, `linked` | columns `status`, `guardduty_status`, `verdict`, `ipfs_url` |
| `object`, `tag`, `valid`, `published` | the private object, its GuardDuty tag, whether the content passes validation, the IPFS file |
| `orch`, `work` | the two SQS queues; a message carries its poll counters and how often it was received |
| `qpc` | completion requests in the API |
| `opc`, `omsg` | executions of the orchestrator and their message |
| `ppc`, `pmsg` | executions of the processor and their message |
| `lost` | a message went to its dead-letter queue, or a claim was abandoned by a killed execution |
| `faults`, `duplicates` | bounded counts of failures and second deliveries |

Each S3, SQS and database call is a step. Any of them can fail, with or without
effect where the code cannot tell (`SettleFails`), and an execution can be
killed between two of them (`OrchestratorFails`, `ProcessorFails`), upon which
the queue delivers the message again until `MaxReceives`. Both Lambdas have
`reservedConcurrency: 2`, hence two executions of each.

Two assumptions stand outside the code:

* `RepeatsSucceed` says how S3 answers a repeated completion. The AWS
  documentation leaves room for either; the run `attachments_replay` allows the
  success, the others the refusal. With success, the unconditional update of the
  completion route can put any status back to VERIFYING, so claims and final
  states are not promised then; that nothing unscanned is published still is.
* `ReadRow`: when the last upload poll reads the row, no completion request is
  still between S3's answer and its update. The polls are spread over more than
  an hour, an API request lasts seconds at most.

### Runs

| Run | Question | Instance |
| --- | --- | --- |
| `attachments` | does one execution at a time work on a row (`SingleClaim`), are final states final (`FinalStatesStay`), is a file ever left with nobody working on it (`NothingStranded`), is an uploaded attachment settled for good (`EventuallySettled`)? | 1 orchestrator, 2 processors, 1 poll, 2 deliveries, 2 failures, 1 duplicate; GuardDuty may never answer |
| `attachments_replay` | can anything unscanned or invalid be published or shown as validated (`OnlyCleanIsPublished`)? | all scan results, 2 completions that both succeed, 2 executions of each Lambda |

One poll of each kind instead of twenty distinguishes the first from the last; two
deliveries instead of ten distinguish a redelivered from a dead-lettered
message. Two failures let the first attempt fail and the second one too, or a
claim be abandoned after a failed write.

`NothingStranded` and `EventuallySettled` except behaviours in which work was
lost: after a dead letter or a killed claim the row stays as it is, and the code
has no sweeper. (`docs/drop-attachments.md:64` says that a file whose processing
fails is exposed as bad; a file that fails processing at every delivery stays
verifying instead.) The system may stop (`Terminated` stutters when nothing is on
its way), so that a real deadlock would still be reported.

Fairness: API requests and executions that have begun go on, and queues deliver
(weak fairness per execution). Nothing is assumed of the client, of GuardDuty
and of failures.

### Proofs

`MediaProofs` proves for any number of requests, executions, polls,
deliveries and failures: `TypeCorrect`, `PublishedIsClean` (with `CleanOK`: a
message in the processing queue, and everything after it, implies a clean
recorded scan), `OneClaimAtATime` and `FinalStatesAreFinal` (with `CompletionOK`:
a completion on its way finds the row UPLOADING and is the only one, which needs
`RepeatsSucceed = FALSE`, and no orchestrator gives the upload up meanwhile).
`NobodyIsStranded` adds `WatchOK`, which says for each state of the row who looks
after it: a request or an event that has yet to run, an execution that has read the
row in that state, a message in a queue; every step hands the watch on. Under the
same assumption it proves `NothingStranded`. Liveness (`EventuallySettled`) is
checked by TLC only.

### Not modelled

WebSocket broadcasts of status changes; the poll for a missing row, since an
object exists only after its row; links from drops to attachments; what
validation looks at; metadata columns such as sizes and digests.


## Voting, revocation and decisions

Modules: `DropVoting`, `MCDropVoting` (instances), `DropVotingProofs`
(theorems), with `Sums` and `SumTheorems`.

One wave of type RANK with TDH credit and no time lock. Three kinds of
transactions write its tables.

| Transaction | Code | Actions |
| --- | --- | --- |
| vote | `DropCheeringService`, `VoteForDropUseCase` | `Begin` (first read), `Lock` (row lock of the drop, all checks), `Commit`, `Abandon` |
| revocation of over-votes | `revokeTdhBasedDropWavesOverVotes`, at the end of the TDH consolidation and of the over-rates Lambda | `RevokerBegins`, `RevokerTakesTime`, `RevokerReduces` (one per vote), `RevokerCommits`, `RevokerFails` |
| decision | `WaveDecisionsService.createDecisionsForWave` | `RunStarts`, `RunSkipsPaused`, `RunReads`, `RunDecides`, `RunFails`, `RunEnds`, `RunDies` |

| State in the model | In the code |
| --- | --- |
| `votes[v][d]` | `drop_voter_states.votes` |
| `rank[d][v]` | what `v` has added to `drop_ranks.vote` of `d`; the column is `Tally(rank[d])` |
| `history[d]` | votes of the newest rows of `drop_real_vote_in_time` for `d`, several if their timestamps are equal |
| `open` | drops of type PARTICIPATORY; the rest are WINNERs |
| `credit[v]` | `identities.tdh` |
| `next`, `due`, `decided` | `waves.next_decision_time`, the clock, `wave_decisions`; times are numbered `1 .. Decisions`, `Decisions + 1` is null |
| `final[d]`, `archive[d]` | `final_vote` of a winner, its `winner_drop_voter_votes` |
| `pc`, `drop`, `snap`, `vote` | each request's position and what its transaction sees |
| `rpc` .. `held` | locals and locks of the revocation |
| `run`, `at`, `upto`, `won`, `wvotes` | locals of the decision Lambda |

`overlapped`, `raced` and `late` are history variables: they record where a
transaction replaced something it had not seen, and no guard reads them.

### How transactions are modelled

MySQL runs at its default REPEATABLE READ. The plain reads of a transaction see
the database as of its first read (`snap`, `rsnap`, `wvotes`); locking reads and
`vote = vote + :change` see the present; nothing is aborted for what it did not
see. A transaction is therefore its first read, its waits for locks and its
commit, at which all of its writes take place at once. This loses nothing:
before the commit others cannot see the writes, and writers of the same rows
wait for the row locks that are held until then. The decision deletes the rank
rows of its winners and so waits for a vote that has already written them, but
not for one that holds the lock of its history row and has yet to write its
rank: either may commit first. A deadlock victim is a transaction that is rolled back (`Abandon`,
`RevokerFails`, `RunDies`).

One decision Lambda runs at a time (`reservedConcurrency: 1`), and one revocation:
the TDH Lambda has the same limit, and the over-rates Lambda, limited too, is
started by the message the TDH Lambda publishes when it is done.
Credit scope DROP limits each vote, scope WAVE the sum over the wave's open
drops. Reductions are exact: `IsReduced` is the floor of the rational number,
while the code multiplies doubles.

Winners are picked by the newest history row, so the order of timestamps
matters. The revocation takes `Time.currentMillis()` before it waits for the
drop's lock. `order` is its timestamp against the newest row: a vote that
commits in between makes it `older`, or `same` when both fall in one millisecond
(`SameMillisecond`). A vote that already held the lock (`ahead`) has taken its
own timestamp before. Transactions that do not overlap at a drop are assumed to
be at least a millisecond apart. Equal votes win in either order.

### Runs

| Run | Question | Instance |
| --- | --- | --- |
| `voting_decisions` | is a decision time ever passed over (`NoDecisionLost`), a winner chosen again or changed (`WinnersAreFinal`), is its final vote the sum of what was archived (`FinalVoteIsArchived`), does a reduction keep the credit (`CreditKept`), are all decisions made (`EveryDecisionIsMade`)? | scope DROP, one voter for or against one drop, credit 1 then 0, equal and late timestamps, 3 decision times, one paused, a Lambda killed once |
| `voting_revocation` | are ranks the tally of votes (`RankIsTally`), is the newest history row the rank (`HistoryIsCurrent`), is spending within the credit after it shrank (`CreditKept`)? | scope WAVE, one voter, two overlapping requests on two drops, credit 2 then 1, equal and late timestamps |
| `voting_late_vote` | "doesn't accept new votes": can the votes on a winner change? They can (violation) | 2 voters, 1 drop, 1 decision |

The properties of the passing runs say exactly where the code keeps them: a rank
drifts from the votes only for pairs in `overlapped`, the history only for drops
in `late`, spending exceeds the credit only for voters in `raced`. The violation
is what happens to a winner, against the line of the repository that promises
otherwise; `PROJECT.json` "findings" quotes it.

Two requests are the least that overlap; two drops are the least on which credit
is shared; three decision times allow one to be skipped between two that are
made; `TopN = 2` lets the one drop of `voting_decisions` win twice at once when it
has two newest history rows. Votes of several voters on one drop meet only in the
sum: that the sum is kept for any number of voters, drops, requests and decisions is
proved (below), which is why the instances of the passing runs are small.
`RankBound` bounds the drift that repeated overlaps can pile up, and `MaxFaults`
counts killed Lambdas. `CHECK_DEADLOCK FALSE` appears where `Credits = {}` and a
decision exists (`voting_late_vote`): when the only drop has won and time is over,
nothing is left to do.

With credit scope WAVE votes against a drop are left out of `CreditKept`'s run:
`Math.floor` rounds them away from zero, so two votes of -1 whose voter's credit
drops from 2 to 1 both stay at -1, and TLC finds that voter above the credit. No
text of the repository promises otherwise.

Fairness (`FairSpec`): time passes and the schedule keeps invoking the decision
Lambda, whose steps go on. Voters and revocations owe nothing.
`EveryDecisionIsMade` has one exception: when a vote and a reduction it was waiting
for carry the same timestamp, the drop has two newest history rows, is among the
winners twice if there are at least two, and the insert of the winners violates
the key of `IWaveDecision.ts:21` on every run until a vote changes the drop.

### Proofs

`DropVotingProofs` proves for any finite sets of voters and drops, any number of
requests, any votes, credits, schedules and pauses:

* `RankCorrect`: `RankIsTally`. Every writer adds to `rank[d][v]` the difference
  between the vote it writes and the vote it saw; if that is the present one,
  the equation is kept, and if not the pair joins `overlapped`.
* `HistoryCorrect`, `FinalVotesCorrect`: `HistoryIsCurrent` and
  `FinalVoteIsArchived`. The decision reads its winners and archives their votes
  at one point, at which the newest row is the rank and the rank the votes;
  `WonOK` carries this from the read to the commit, whatever commits in between.
* `DecisionsKept`: `NoDecisionLost`, from `SettledInOrder`: while an invocation
  is at time `at`, all times before it are decided or paused, also after a
  restart.
* `WinnersStay`: `WinnersAreFinal`. The drops of `won` are still open at the
  commit because only this Lambda closes drops.
* `CreditCorrect`: `CreditKept`, if credit scope is DROP or nobody votes against a
  drop. It has an inductive invariant of its own, `CreditInv`: a request that has
  its lock has checked a vote that fits in the credit it has seen (`RequestFits`,
  and drops only close after that), and what the revocation leaves of each
  voter's votes, minus those it has yet to visit, is within their shares or already
  within the credit (`ReducedOK`). `SharesFit` adds the shares up, `ReducedWithin`
  says what a revocation that has visited everything has reached.
* `StateTypeCorrect`: the type of every variable, sums included.

The inductive invariant `VotingInv` of the others conjoins the types, these
properties and `SettledInOrder` and `WonOK`. There `Tally` stays folded: what is
proved is which votes a sum is of, and two sums of the same votes are equal.

Checked by TLC only: `EveryDecisionIsMade`, which is liveness.

### Not modelled

APPROVE waves (see `ApproveLeaderboard`); the weighted votes of time-locked RANK
waves and the selection of their top N; REP credit; skips and edited pauses; notifications, metrics,
activity logs and claim builds written by the same transactions; how one failing
wave keeps the invocation from the waves after it; waves owned by the native
competition engine, which `CompetitionExecutionRouter` keeps out of the decision
Lambda.

## Leaderboard and decisions of an APPROVE wave

Modules: `ApproveLeaderboard`, `MCApproveLeaderboard` (instance),
`ApproveLeaderboardProofs` (theorems), with `Sums` and `SumTheorems`.

A drop of an APPROVE wave wins once its weighted vote, the mean of its votes over
the last `TimeLock`, has stayed at or above a threshold for `MinDuration`. The
weighted vote and the time since which it is over the threshold are cached in
`wave_leaderboard_entries`. Two Lambdas keep the cache, each on its own schedule
and neither waiting for the other: the snapshotter (every five minutes) and the
decisions loop (every minute), which then formalizes winners from it.

| State in the model | In the code |
| --- | --- |
| `history[d]` | rows of `drop_real_vote_in_time`: timestamp and sum of votes, the first one 0 at the creation |
| `voting[d]` | the row of an open vote: it has its timestamp and is not visible yet |
| `entry[d]` | `vote`, `timestamp`, `over_threshold_since_ms` of the leaderboard entry |
| `open`, `winners` | PARTICIPATORY drops; `wave_decisions` with their winners |
| `threshold`, `updates` | the wave's settings and the updates an admin has made |
| `pass[l]` | the invocation of Lambda `l`: the time, threshold and drops it noted, and where it is |

| Code | Actions |
| --- | --- |
| `VoteForDropUseCase` | `BeginVote` (lock and timestamp), `CommitVote` |
| update of the wave, which clears the entries' times | `UpdateThreshold` |
| `WaveLeaderboardCalculationService` | `StartPass` (drops in need of a refresh), `RefreshDrop`, `RefreshFails`, `FinishRefresh` |
| APPROVE part of `WaveDecisionsService` | `FindCandidates`, `CheckCandidate`, `CorrectEntry`, `Formalize`, `FinishApproval`, `Crash` |

The arithmetic is that of the code: `VoteStates` and `Window` cut the history,
`Weighted` integrates it, `OverThresholdSince` walks over the checkpoints between
the entry's time and now, `Crossing` interpolates and rounds up, and the mean is
floored. `InForce` and `TrueVote` define the same mean without windows, one time
unit after another; the properties compare the two.

`late`, `outdated` and `overtaken` are history variables, read by no guard. They
name the drops for which the code cannot be right, since it checks neither:

* `late`: a vote takes its timestamp, a refresh as of a later time reads the
  history, the vote commits. Nothing looks at that vote until another one comes.
* `outdated`: a refresh began with a threshold that an update of the wave has
  replaced since, and writes after the update has cleared the entries.
* `overtaken`: the Lambda that noted its time earlier writes later. The entry goes
  back in time; its vote is understated (with negative votes, perhaps overstated)
  until it is refreshed again, and it is left alone if its newest vote is a time
  lock older than its timestamp.

A dip of the weighted vote that lies between two checkpoints of a refresh is
seen, since the mean is linear between them. `openapi.yaml:16253` asks for a vote
that stays "continuously" over the threshold; a dip after the last refresh is
noticed only if it lasts until the decision, which recomputes the vote of the
present (`getApproveWinnerCandidates` compares the cached time with now).

### Run

| Run | Question | Instance |
| --- | --- | --- |
| `leaderboard` | is the cached time the start of the current stretch (`SinceIsExact`), are entries that no refresh looks at right (`SettledEntriesAreRight`), has a candidate been over for the duration (`CandidatesHeld`), is a winner over when it wins (`WinnersAreOver`)? | 1 drop, votes 0 and 3, `TimeLock` 2, `MinDuration` 1, thresholds 1 and 2, 1 pause, 3 votes after the creation, 5 units of time, 1 update, 1 fault |

One drop is enough for these properties, which speak of one entry each; that
several drops share the slots is what the proofs cover. Votes of 0 and 3 against
a lock of two units give means of 0, 1.5 and 3: below, between and above the two
thresholds, so that floors and crossings between whole times occur. Three votes
make a rise, a dip and a recovery. A vote is open for at most `Latency`, less than
the time lock (an API request lasts seconds, a time lock minutes). No fairness:
all properties are about safety.

### Proofs

`ApproveLeaderboardProofs` proves for any drops, votes, settings and pauses:

* `NoSecondWin`: no drop wins twice, winners are closed, and there are at most
  `max_winners`, however often the Lambda is killed between decisions.
* `TimesAreApart`: decision times strictly increase and lie in no pause.
* `WinnersDeserveIt` (`WinnersAreOver`), `SinceIsRight` (`SinceIsExact`),
  `SettledIsRight` (`SettledEntriesAreRight`) and `CandidatesAreRight`
  (`CandidatesHeld`): the four properties of the run, for any time lock, votes,
  thresholds and number of drops. So nothing of the run is only model-checked.

The first two rest on `DecisionInv`: the shape of the state, the two properties and
`LoopOK`: while the loop works, the slots it counts are those left in the table,
its next time is later than every used one and outside of a pause when it
formalizes, and its candidates are still open. `LoopOK` is what the code relies on
without checking: only this Lambda, one invocation at a time
(`reservedConcurrency: 1`), closes drops and makes decisions. TLC has checked
`DecisionInv` with two drops as well.

The other four are proved in three layers.

1. *The arithmetic.* A log is a set of rows with distinct times; `Score(R, t)` is the
   mean by its definition (`TrueVote` is that of the drop's log). `WeightedIs`: the
   code's integral over vote states and windows is that sum, as far as the states
   reach back; in particular states from one time lock before a refresh's entry on
   are enough. `ScoreLinear`, `CheckpointsAre`: between two neighbouring checkpoints
   the score is linear, hence over the limit throughout when it is at both
   (`BetweenOver`). `CrossingIs`: the interpolation, rounded up, is the first whole
   time over the limit. Together (`OverSince`) they say what `OverThresholdSince`
   returns.
2. *One entry.* `EntryOK` is what holds of an entry, with everything around it as
   parameters; one lemma for each thing that can happen to it: `EntryStays` (votes
   come in that it could not have seen, Lambdas start and end), `EntryRefreshed`,
   `EntryChecked`, `EntryCleared`. A refresh that is older than the entry is the
   hard case. It looks at a part of the votes only, hence at too small a sum
   (`PartWeighsLess`), so it can take back the time over the threshold but not
   invent one. For this the invariant says of drops that were `overtaken` that no
   refresh still to come can reach back behind their `since`, and that of two
   refreshes still to come at most one is older than the entry.
3. *The state.* `BoardInv` adds that a drop's rows are a log of the past and an open
   vote is newer (`VotesInv`), that passes have noted a past time (`PassInv`),
   that the candidate that has been looked at is chosen or left out by its vote
   (`ChosenInv`), and that the winners were over the threshold (`WinnersInv`). TLC
   has checked it on the instance of the run, and with votes of -2, 0 and 3.

Assumptions: `ConstantsAssumption`, that is positive durations and thresholds,
whole votes of any sign, 0 among them, and `Latency < TimeLock`.

A negative vote makes a difference that the attempt to prove `SinceIsExact` brought
to light: the part of the votes that an older refresh looks at may leave out
negative ones, so that its sum is too large, and its entry may show the drop over
the threshold from a time after the entry's own. The property therefore counts
`overtaken` drops as `Overrated` unless votes cannot be negative.

### Not modelled

Several APPROVE waves in one invocation; the settlement of a decision's
notifications and claims; time-locked RANK waves, whose top N
(`wave-leaderboard-calculation.service.ts:543`) ends its loop before the last
drop; pauses that are edited; the vote limits checked by a vote (`DropVoting`).

## Indexing of external collections

Modules: `CollectionIndexing`, `CollectionLifecycle` (abstract),
`MCCollectionIndexing` (instance), `CollectionIndexingProofs` (theorems).

A collection that a grant names is indexed twice over: one snapshot of all owners
at a block that is `Depth` blocks deep, then a live tail that adds the transfers
of every block that has become as deep.

| State in the model | In the code |
| --- | --- |
| `chain` | the chain, one transfer or none per block; it grows and its last `Depth` blocks can be replaced |
| `collection` | row of `external_indexed_contracts`: status, `indexed_since_block`, last indexed block, lock owner, its age, target block |
| `owners[t]` | row of `external_indexed_ownership_721` |
| `history` | rows of `external_indexed_ownership_721_history`; `index` 0 is the baseline of a snapshot |
| `transfers` | rows of `external_indexed_transfers` |
| `snapshot[i]`, `tail` | locals of the invocations of the two Lambdas |

| Code | Actions |
| --- | --- |
| creation of a grant | `Request` |
| `ExternalCollectionSnapshottingService` | `LockSnapshot`, `MarkUnindexable`, `ReadOwners`, `WriteOwners`, `WriteBaseline`, `CommitSnapshot`, `FailSnapshot` |
| `ExternalCollectionLiveTailService` | `StartRange`, `FetchLogs`, `FetchFails`, `WriteTransfers`, `WriteHistory`, `WriteTailedOwners`, `AdvanceHeads`, `FailRange` |
| Lambda | `KillSnapshot`, `FailRange`, `Tick` (time passes for a lock and for whoever runs) |
| Ethereum | `Mine`, `Reorganize` |

Every statement is a step, since the code uses no transaction here. The
snapshotting Lambda is started every minute without a limit on its concurrency
and killed after 900 s; a lock is taken over after 16 minutes, so
`Timeout < Staleness` is an assumption. The live tail runs once at a time.
A range is written with INSERT IGNORE and upserts, so a repetition changes nothing
as long as the blocks are the same: they are, because only blocks at least
`Depth` deep are read. That no reorganization goes deeper is assumed, as the code
does.

`unread` is a history variable: tokens whose owner the snapshot could not read.
`snapshotting.service.ts:863` takes a failed `ownerOf` for a token that does not
exist; nothing is promised about such a token until its first tailed transfer
(`IsKnown`).

### Run

| Run | Question | Instance |
| --- | --- | --- |
| `indexing` | are history, owners and transfers those of the chain up to the head (`HistoryIsTheChains`, `OwnersAreTheChains`, `TransfersAreTheChains`), does the head get to every safe block (`CatchesUp`), does all this implement `CollectionLifecycle` with its liveness (`KeepsPromise`)? | 1 token, 2 wallets, 2 invocations of the snapshotter, `Depth` 1, ranges of 2 blocks, 4 blocks, 1 reorganization, 2 faults |

Two faults allow a snapshot to be abandoned and the one that takes over, or a range
after it, to fail as well. Four blocks allow a snapshot at block 1, an abandoned
one before it, and a full and a partial range. One token suffices: statements
treat tokens alike and no property relates two. `CHECK_DEADLOCK FALSE`: when the
chain has reached `MaxBlock` and all of it is indexed nothing is left to do.

Fairness: `Tick`, the schedule of both Lambdas and the steps of a running
invocation, and the growth of the chain. Failures are bounded, as everywhere.

### Proofs

`CollectionIndexingProofs` proves for any tokens, wallets, invocations, depths,
ranges, timeouts and chains:

* `KeepsPromiseSafely`: every behaviour is one of `CollectionLifecycle` (its
  safety part): a decision stands and a live head never goes back.
* `SnapshotsExclude`: at most one invocation works on the snapshot.
* `TransfersCorrect`: `TransfersAreTheChains`.
* `HistoryCorrect`: `HistoryIsTheChains`, and `OwnersCorrect`: `OwnersAreTheChains`.

The inductive invariant `IndexingInv` conjoins shapes with `HoldersRun` (an
invocation that runs holds the lock, and the lock's age is its own age, hence at
most `Timeout` and below `Staleness`), `LiveOK` and `NotLiveOK` (what the row and
the tables are in each status), `RangeOK` (a range starts behind the head and
ends at a safe block, its events are the chain's) and `TransfersOK`. The lemma
`SafeBlocksStay`, that a reorganization changes no block at or below
`SafeTarget`, is what the depth is for.

The tables have an invariant of their own, `DataInv`, proved on top of
`IndexingInv`. Its point is that INSERT IGNORE keeps rows of interrupted snapshots
and of repeated ranges, so it does not say who wrote a row but that every row is
true (`RowsOK`, `OwnersOK`: the owner is the chain's at the row's block, a block at
or below `SafeTarget`, hence for good) and that enough rows are there (`SnapshotsOK`
while a snapshot is written, `ReachOK` once it is live, `WrittenOK` for the range
being processed). From both, the last row at or below a block has the owner at that
block, because no transfer of the token lies between them (`OwnerWithoutTransfer`).
The proofs use that `None` is no row of an owner, which is part of
`ConstantsAssumption`.

Only model-checked: `CatchesUp`, and the liveness half of `KeepsPromise`.

### Not modelled

Which transfers are sales, and the failure of their detection
(`live-tailing.service.ts:189`); how tokens are enumerated and turned into numbers
(`:211`); several transfers in one block; rows that an abandoned snapshot leaves of
a token that is burned before the next one (`snapshotting.service.ts:215`) beyond
what `IsKnown` says; the adapter for CryptoPunks; lag metrics.

## Ratings, their sums and the events outbox

Modules: `RatingsLedger`, `MCRatingsLedger` (instances), `RatingsLedgerProofs`
(theorems), with `Sums` and `SumTheorems`.

Profiles give each other REP, paid from the rater's credit (TDH and xTDH,
floored). Four things are derived from the ratings and kept by different writers:
the target's sum in `identities`, an event per change, the aggregations a Lambda
builds from the events, and the credit a proxy of the rater has used up.

| State in the model | In the code |
| --- | --- |
| `rating[r][t]`, `rep[t]`, `credit[r]` | `ratings.rating`, `identities.rep`, the credit of the rater's identity |
| `events` | rows of `events` with status NEW: target, old and new rating |
| `score[t]`, `raters[t]` | the aggregation tables the listener keeps |
| `spent[r]`, `outstanding[r][t]` | `credit_spent` of a proxy's action and `credit_spent_outstanding` per target |
| `pc`, `req`, `seen`, `todo`, `rated`, `owed`, `paid` | an open request and what its transaction has seen and will write |
| `due`, `jpc`, `tally`, `jcredit`, `jrater`, `jseen` | the over-rates Lambda, its message and its locals |
| `batch[c]`, `runner` | events locked by a connection of the event Lambda, the live invocation |

| Code | Actions |
| --- | --- |
| `RatingsService.updateRating` | `Edit`, `Commit` |
| `bulkRateProfiles` | `BeginBulkRate`, `RateNext` (one target), `Commit` |
| bulk REP | `BulkRep` (reads and checks), `ChargeNext` (the proxy), `Commit` |
| `reduceOverRates` after the daily calculation | `Recalculate`, `JobBegin`, `JobRead`, `JobWrite`, `JobEnd`, `JobFails` |
| `EventProcessor` | `LockNewEvents`, `ProcessBatch`, `LambdaEnds`, `LambdaFails`, `ServerRollsBack` |
| deadlock or a killed API Lambda | `RequestFails` |

Transactions are modelled as in `DropVoting`: a plain read sees the database as of
the transaction's first read, a locking read and an update see the present, and
all writes take place at the commit. `HoldsRow` is the lock of `getRating`'s
upsert, `HoldsAction` that of the proxy's action row. Left open, because the code
leaves them open: in which order the over-rates Lambda visits a rater's ratings
(`Cuts`), which events are locked first, and whose rating of a target a bulk REP
takes as the old one. That last point is the finding of `ratings_bulk_rep`: the
query of `ratings.db.ts:838` does not ask for the rater, so a target that somebody
else has rated with the wanted value is left out.

History variables, read by no guard, name what no property can be asked of:

* `unseen`, `corrupt`: targets with a rating that a bulk request or the over-rates
  Lambda has written over without having seen it. The sum and the event then start
  from a wrong old value. The sum is put right by the next calculation (`unseen`),
  the aggregations never are (`corrupt`).
* `excused`: raters that may be above their credit: it was lowered and the
  over-rates Lambda has not been there, or a commit followed from a view of the
  rater that was no longer true (`stale`, `jmoved`). Two edits of different targets
  lock different rows and can both spend the same credit.
* `swallowed`: raters whose proxy was charged for a target that a bulk rating then
  gave up: `ratings.service.ts:1213` catches every error but one kind, after the
  balance of the target has been changed in the same transaction.

### Runs

| Run | Question | Instance |
| --- | --- | --- |
| `ratings` | are sums, aggregations, spending and proxy balances right wherever nothing was overwritten unseen (`RepIsTheSum`, `AggregationsAreExact`, `CreditKept`, `ProxyBooksBalance`), and are in the end all events counted, the sums right again and the raters within their credit (`EventuallyRight`)? | 2 raters, 2 targets, 2 requests of one rater out of 5 kinds, credit 2 then 1, allowance 1, batches of 2, 2 connections, 1 fault |
| `ratings_bulk_rep` | "Targets final REP value will be the value you supply here" (`openapi.yaml:8016`): does a bulk REP leave every target with it? No (violation) | 1 request, 2 raters who have both rated |

Two requests of one rater overlap in all ways that matter: on one row, on two rows
with one credit, on one action row. The second rater sends nothing but its
ratings stand in the sums and can be mistaken for the first one's. Batches of two
with up to four events need several batches; two connections let a killed
Lambda's locks stay while the next one runs. The rows of all pairs exist from the
start. `CHECK_DEADLOCK FALSE` in `ratings_bulk_rep`'s instance and in `ratings`:
requests are finite and an invocation that finds nothing has no effect.

Fairness: an open request goes on, TDH is calculated again and again, the
over-rates Lambda runs for its message, the event Lambda every minute, and the
server ends the transactions of a client that is gone. Clients owe nothing.

### Proofs

`RatingsLedgerProofs` proves, for any finite sets of raters, targets and
connections, any number of requests, any ratings, credits, allowance and batch
size: `TypeCorrect` (`TypeOK`), `RepCorrect` (`RepIsTheSum`),
`AggregationsCorrect` (`AggregationsAreExact`), `CreditCorrect` (`CreditKept`) and
`ProxyBooksCorrect` (`ProxyBooksBalance`). All follow from one inductive
invariant, `LedgerInv` (`BooksInOrder`), because none of them is inductive:

* A commit adds `new - old` to the target's sum and to the events, where `old` is
  what the request read. `EditOK` says that for an edit this is the present rating,
  since it holds the row; for the others the target joins `unseen` and `corrupt`.
  `WriteRep` and `WriteAggregations` are the two lemmas on a write, whoever makes
  it. Events are a bag: the gain of a bag is a sum of copies times weights, and
  `GainPlus`, `GainMinus` say what adding events and counting a batch do to it.
* `Locked(e) <= Copies(e, events)`, part of `TypeOK`, is why a batch can be taken
  away from `events`: no event is in two batches, so nothing is counted twice.
* `PaidOK`, `AllowanceOK` and `ActionOK` follow the proxy's charge while it is under
  way: `paid[s]` is what is owed for the targets already charged, and of one rater
  only one request at a time has charged anything, as the action's row is locked.
  So the sum on `spent` never leaves `0 .. Allowance`, also after a rollback.
* `SeenOK` and `OutcomeOK` carry the credit check from the read to the commit: as
  long as nothing the check looked at has moved (`stale`), the rater's ratings
  after the commit are those the check summed.
* `JobOK` does so for the over-rates Lambda. `CutIsEnough` is the arithmetic of
  the cut: either the loop ends early because what it has cut suffices, or every
  rating has become its share of the credit, rounded towards zero, and then the
  sum of the shares is within the credit; in whatever order ratings are visited.

`SumTheorems` holds the facts about sums over finite sets: type, what changing,
adding or removing one term does, monotonicity, congruence, scaling, and that
a sum of zeros and ones counts. They are proved by well-founded induction over the
subsets of a finite set (`SubsetInduction`), as the library's induction theorems
cannot be instantiated.

Only model-checked: `EventuallyRight`, which is liveness.

### Not modelled

CIC, which follows the same code without bulk REP; REP spent on drops
(`revokeRepBasedDropOverVotes`); merges and transfers of ratings between profiles
(`ratings.service.ts:738-905`, pages by offset over rows it sets to zero); logs and
notifications; the lag of the read replicas; the fraction of credit, which the job
uses and the check floors; the Wave Score refresh marked by a rating of a wave.

## Grants of xTDH

Modules: `XtdhGrants`, `MCXtdhGrants` (instance), `XtdhGrantsProofs` (theorems); uses
`CollectionLifecycle`.

A grantor promises a rate of xTDH per day to the holders of an external
collection's tokens. Everything granted at a time must fit into what the grantor
produces, a capacity that each calculation of TDH changes.

| State in the model | In the code |
| --- | --- |
| `rows` | the grantor's rows of `xtdh_grants`: status, `valid_from`, `valid_to`, rate, `replaced_grant_id` |
| `queue` | the PENDING rows by `updated_at` |
| `capacity` | the grantor's rate, from the identity's TDH |
| `status`, `head` | the collection, moved by the actions of `CollectionLifecycle` |
| `reviewing`, `verdict`, `seen` | the transaction and the invocation of the reviewer |
| `due`, `phase`, `cut`, `plan` | the message and the re-review of the xTDH Lambda |

| Code | Actions |
| --- | --- |
| `CreateXTdhGrantUseCase` | `Create` |
| `XTdhGrantsFinder.updateXTdhGrant` | `Update`: disables the row, inserts a replacement unless it would be too short |
| `ReviewXTdhGrantsInQueueUseCase` | `ReviewBegin` (lock, reads), `ReviewDecide`, `ReviewFails`, `ReviewStops` |
| `ReReviewRatesInXTdhGrantsUseCase` | `ReReviewRead`, `ReReviewWrite`, `ReReviewFails` |
| TDH Lambda | `Calculate` |
| indexer | `Indexing` |

`MaxSpent` and `Overflowed` are the two SQL queries, with their edges and running
sums; `Replacements` is `buildReplacementGrants`: segments between the ends of the
overflowed grants, scaled, joined when equal and dropped when shorter than a day.
Rates are numbers rounded down; the code uses doubles. The capacity begins at any of
`Capacities`.

History variables: `excused` after a calculation lowered the capacity, a client
extended a granted grant (which the code does not check against the capacity) or
something the reviewer or the re-review had read has changed; `doubled` names the
grants of which some time was given out twice, because a client changed one while
a re-review was about to replace it, or extended one piece over the next. The next
re-review brings the sum back within the capacity in either case.

### Run

| Run | Question | Instance |
| --- | --- | --- |
| `grants` | are promises within the capacity at every time now and later (`RatesWithinCapacity`), does a grant that was cut and changed stay within what it promised (`HeirsWithinGrant`), is `buildReplacementGrants` the fair cut (`CutsAreFair`), is every grant decided and every excess removed (`GrantsSettle`)? | 3 units of time, a day of 2, rate 4, capacities 8 and 6, 2 grants, 1 update, 1 fault |

Two grants of 4 fit into 8 and not into 6, where each is cut to 3. With a day of two
units some pieces are too short and dropped. `CutsAreFair` compares the cut with a
definition moment by moment, for all sets of three grants on the three units; it
looks at no row and is evaluated where there are none.

Fairness: the reviewer is started every minute, a message is delivered until it is
dealt with, TDH is calculated daily, and the indexer keeps its promise (the
fairness of `CollectionLifecycle`, which `KeepsPromise` checks).
`WF_phase(ReReviewsMove)` asks for a change of phase and not for success: a
re-review that fails has taken its turn, and failures are bounded.

### Proofs

`XtdhGrantsProofs` assumes only `ConstantsAssumption`: any number of grants, changes
and failures, any rates, capacities, ends and length of a day.

Three theorems are about tables of rows and know no state:

* `MaxSpentBounds`: the query looks only at its span's beginning and at the edges
  inside, and yet its maximum bounds what is promised at every time of the span.
* `CutFits`: when a re-review writes what it has planned on the rows it has read,
  the promises are within the capacity. Among the overflowed grants the shares are
  in proportion and rounded down; a time at which the others promise too much makes
  them overflowed themselves.
* `CutFair`: `Replacements` is the fair cut for any number of grants, which
  `CutsAreFair` says of three. `CutsFollowTheRule` is the case of three.

The others are about every reachable state. None of the properties is inductive:
each of the two writers decides on what it read in an earlier step. `Inv` adds

* `CutSuffices`: a re-review that has read and was not overtaken will bring the
  promises within the capacity of now. Without it `ReReviewWrite` could not end
  what was excused.
* `RoomForGrant`: at all times left, what is granted and the grant that is going to be
  approved fit together, while nothing it rests on has changed (`stale`). It is
  what `MaxSpentBounds` gives when the reviewer reads, and approval needs it later.
* `Families`: at each time the granted rows that go back to one row promise no more
  than it (`HeirsFit`); each row has at most its root's rate (`HeirsSmaller`), which
  an extension of a row without siblings needs; a pending row is alone in its family
  (`PendingAlone`), which its approval needs.
* `RowsOK`, `Planned`, `QueueOK`, `ReviewOK`: replaced rows precede their
  replacements, the plan replaces rows of the cut, the queue holds each pending row
  once, the reviewer's row is one of them.

`Inv` was checked by TLC as an invariant of the instance before it was proved.
`Invariance` has one step per action; every change of rows is one operation,
`After`, which disables some and appends others, so that the lemmas about sums and
families are proved once. `TypeCorrect`, `PromisesKept`, `HeirsPromiseNoMore` and
`CutsFollowTheRule` follow from `Inv`. `GrantsSettle` is liveness and stays with TLC.

What the proofs brought to light about the code and the model:

* A grant whose end passes during its own review is stored with `valid_from` after
  `valid_to`. The sums of `getOverflowedGrantsWithGrantorRates` subtract it between
  the two, so that an excess of another grant in that stretch is not found. The
  stretch is past by then, hence `RatesWithinCapacity` speaks of now and later; with
  three grants TLC finds it violated for times past. `InOrder` is the part of `RowsOK`
  that keeps such grants behind the present.
* A re-review that writes although it was overtaken upsets a review under way
  (`stale` in `ReReviewWrite`); without that the approval was wrongly taken for one
  on reads that still hold.
* A share may round down to nothing. The guard `rate > 0` then leaves no row at all,
  also for a piece longer than a day, which `CutsAreFair` says (`fair = 0`).

### Not modelled

The distribution of the produced xTDH to holders and the switch of the statistics
slot, one transaction of one Lambda; several grantors and collections; tokens
missing from a collection (left open in `Verdicts`); grants that cannot be
revoked, which `CreateXTdhGrantUseCase` refuses to create; the range locks of the reviewer's query
beyond the row; a message lost between the TDH commit and its dispatch.

## NFT links

Modules: `NftLinks` (which is its own instance for TLC), `MediaProofs` (theorems,
together with those of `Attachments`; what both modules would name alike, such as
`LinkInit`, `LinkSpec` and `LinkTypeOK`, carries the word link here).

A link to an NFT that somebody has posted is a row of `nft_links`: the card
fetched from the site, a lock, and the preview of the card's media. Readers ask
for a refresh of a card that was last tried more than two minutes ago; up to
twenty Lambdas resolve links and up to five make previews, each from its own queue.

| State in the model | In the code |
| --- | --- |
| `site` | the media the external site shows now |
| `media`, `lock`, `tried` | the media in `full_data`, the ages of `is_locked_since` and `last_tried_to_update` |
| `preview`, `hash`, `url` | `media_preview_status`, `media_preview_source_hash`, `media_preview_card_url` |
| `jobs` | messages of the queue `nft-link-media-previews` |
| `pc`, `since`, `card` | each invocation of `nftLinkRefresherLoop`: position, age of its lock, resolved card |
| `wpc`, `job`, `source` | each invocation of `nftLinkMediaPreviewLoop`: position, hash of its message, media of the row it has locked |

| Code | Actions |
| --- | --- |
| `getLinkData`, `trackUrls`, the refresh queue, `lockForProcessing` | `Lock` |
| the attempts of `attemptResolve` | `Resolve`, `Store`, `AttemptFails`, `UpdateWithFailure` |
| `onResolvedCard` | `Mark`, `Send`, `PreviewErrs` |
| `processQueueMessage` | `TakeJob`, `SkipRow`, `Reject`, `Finish`, `WorkFails`, `Fail` |
| kills and repeated deliveries | `KillResolver`, `KillWorker`, `Redeliver` |
| clock and site | `Tick`, `Republish` |

What is abstracted, and why nothing is lost:

* Times are ages in ticks. The code compares `is_locked_since` and
  `last_tried_to_update` with `now - TTL`; both are two minutes by default. Ages stop
  growing at `Old`. The clocks of the Lambdas are assumed to agree.
* The refresh queue has no state. A message makes somebody try to lock the row,
  the lock is refused unless the row is old enough, and a reader who finds it old
  enough sends a message: whenever `Lock` is enabled a message may be there. The same
  holds for a message that comes back after a kill.
* The hash of a URL is the media itself. A card without any URL is `NoSource`, media of
  which no preview is made is in `Unsupported`.
* `jobs` is a set: several messages with one hash do what one does, since the first
  turns the preview PROCESSING. `Redeliver` brings a message back at any time.
* `media_preview_locked_since` is left out because it never decides anything: a
  preview is taken only while PENDING, and the statement that makes it PENDING clears
  this column. An expired preview lock is therefore never taken over, whatever
  `NFT_LINK_MEDIA_PREVIEW_LOCK_TTL` says.
* The row's lock in the database is not modelled; a message may find it taken at
  any time (`SkipRow`). A worker selects the row `for update skip locked`
  (`nft-links.db.ts:422`), while any refresh message that looks at the row, an update
  or the insertion of a drop with the link may have it locked for a moment.
* A failed statement may have taken effect (`AttemptFails`, `PreviewErrs`, `WorkFails`).

### Run

| Run | Question | Instance |
| --- | --- | --- |
| `nft_links` | does one resolver at a time work within the time of its lock (`OneHolder`), where is a preview left to nobody (`NoPreviewStranded`), is the link shown as it is in the end (`EventuallyShown`)? | 2 media of which one is unsupported, or none; 2 resolvers, 2 workers, 1 change of the site, 1 failure; both times shorter than a tick |

With both times 0 a lock expires at the next tick, which may come between any two
steps, so that a resolver can outlive its lock, be overtaken by another one, and
store and unlock late. Two resolvers are the least for that, two workers the
least of which one can end after the other, one change the least that makes a
card or a job stale. `EventuallyShown` asks for the end of a behaviour in which
the failure has happened or never will. The proofs cover other times and numbers.

`OneHolder` is worth its run because unlocking is blind: a late resolver sets
`is_locked_since` to null while the next one works. What keeps a third one out is
not the lock but `last_tried_to_update`, which the same update sets to now; hence
the assumption `LockTTL <= MinInterval`, which the defaults meet with equality and
a configuration could break.

`NoPreviewStranded` names the steps in which the code gives a preview up
(`Abandons`): a message that is not sent, or not received because the row is locked
at that moment, leaves PENDING; a worker that is killed leaves PROCESSING. Neither
is among the statuses from which `markMediaPreviewPendingIfNeeded` starts again,
so that the preview waits until the media changes. The property says that nothing
else has this effect, in particular no job for another media, no worker that ends
after the next one and no repeated delivery. `EventuallyShown` then says that the
damage is limited to that media: in the end the link is shown as it is, unless the
preview of the very media it shows has been given up (`Unattended /\ hash = site`).

Modelling brought up two things the code does and hardly means to do.

* **A locked row loses its preview.** `SkipRow` needs no failure. The worker gets no
  row, takes the preview for "already processing/ready/stale"
  (`nft-link-media-preview.service.ts:152-157`) and returns, the message is deleted
  and the preview stays PENDING.
* **The URLs of another media stay.** `markMediaPreviewPendingIfNeeded` sets the hash
  (`nft-links.db.ts:285`) before the expressions that keep the URLs only if the hash
  is unchanged (290-321). MySQL assigns from left to right and compares with the new
  hash, so nothing is ever cleared (`Marked` leaves `url` alone). Until the new
  preview is made, and for good when none is made of the new media, the row has the
  URLs of the previous one, and the API returns them (`nft-link-api.mapper.ts:27`).
  `Shown` therefore says nothing of the URLs of a link whose media is unsupported.

Fairness: the clock goes on, the link is looked at again and again, the queues
invoke the Lambdas for the messages they hold, and an invocation goes on. The
second is about readers: a link nobody looks at is not refreshed.

### Proofs

`MediaProofs` proves, for any sets of media, resolvers and workers and any
bounds, assuming only `TimesAssumption`:

* `LinkTypeCorrect`: `LinkTypeOK`, in the five parts it is stated in.
* `HoldersAreAlone`: `OneHolder`, from the inductive `LockInv`. Its part `Remembered`
  says that for a resolver within its time the row's lock is no older than its own,
  or the row has been tried since it locked it. Either way nobody else can lock
  the row before the resolver's time is over.
* `PreviewsAttended`: `NoPreviewStranded`, one case per action. A new
  PENDING preview has the resolver that is about to send its message, then the
  message; a PROCESSING one has a worker that every end of the work changes. So the
  steps of `Abandons` are the only ones that leave a preview to nobody.

Model-checked only: `EventuallyShown`, a liveness property.

### Not modelled

The insertion of the row and the delay for the read replica; the notification of
WebSocket listeners; prices and metadata beyond the media; a deployment without
the queues, in which the API resolves links itself and previews stay PENDING; the
dead-letter queues after ten receives; what a resolver does at each site.

## Hazards that no property covers

`PROJECT.json` lists the hazards with their lines. Beyond that list, met while
reading and left alone:

* metrics: an error of the mark that ends the whole MySQL transaction is swallowed
  (`wave-drop-metrics-refresh.service.ts:163`).
* attachments: the completion request broadcasts a row read from the replica pool
  (`attachments.routes.ts:255`).
* revocation: `Math.floor` rounds a reduced vote against a drop away from zero
  (`participation-drops-over-vote-revocation.ts:150`).
* winners with equal votes are ordered by the latest change, the leaderboard by
  the earliest (`wave-decisions.db.ts:199`).
* the loop that collects the top N of weighted votes ends before the last drop
  (`wave-leaderboard-calculation.service.ts:543`).
* indexing: an unreadable owner counts as no token
  (`external-collection-snapshotting.service.ts:863`), a token id is turned into a
  Number (`external-collection-live-tailing.service.ts:211`).
* links: the URLs of a preview survive a change of the media, which the comparison in
  the update means to prevent (`nft-links.db.ts:290`; see NFT links).
* grants: the bound of `valid_to` is computed once when the validator's module is
  loaded.
* votes: when one of the statements started together by `Promise.all` is a deadlock
  victim, those queued behind it run outside of any transaction
  (`vote-for-drop.use-case.ts:239`).

## Prover and checker

TLC checks every listed property on the instances above. TLAPS proves the listed
theorems for all constants that meet the named assumptions. Out of its reach,
and therefore model-checked only: liveness under fairness and everything about
ENABLED. The library's induction theorems take an operator as a parameter, which
no installed prover can instantiate; what is proved about sums over finite sets
(`SumTheorems`) rests instead on the well-foundedness of proper inclusion, with the
statement fixed.

Of the properties of the passing runs no theorem states the liveness properties and,
of the indexer's `KeepsPromise`, the fairness of `CollectionLifecycle`
(`KeepsPromiseSafely` proves the rest).

# Horadus: formal models of the belief-state core

Horadus collects articles, clusters them into events, classifies the events with language
models, and turns the impacts it finds into evidence for trends. A trend keeps a live
log-odds value. The program is a set of short database transactions run by Celery workers,
by periodic tasks and by API routes. Its hard parts are where these meet in one row: a
value read before a lock and used after it, two corrections of the same evidence, a budget
several sessions spend, a commit whose outcome nobody knows. This directory models those
transactions in TLA+, checks them with TLC on small instances, and proves the central
properties with TLAPS for every value of the constants.

Every model has the granularity of SQL statements. Sessions run READ COMMITTED
(`storage/database.py`), take PostgreSQL row locks and keep them to the end of the
transaction, and hold copies of rows in memory: `expire_on_commit=False`,
`autoflush=False`, and a `SELECT ... FOR UPDATE` does not refresh an object already
loaded. A flush writes the columns that changed in memory and no others.

## Inventory

| Component | State | Operations | Hard behaviour | What makes it correct |
|---|---|---|---|---|
| Trend live value: `core/trend_engine.py`, `core/trend_restatement.py`, `core/trend_state.py`, `_trend_write_mutations.py` | `trends`, `trend_state_versions`, `trend_evidence`, `trend_restatements` | apply evidence, decay, restate, activate a version, edit | concurrent writers, stale copies, lock upgrade, a clock read before a lock | writes serialise; a period is decayed once; each version's value is what was booked on it; transactions end |
| Projection check: `build_trend_projection_check` | reads the ledger | recompute | commit order against stamp order | the ledger rebuilds the value |
| Event merge and reconciliation: `event_clusterer.py`, `tier2_candidate_processor.py`, `trend_impact_reconciliation.py`, `event_lifecycle.py` | `events`, `event_items`, evidence | match, merge, classify, hold, supersede, insert | unlocked suppression check, lost updates, partial failure | suppressed events get no evidence and are not revived; reversed evidence nets to zero |
| Operator feedback: `feedback.py`, `_feedback_write_mutations.py`, `feedback_restatement.py` | `human_feedback`, events, evidence | mark_noise, invalidate, restate | races with workers and with each other | each reversal counts once |
| LLM budget: `cost_tracker.py`, `llm_policy.py` | `api_usage` | check, call, record | stale counters, first row of the day, rounding | limits hold; nothing is overcounted |
| Replay queue: `_task_maintenance.py`, `_task_replay.py` | `llm_replay_queue` | enqueue, claim, replay, retry | a commit of unknown outcome, the cap, rows that stay | a repair is reported complete when its content was replayed, what a repair queued stays queued until replayed, given up or emptied, the queue drains |
| Degraded-mode tracker: `degraded_llm_tracker.py` | Redis buckets, latch, mode | record, evaluate, latch | racing evaluations, fail-open | hysteresis; degraded mode is not undone by a stale evaluation |
| Pipeline and raw items: `pipeline_orchestrator.py`, `_task_processing.py` | `raw_items`, Redis counter and lock | load batch, process, retry, reap, dispatch | SKIP LOCKED, batches with many locks, two batches on one story, retries | a story has one event, its extraction has read its latest items, batches do not deadlock, items are settled |
| Event lineage: `event_lineage.py` | `event_items`, `event_lineage` | merge, split, repair | against workers that hold or want the same events | evidence repaired; the report on the repair is true |
| Privileged writes: `_privileged_write_contract.py` | audit rows | start, succeed, fail | idempotency keys, revision tokens, audit in another session, crashes and lost commits | a key is applied at most once; what a row says of an applied, stale or failed write is so; rows are closed |
| API keys and rate limits: `api_key_manager.py` | key file, Redis or memory windows | create, revoke, rotate, limit | fallback when Redis is away | limits hold per window |
| Scheduling and pure algorithms: VOI scheduler, novelty lane, corroboration, impact mapping | none | rank, derive | numeric boundaries | agree with their definitions |
| Collectors, retention, embeddings, reports, configuration, evaluation | various | input, deletion, reads | mostly I/O | outside the core |

The components meet in the database. A worker merges an item into an event, classifies
it, reconciles the evidence and updates the trend in one transaction, and records its
LLM calls in the same one. Operators rewrite the same event, evidence and trend. Decay
touches the trend, the lifecycle task the event, the replay task all of them. Splits and
merges by operators feed the replay queue, which also takes what the pipeline holds back
while the models are degraded. The rows of `api_usage`, which every booking locks for the
day, are what keeps two batches of the pipeline apart.

## Modules

| Module | What it is |
|---|---|
| `TrendDecay` | the arithmetic of decay |
| `SerialTrend` | abstract specification: the writes of a trend row happen one transaction at a time |
| `TrendWrites` | every transaction that writes one trend row; implements `SerialTrend` through a refinement mapping |
| `TrendProjection` | extends `TrendWrites` with the ledger audit |
| `EventReview` | one event, its evidence under one key, workers, replays and operators |
| `CostBudget` | the rows of `api_usage` of one day and the sessions that share them |
| `PrivilegedWrites` | privileged API writes to one resource: keys, tokens, audit rows, crashes |
| `ReplayQueue` | the queue of events to be classified again, its task, the repairs and the held events that fill it |
| `RawItems` | raw items from the collectors through concurrent batches to their final status |
| `MCTrendWrites`, `MCTrendProjection`, `MCEventReview`, `MCCostBudget`, `MCPrivilegedWrites`, `MCReplayQueue`, `MCRawItems` | constants of the small instances |
| `TrendWritesProofs`, `TrendProjectionProofs`, `EventReviewProofs`, `CostBudgetProofs`, `PrivilegedWritesProofs`, `ReplayQueueProofs`, `RawItemsProofs` | theorems about the module of that name |
| `SumLemmas` | lemmas about sums over finite sets: what a ledger adds up to, what the tiers of a day cost together |

### TrendWrites

`row` is the committed trend row together with the columns of its state versions, which
only a holder of the trend row's lock writes. `image[s]` is the row as session `s` has
written it. `tx[s]` holds what the session has in memory. `lock[s]` is `share` (the FOR
KEY SHARE of a foreign-key check), `write` (UPDATE) or `full` (FOR UPDATE).

- `InsertEvidence`, `AddEvidence`: `TrendEngine.apply_evidence`, split where it can wait
  for a lock. The instant is read between the two.
- `DecayRow`: `apply_decay`, on the row read under FOR UPDATE.
- `InsertRestatement`, `RecordRestatement`, `AddRestatement`:
  `apply_compensating_restatement`; its decay term comes from memory.
- `InsertVersion`, `FlushActivation`: `activate_trend_state`.
- `Rename`: an edit of other columns, which stamps `updated_at`. It takes the lock of an UPDATE,
  or FOR UPDATE when it changes one of the unique columns, the name and `runtime_trend_id`.

Arithmetic is on integers: the decay factor is a table `Left[n] / Scale`, and the
division rounds. `aged` and `effect` are history that no action reads.

### EventReview

One event; `evidence` keeps for each row its delta, the sum `comp` of the restatements
that name it, and whether it is active. A pipeline session goes through `Match` (or
`Resume`, for an item linked by a failed run), `PreCheck`, `Link` (which locks the row
and writes from the old copy), `PostCheck`, `Classify`, and then `Hold`, `Keep`, `Score`
or `Supersede`, `Claim`, `Reverse`, `Insert`, `Credit`. A replay starts at `Classify`.
An operator goes through `Review`, `LoadEvidence`, `Record`, `Prior`, `Amend`, `Post`,
`Credit`, `Touch`. `Commit` publishes, `Rollback` discards; a retry is another session.
`Flushed` is the column-wise flush. `Link` always inserts its link: the branches of
`event_clusterer.py:109-137` and `:277-286` for an item that another session has linked, or an
event that is gone, are not reached, since a batch keeps the rows of its items locked to the
end and no session deletes an event in which a batch could merge. The numbers behind a derived epistemic state or a
score are a choice; who may be chosen is the code's.

### CostBudget

A session makes calls one after the other and then commits: `Choose`, `Create`,
`CheckBudget`, `Answer` or `Fail`, `Load`, `Select`, `LockRow` (row by row in the order
of the tier), `Enforce`. The tier's own row stays as `Load` found it. `Rounded` is the
NUMERIC(10, 4) column, with `Grain` its unit. `check_budget` reads count and sum in two
statements; they are one step here, and its answer binds nobody, since `Enforce` decides.

### PrivilegedWrites

`log` lists who made each committed change of the resource; a revision token is its
length. `audit[k]` is the row of idempotency key `k`, `req[r]` the handler of a request.
A client's retry is another request with the same key. `Load` reads the resource without
a lock and fixes the `If-Match` token; `Reject`, `Start`, `Duplicate`, `Refuse412` are the
four answers of `start_privileged_write`; `Mutate` flushes, `Fail` raises, `Commit` and
`LoseCommit` are the end of `get_session` (a change refused by the route itself is `Fail`, whatever
its HTTP status: the audit row then says conflict, or one of the classes that are "failed" here), and
only then do `GetAudit` and `PutAudit` write
the outcome, in a session of their own. `Crash` can strike anywhere.

### ReplayQueue

`queue[e]` is the committed row of an event (there is one at most), `lineage[n]` the n-th
repair with its report. A run of the task goes through `Scan` (no locks), `Pick` (SKIP
LOCKED, but with the scanned copy), `Replay` or one of the failures, and `Commit`. After a
failed statement `Reload` takes the row as it then is; after a commit that may or may not
have landed, `Resolve` reads it in another session, and repeats once. A split or merge
locks its source event (`TakeSource`), reads the request of each row it is about to withdraw or
renew without a lock (`ReadRequest`), and then writes the rows: `Split`, or for a merge `Unqueue`
(the row of the source), `TakeTarget` and `Merge`. It supersedes the reports on the requests it
has read. `Count` and `Enqueue` are the pipeline's capped insertion. `served[e]` is
history: the repairs that were committed when the last committed replay of `e` began.
"processing" is flushed and never committed, so it is no status here.

### RawItems

A batch is one transaction: `Load` (SKIP LOCKED, oldest first), `Prepare` (copies and
languages), `Tier1` for all, then item by item `Embed` and `Cluster`, then the analyses
`Analyse`, `BookAnalysis`, `Write`, `Apply`, and one `Commit`. `run[w]` holds the statuses,
links and extractions no other session sees yet. An event is known by the item it was
founded for. `Book` is `record_usage`: it selects all rows of the day FOR UPDATE and keeps them
to the end of the batch.

- Items match when they tell the same `Story`. A story stands for items whose embeddings are
  of one model and close, with events whose `last_mention_at` is within
  `CLUSTER_TIME_WINDOW_HOURS` of them (`event_clusterer.py:231-239`): closeness is taken for an
  equivalence, and the nearest event for any event of the story. So `OneEvent` is about stories
  within the window of the clustering; items of one story that arrive further apart found an
  event each, as the code means them to. An item without an embedding
  (`event_clusterer.py:73-78`) does not get as far as the clustering in a batch:
  `LeaveUnembedded`.
- Copies are items of one `Content`: external id, URL or hash, fetched within seven days of
  each other (`deduplication_service.py:65`, `:161`).
- An analysis reads the latest five items of its event by `added_at`, fewer when the prompt is
  full (`tier2_classifier.py:562-639`), and never none. `Latest` lets it read any number of the
  latest. `added_at` is the time at which the transaction of the link began, so links of one
  batch tie, and `added` and `since` are numbers of which only the order counts. Therefore an item can be
  classified although no analysis has read it: when more than five items share an event,
  or when a batch that began earlier links later. `LatestIsRead` says what remains true of the
  extraction that stands: a classified item it has not read was not linked after any item it
  has.
- An item that is not served is dropped, or put back as pending because the budget refused its
  call or its language is deferred. `Resumed` are the items that were put back after they had
  been linked.

Since the semantic cache is off by default (`core/config.py`, `LLM_SEMANTIC_CACHE_ENABLED`), a
batch that links an item has booked its Tier-1 call, so batches are in effect serialised from
that call on. The code does not say so anywhere, and `OneEvent`, `LatestIsRead` and
`BatchesDontDeadlock` all rest on it. The one gap is midnight: a batch that books on the
new day does not wait for one that booked on the old. `crossed` is history of that case,
and the three properties exclude it; in it each of them can fail.

## Runs

Passing:

| Run | Instance | Shows |
|---|---|---|
| `trend_serial` | two workers, a decay session, three transactions of two operations, two instants | types; `DecayedOnce`; refinement of `SerialTrend`; `TransactionsEnd` |
| `line_booked` | worker, restater, two activations, an edit, three versions | `LineBooked`; `TransactionsEnd` |
| `review_net` | two workers, a replay, an invalidation (a `VIEW` merges states that differ in what no later step reads) | types; `NetZero`; `CountsLinked`; `NoLockCycle` |
| `review_suppress` | worker, mark_noise, restate | `NoLateEvidence` |
| `budget_shared` | three sessions of two calls, two tiers, rows there or not, costs that round up | types; `SpendWithinLimit`; `NeverOvercounted`; `NoWaitCycle` |
| `writes_once` | a write, its retry, another write, two changes of the resource | types; `AppliedOnce`; `AuditTrue`; `WriteSettles` |
| `replay_reports` | two events, two runs of the task, a repair, two attempts, one fault | types; `CompleteServed`; `RepairedIsQueued` |
| `replay_drains` | two events, one run, a repair, a holder, two faults | `QueueDrains` |
| `raw_items` | three items of two stories, two workers, batches of two, two days, one fault (or refusal, or deferral) | types; `OneEvent`; `LatestIsRead`; `BatchesDontDeadlock`; `ItemsSettle` |

Violations, each a disagreement between the code and a sentence of the repository
(quoted in `PROJECT.json`):

| Run | What happens |
|---|---|
| `projection_drift` | evidence stamps the row without decaying it; the audit decays |
| `review_revived` | a merge from an old copy makes an event active again that mark_noise has closed meanwhile |
| `copies_lost` | collections of two sources store copies of a text; a batch marks each as the duplicate of the other |

The models show more that goes wrong, in instances kept out of the runs. The runs are
stated for the conditions under which the property holds:

- With a restater, `SerialSpec` fails: `apply_compensating_restatement` computes its decay
  term from the copy its session loaded, so a decay committed in between is applied again
  or lost. `docs/ARCHITECTURE.md:285` promises that decay and manual deltas serialise.
- With an edit of another column (`Rename`), or an activation, `DecayedOnce` fails: the row
  gets the instant at which the transaction began, or the request was handled, over a later
  one that a decay has committed since, and the next decay ages the same period again. No
  document speaks of it.
- With two invalidations, `NetZero` fails: each lists the active evidence and reverses all
  of it. `docs/DATA_MODEL.md:520` calls the reversal what kept the projection honest.
- Two sessions can take the last call of a day: `record_usage` compares the limit with the
  copy it loaded before the lock, where `cost_tracker.py:124` says atomically.
- Two privileged writes that name the same revision can both be applied: each compares the
  token with its own unlocked copy and neither write checks the row again. `docs/API.md:39`
  says that stale tokens return 412. An audit row may say "rolled_back" of a commit whose
  answer was lost, and after a retry under its key it may say "conflict", or
  "missing_revision_token" if the retry names no revision
  (`_privileged_write_contract.py:357-364`), although the first write was applied. `AuditTrue`
  is about the rows that say applied, stale or failed.
- Tier-2 writes the epistemic state it derives from its old copy (`tier2_classifier.py:685-693`):
  an item that was linked by an earlier batch can so make a retracted event emerging or
  confirmed again. `review_revived` shows the merge, and the activity it restores.
- A split or merge holds the row of its source event while it waits for the queue row of an
  event whose replay is under way, and the replay holds that row and waits for the event.
  PostgreSQL ends the circle with an error (`Abort`, `FailStatement`), and what was rolled back can be
  tried again.
- With `defer` as the mode for unsupported languages, an item stays pending for as long as its
  language is unsupported, and every batch loads it again. As many such items as a batch holds,
  older than the rest, and no other item is loaded. `ItemsSettle` bounds the deferrals
  (`MaxFaults`).
- The report on a split can stay pending: two runs that settle its two events at the same
  time do not see each other's row. And a failure that is booked from an old copy of the row
  writes the old request's number back, so after a second merge the report on that merge can
  stay pending. `RepairedIsQueued` is about the rows, which are replayed all the same.
- With a replay session, `NoLateEvidence` fails: the replay task does not look at the
  feedback on the event it classifies again.
- With a restate, `NetZero` fails: restatement and reclassification each compensate
  from what was committed before.
- `source_count` can be less than the items linked: two merges each write the count they
  loaded plus one, although each locks the row first. `CountsLinked` is the inequality
  that remains.
- After an invalidation, evidence can still be active: a worker that passed the second
  suppression check inserts it after the listing.
- With activations, `ProjectionMatches` fails even while time stands still: a worker books
  evidence on the retired version, and its delta on the live value of the new one. A
  rebase writes back the value it loaded over an increment committed since.
- Before the rows of a day exist, two tiers can each fill the daily limit, unaware of
  the other's uncommitted row; and calls cheaper than half the unit of the cost column
  are recorded as free, so the recorded cost is below what was spent.

`NoLockCycle` holds for the sessions of its run, and `NoWaitCycle` once the rows of the
day exist. With a restatement, or feedback on an event already retracted, the event's row
is locked after the trend's, and a cycle with a worker exists. So it does when the rows of
`api_usage` are inserted in the order of the calls. PostgreSQL ends such cycles with an
error, which is `Rollback`; no document promises they cannot occur, so they are listed as
hazards.

### Bounds

- Trend runs: `MaxTx` transactions, `MaxBatch` operations in each, `MaxTime` instants,
  `MaxLine` versions. A lost update, a double decay or a stale restatement needs two
  transactions and one tick; three transactions let a third observe. The deltas are
  whole when halved once or twice, and of both signs, so that no two histories with
  different effects end in the same value.
- `ProjectionDrift` lets the clock move only between transactions: the disagreement it
  shows is not one of timing.
- Review runs: each session runs one transaction, so the number of sessions is the
  number of transactions. Double compensation, revival and lost counts need two.
- Budget runs: two or three sessions, two calls each, limits of the order of two calls,
  so that limits are met and exceeded within a run. `Grain` is 2 with costs 1 and 3 in
  `budget_shared`: every write rounds.
- `writes_once`: three requests, two of one key, are the least with a retry beside a
  stranger; two changes let each key's write commit, or another session come between.
- Replay runs: two events are what a merge and a split need. `MaxAttempts = 2` has a retry
  and a last attempt; one fault puts a crash or lost commit anywhere, two let a recovery
  fail as well. Two runs of the task at once are in `replay_reports`; for liveness one is
  enough, since a row skipped for its lock is skipped in any case.
- `raw_items`: two items wait and one more is collected meanwhile; it tells the story of
  the first, so a second batch meets the event of the first one while it is open. Two
  days have one midnight.

### Fairness

- Trend runs: strong fairness of each session's statements. PostgreSQL queues lock
  waiters, so a statement whose lock becomes free again and again is served; the code
  gives sessions no other way to wait. Nothing obliges a session to begin or fail, or the
  clock to move.
- `writes_once`: weak fairness of each handler's next statement. Nothing obliges a request
  to arrive, and nothing forbids a crash: `WriteSettles` exempts the dead.
- `replay_drains`: weak fairness of the task (the beat starts it for ever, its statements
  get an answer), of a repair once begun (it ends or is aborted), of the end of a delay
  and of degraded mode. Faults are bounded, attempts are bounded by the code. That degraded
  mode ends assumes traffic: the tracker leaves it only after enough calls in its window
  without too many failovers (`degraded_llm_tracker.py:285`). A system that makes too few
  calls stays degraded, and its queue waits.
- `raw_items`: strong fairness of each worker's step. The beat sends the task for ever, a
  lock goes to those that wait for it in turn, calls time out, and the server ends a
  deadlock by failing a statement (`Victim`). Strong, because a worker that waits may see
  the lock free and taken again, and its pending items locked by the other worker.

## Proofs

All theorems hold for every set of sessions, every set of deltas or costs, and every
bound, from the ASSUMEs of the modules (integers, naturals, non-empty sets of tiers)
and the hypotheses they state.

| Theorem | Statement | Argument |
|---|---|---|
| `TrendWritesProofs!TypeCorrect` | `Spec => []TypeOK` | inductive as it stands; one lemma per helper |
| `TrendWritesProofs!LocksHold` | `Spec => []LockInv` | at most one writer; FOR UPDATE excludes all |
| `TrendWritesProofs!DecayOnce` | with workers and decay only, `[]DecayedOnce` | `AgingInv`: an instant read under the share lock is not overtaken, since decay cannot get FOR UPDATE meanwhile |
| `TrendWritesProofs!Serialised` | under the same hypothesis, `Spec => SerialSpec` | each action maps to `Work`, `Publish`, `Discard` or a stutter; needs `LockInv` and `AgingInv` |
| `TrendProjectionProofs!LinesBooked` | when nothing decays (`NoDecay`: time stands still, or no decay task and no restatements), `[]LineBooked` | `BookInv`: each session's row is in balance with the ledger plus what it has added itself, and one that does not write has added nothing; `LineInv`: a version is named by nobody but its activation until that writes it |
| `EventReviewProofs!ReviewTypeCorrect` | `Spec => []ReviewTypeOK` | strengthened by `Loaded`: the row a session works on exists |
| `EventReviewProofs!Suppression` | without replays, `[]NoLateEvidence` | `Halted`: a session that began after a suppression never reaches the statements behind the second check |
| `EventReviewProofs!ReversedOnce` | with at most one kind of feedback (`Alone`: no restatement, and an invalidation only without other feedback), `[]NetZero` | `HeldInv`: who has claimed or is about to invalidate a row has written the event's row (`WaitInv`), so what it read of the row stays true (`Books`); the invalidation writes it first because nobody else retracts the event (`Fresh`) |
| `EventReviewProofs!CountsBacked` | `Spec => []CountsLinked` | `Counted`: what a session remembers or has written of the count is at most the links and its own |
| `EventReviewProofs!OneWaitsForWriter` | under the hypothesis `Alone` of `ReversedOnce`, `[]NoLockCycle` | `HeldInv`: who holds evidence, key or trend has written the event's row, which has one writer; so all wait for one |
| `CostBudgetProofs!BudgetTypeCorrect` | `Spec => []BudgetTypeOK` | inductive as it stands |
| `CostBudgetProofs!CountsBounded` | `Spec => []NeverOvercounted` | what is written or loaded counts no more than committed and own calls |
| `CostBudgetProofs!LocksOrdered` | `Spec => []NoWaitCycle` | `OrderInv`: the rows a session has locked are the lowest ones, and no row has two holders; so one session at most holds any |
| `CostBudgetProofs!SpendRounded` | `Spec => [](opened => Spent <= Rounded(DailyLimit))` | `BudgetInv`: also the rows as a session that has locked them all sees them add up to no more, and only such a session writes one; recorded costs are multiples of the column's unit |
| `CostBudgetProofs!SpendLimited` | for a limit the cost column can hold, `[]SpendWithinLimit` | from `SpendRounded`: such a limit is not rounded up |
| `PrivilegedWritesProofs!WritesTypeCorrect` | `Spec => []WritesTypeOK` | inductive as it stands |
| `PrivilegedWritesProofs!KeyAppliedOnce` | `Spec => []AppliedOnce` | `OnceInv`: a request that works or has changed something owns the audit row of its key, and the row of a key never changes owner |
| `PrivilegedWritesProofs!AuditTellsTruth` | `Spec => []AuditTrue` | `Truth`: also of the outcomes handlers are still to write |
| `ReplayQueueProofs!ReplayTypeCorrect` | `Spec => []ReplayTypeOK` | types of runs and repairs; an item at work has attempts to spare |
| `ReplayQueueProofs!CompleteOnlyServed` | `Spec => []CompleteServed` | a row done for request n was taken after repair n was committed; so was each copy in memory and each report not yet committed |
| `ReplayQueueProofs!RepairsStayQueued` | `Spec => []RepairedIsQueued` | `QInv`: a run about to commit a replay holds the row lock, which every repair of the event needs, and no run has a row of an event not yet founded |
| `RawItemsProofs!ItemsTypeCorrect` | `Spec => []ItemsTypeOK` | inductive as it stands |
| `RawItemsProofs!StoryHasOneEvent` | `Spec => []OneEvent` | `Ledger`: a run that has links holds the rows of some day, and unless `crossed` nobody else holds any |
| `RawItemsProofs!LatestWasRead` | `Spec => []LatestIsRead` | `Seen`: the same of what a run is about to commit; its analyses read the latest of all items linked so far, and what it links ties or comes later in its own sight |
| `RawItemsProofs!NoBatchDeadlock` | `Spec => []BatchesDontDeadlock` | by `Ledger` a run that holds event or trend locks waits for nobody |

The hypotheses are the ones the disagreements above show to be needed: workers and decay
only for `DecayOnce` and `Serialised`, neither restatements nor a second operator beside an
invalidation for `ReversedOnce` and `OneWaitsForWriter` (the instance of `review_net`
satisfies `Alone`), no replays for `Suppression`. `LatestIsRead` and `OneEvent` say themselves
what they exclude.

`LinesBooked` is about sums over ledgers of any length, and `SpendRounded` over any number
of tiers. `SumLemmas` has what they need about `SumFunction` of the community module
`Functions`. Its induction is over a set of numbers rather than a predicate: a set of
naturals that contains each number whose predecessors it contains is all of them
(`NatSetInduction`, from the well-foundedness of `<`), and a family of subsets of a finite
set that contains the empty one and is closed under adding an element contains them all
(`FiniteSetInduction`).

Only model-checked: the liveness properties (`TransactionsEnd`, `WriteSettles`,
`QueueDrains`, `ItemsSettle`). Liveness and ENABLED are beyond the provers used here; so is
the projection (`ProjectionMatches` is violated in any case), a fold over a sorted ledger.
No module declares a RECURSIVE operator.

## Not modelled

- The numbers: evidence delta, corroboration, momentum, probability bands. They are
  arbitrary choices from a small set here.
- In `TrendWrites`, the savepoint that undoes evidence with a duplicate key; in
  `EventReview` this is `Insert`.
- Which of several close events an item matches (in `RawItems` any of its story), and what
  its text says.
- In `PrivilegedWrites`, the resource always exists, so the rejection of a write of a missing
  one (`not_found`, 404, audited under the key the way `Reject` audits a missing token) is left
  out. So is a request without a key (400): its row has no key and is met by no retry. The classes
  of a failed write (denied, not found, validation) are one outcome, "failed"; only "conflict" is
  kept apart.
- In `TrendWrites` and `TrendProjection`, that the trend row and the row of its state version
  hold the same value is no property: an activation in between makes them differ.
- The dispatch plan and in-flight counter, the reaper of stale items
  (it selects a status no transaction commits).
- Which raw items a split or merge moves, and the evidence it reverses; `ReplayQueue` has
  only that an event has items.
- Real time: a retry's delay runs out at some time, degraded mode begins and ends at any.
- In `CostBudget`, the change of day between check and record; limits of zero, which mean unlimited.
- Components marked `not_modelled` in `PROJECT.json`, with their reasons.

## Plan

In this order:

1. `DegradedMode`: buckets, hysteresis and latch in Redis, racing evaluations, fail-open.
   Its answer then replaces the free variable `degraded` of `ReplayQueue`.
2. The dispatch of batches: lock, in-flight counter with its expiry, throttling.
3. Splits and merges over the evidence of `EventReview`: reversal, claims, moved items.
4. Pure algorithms against reference definitions: the VOI ranking, corroboration groups,
   rate-limit windows; `ApiKeys`.

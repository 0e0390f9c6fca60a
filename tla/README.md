# Keel Academy: a TLA+ model of its grading platform

This directory holds TLA+ specifications of the stateful core of
`src/platform/grading`, the TLC configurations that check small instances of
them, and TLAPS proofs of their safety properties for every value of the
constants. Every definition is translated from the source; `PROJECT.json` maps
each one to the lines it stands for.

## 1. The system

Keel Academy grades what students push. Everything stateful is a row of one
PostgreSQL database, and almost every process is a small Python program that
talks to it through `db.py`: one call, one `psql` session, one script with its
own `BEGIN` and `COMMIT`, at the default isolation level READ COMMITTED. The
services share nothing else; they communicate through tables and through the
append-only `events` table, the *spine*.

```
 GitHub push -> intake -> submissions (queued)
                               |  claim / write / finish / reap
                            workers -> layer 1 in the sandbox
                               |    -> judge CLI -> LLM proxy -> upstream
                               |                    (budgets)
                          verdicts, verdict.issued <--- practice server
                               |                        (conceptual units)
   enroll (auth; Stripe and    |  enrollment.activated
   Paddle webhooks, grants) ---+--> gate engine -> unlocked_units,
                                      |            unit.unlocked
                          gate.pledged, gate.passed
                                      |
                               rebate machine -> rebates, rebate.*
                                      ^ runbook marks (operator)

 practice server: attempts, drills, concierge (through the LLM proxy), diagnostic,
                  simulations, pods, gallery, analytics over all of these rows
 generate-digests: weekly mails from the same rows
```

### Inventory

| component | state it keeps | operations | what is hard | what makes it correct |
|---|---|---|---|---|
| grading queue, `worker.py` | `submissions.status`, `verdicts`, `verdict.issued`; in memory the claimed row | reap, claim, grade, write, finish, budget block, mark error | several workers, crash or database error between any two calls, a nondeterministic judge | one announcement of one stored verdict; every submission settles |
| gate engine, `gates/engine.py` | `gate_cursor`, `unlocked_units` (with the placement), gate events | handle enrollment, handle verdict, advance | replay after crashes and cursor resets, events that become visible out of order, a second writer of its table | gate events once, only for verified passes of enrolled students, none lost |
| rebate machine, `rebate/machine.py` | `rebate_cursor`, `rebates`, `rebate_transitions` | pledge, earn, reject, sweep, runbook mark | replay, the window's edges, an operator beside the loop | rebates stay in the ledger graph, are earned by a passage in the window, and settle |
| LLM proxy, `proxy/server.py` | `budgets`; in memory the unit budgets and the per-student locks | check, refuse, forward, charge | concurrent requests, upstream and charge failures | a budget is overshot by less than one call; every request ends |
| practice, `practice/server.py` | attempts, drills and turns (append-only), `verdict.issued` of conceptual units; route, schedule, mastery and review queue are computed on every read | answer, drill, ask, route, schedule, queue | a long LLM call between reading the history and storing the row, a client that gives up before its proxy, answers that commit out of order | a pass is announced, the concierge guards what was passed, the route never goes back, no decay is final, every request ends |
| graders: conceptual judge, `content/grader/*.py` | none; calibration reports | judge, nudge, exit, calibrate, regression gate | replies that break their contract, an exit code that means two things | no pass without every criterion |
| layer 1 and sandbox, `layer1.py`, `sandbox/runner.py` | a container | run, cap, kill, inspect, remove | a container, a client and a daemon that stall apart | a pass ran to its end inside its limits |
| enrollment and billing, `enroll/server.py` | `checkout_sessions`, `subscription_signups`, `payments`, `subscriptions`, `enrollments`, `budgets` | checkouts, webhooks, grant, status | unordered, repeated and lost webhooks beside the student's own clicks | granted once, only if paid; what is paid is granted; the latest state wins |
| authentication, `enroll/auth_core.py` | `auth_users`, `auth_identities`, `students`, sessions, reset tokens; in memory a login throttle | signup, OAuth, login, logout, bridge, request and confirm a reset | operations in several transactions, identities whose address changes, a second account system | a session has one student behind it; a reset ends the sessions before it |
| simulations, `simulation/engine.py` | `simulations`, `simulation.scored`, `gate.defense_cleared` | start, turn, conclude, check the defenses | a state read before an LLM call and written after it | a cleared gate is earned, and what is earned is cleared |
| pods, `community/pods.py` | `pods`, memberships, posts | assign, post | check, then insert in another transaction; relay before store | overlapping requests overfill by no more than their number; posts are members', stored and announced once |
| digests, `community/digests.py` | `digests` | generate, mail, mark | stored before sent, overlapping runs | at most one mail a week, with what is stored; marked only when the transport reported it |
| gallery, `community/gallery.py` | `gallery_projects` | publish, unpublish, page | rests on a verdict, check and store apart | only passed submissions of that student; pages miss nothing |
| placement, `practice/server.py` | `diagnostic_attempts`, `unlocked_units` (with the gate engine; digests and analytics read it too) | evaluate, opt out | retakes | earned and kept |
| analytics, `analytics/engine.py` | none | summary, funnel, drop-off, unit detail | caps and rounding over other services' rows | the numbers agree with each other |
| intake, `intake/server.py` | inserts into `submissions`, `submission.created` | push webhook | concurrent duplicate deliveries | one row and one event for each push, and an answer |
| reader, trace log, web application, content, provisioning | none, or data | read | - | - |

## 2. The modules

| module | what it is |
|---|---|
| `VerdictLedger` | the abstract promise of the queue: decided once, announced once |
| `GradingQueue` | `worker.py`, with intake and operators as environment; implements `VerdictLedger` |
| `GateEngine` | `gates/engine.py`, with the writers of the spine as environment |
| `RebateLedger` | the abstract promise of the rebates: the graph of `rebate_transitions` |
| `RebateMachine` | `rebate/machine.py`, with the gate engine as environment; implements `RebateLedger` |
| `BudgetProxy` | `proxy/server.py` |
| `PracticeRoute` | the route of a student through a unit, as operators on an attempt history |
| `PracticeService` | the requests of `practice/server.py` that grade or answer, in threads, with the proxy as environment |
| `Recheck` | the spaced re-checks: fold, lapse, mastery, review queue |
| `Assessment` | the contracts of the two graders, calibration and the regression gate |
| `LessonExcerpt` | what of a lesson a judge gets to see |
| `Sandbox` | `layer1.py` and `sandbox/runner.py` |
| `Placement` | the diagnostic |
| `Analytics` | `analytics/engine.py` |
| `Simulation`, `Pods`, `Digests`, `Gallery` | the services of the same names |
| `Billing`, `Auth` | `enroll/server.py`, `enroll/auth_core.py` |
| `*MC` | small instances for TLC; `LearningMC` and `AccountsMC` put several components into one instance |
| `DataTheorems` | lemmas about numbers, iterated functions, sums over finite sets, sequences and ranks, with no model |
| `AccountsProofs`, `LearningProofs` | theorems about the components of `AccountsMC` and `LearningMC` and their proofs |
| the other `*Proofs` | theorems about the module of that name and their proofs |

`PracticeService` is composed of the route and the requests that change its
history: it EXTENDS `PracticeRoute`. The models of the components of `LearningMC`
(ten) and of `AccountsMC` (two) share no variable, so each of their behaviours is
about one of them, chosen by `subject` in the initial state; the others stay as they
are. This keeps the state space a sum instead of a product. In the code these
components do share tables. A row that one writes and another reads is modelled where
it is read, by an environment that writes it at any time:

* `unlocked_units` is written by the gate engine and by the placement
  (`practice/server.py:2335`, `:2778`), and read by both, the digests and the
  analytics. The placement's writes are the action `Place` of `GateEngine`; what the
  two write is the action `OpenUnit` of `Digests` and rows of `Analytics`.
* `students` is written by authentication; billing only reads a student's id.
* Verdicts, enrollments, rebates and attempts are free rows of `Analytics`, `Digests`
  and `Gallery`, which only read them.

Operators named in a comment as a *faulty variant* (`FinishUpdateNoLock`,
`ReadOffByOne`, ...) are not part of a specification: each is one plausible
mistake in the definition below it, and breaks the property it was written for.

### GradingQueue

`status`, `age`, `verdict`, `issued`, `blocked` are the rows and events of each
submission; `pc`, `cur`, `outcome`, `recover`, `scan`, `saw` the local state of
each worker. One action is one `db_sql` call, with two exceptions:

* `finish_submission` is a two-statement transaction. Its `UPDATE` locks the row
  (`FinishUpdate`, `rowLock`), its `INSERT ... WHERE NOT EXISTS` takes a new
  snapshot (`FinishInsert`, `saw`), and `COMMIT` makes both visible
  (`FinishCommit`). The invariant `SnapshotStillTrue` says why this is right, and
  the variant without the lock violates `ExactlyOnce`.
* The reaper's requeue `UPDATE` decides its rows on one snapshot (`ReapScan`) and
  updates them after waiting for their locks (`ReapRequeue`). PostgreSQL then
  checks `status` again on the new row version, but the `NOT EXISTS` on
  `verdicts` keeps the old snapshot.

`write_verdict` is one action: its read-back follows a conflict, and verdicts
rows never change. `TurnOld` is time: `age` says whether `created_at`, and
whether the claim, are older than `KEEL_STALE_AFTER_S`. Failures are a crash at
any point, a database error in any call (`AfterDbError` says where `run_worker`
continues), a commit whose reply is lost (`FinishReplyLost`; for the other calls
this is the same as a crash or an error one step later), a failed grading, a
budget refusal, and an operator's requeue of a settled row (`Regrade`), which the
worker's own smoke test does. The judge's answer is any outcome at any time.

### GateEngine

`open` holds the events whose transactions have not ended, `spine` the committed
ones; `seq` is drawn at insert. `CommitInOrder` is a constant: FALSE is what
PostgreSQL does, TRUE is what `schema/0001_init.sql:16` assumes. `Read`,
`HandleEnrollment`, `HandleVerdict` and `Advance` are the four transactions of
the loop; an uncaught database error ends the process, so it is `Crash`.
Enrollments only ever have the status `active` (a CHECK of
`schema/0004_enrollments.sql`). Events with malformed payloads, which no writer
of the repository produces, are left out; unknown students cannot occur in
events that carry a foreign key.

`unlocked` are the rows of `unlocked_units`; `placed` those a placement wrote
(`Place`), with a `gate_id` of its own and without any event. Both writers insert with
ON CONFLICT DO NOTHING, so a unit both open has the row of the first, and only a row
the engine wrote has a `unit.unlocked` event. `gate.passed` does not depend on the row.

### RebateMachine

`at` and `upto` are the loop over the rows a pass has read; `reject` is a state
of its own because `append_rejected` is a transaction of its own. `endsAt` and
`passedAt` are instants of a bounded clock. The environment emits gate events in
seq order (they have one writer) with any unit and any past passage time;
`RunbookMark` is an operator's process that runs beside the loop, `ResetCursor`
the replay that operators and the smoke test use. Amounts, prices and
percentages are left out.

### BudgetProxy

Each request is a thread; `Arrive` is everything `do_POST` does before the lock.
`holder` are the per-student locks. `tokens` is the usage of a request's
upstream call, and stays after the request ended, so that `StudentOvershoot` can
name the call that went over the cap. A failing charge may have gone through
(`ChargeFailed`). `Crash` is the end of the process and its restart in one step:
what a caller sees meanwhile is a refused connection.

### PracticeService and PracticeRoute

Each request is a thread of one student: `pc`, `mode`, `passed`, `spent`, `saw` are
its locals, `attempts`, `drills`, `turns`, `verdicts` the rows and events, `used`
what the proxy charged. A code answer is staged, checked and stored; a conceptual
answer or a drill takes one call, and a second one (the nudge) if the reply breaks
its contract; a question derives the concierge's mode before its call. `PersistRead`
and `PersistCommit` are the snapshot and the commit of the final transaction, whose
`NOT EXISTS` guards the `verdict.issued` of a conceptual pass. `late` are the calls
whose client gave up after 60 seconds while the proxy, which allows 120, goes on
with them: they hold the student's lock and are charged. What has been read of the
enrollment is never read again, so it is a free choice on arrival.
`RouteStatus` and its parts in `PracticeRoute` are `derive_unit_practice_route`.

### Recheck, Assessment, LessonExcerpt, Sandbox, Placement, Analytics

These are algorithms. Their variables are their inputs: the history of answers in
the order it became visible, the replies of a model, the lines of a lesson, the
container, the attempts, the rows. Each is checked against a definition that says
what it should compute (the longest chain of spaced passes for the greedy fold, the
share of students for a capped quotient). `Assessment` ends at what the worker makes of
the CLI's exit code (`ExitCode`, `WorkerOutcome`). `Sandbox` is also a protocol: the runner,
the docker client and the container each move on their own.

### Simulation, Pods, Digests, Gallery

One action is one transaction or one call to something outside, and the threads'
requests overlap between them: a simulation is read before the model call and
written after it, a pod is counted before the membership is inserted, a post is
relayed before it is stored, a digest is stored before it is mailed, a submission is
checked before its project is stored. A request that dies leaves its rows behind and
nothing else. A simulation's message is the set of topics the offline persona and
judge look for. A mail is `sent`, only `simulated` where no transport is configured
(`deliver_email` reports both alike), or `unconfirmed` when the transport failed after
it went out.

### Billing and Auth

`stripe` and `paddle` are what the providers know, `webhooks` what they still have
to deliver: in any order, and again until acknowledged, which `lost` may prevent.
`tab` is a request of a browser tab in its steps (create a session at Stripe, then
store it; read the last signup, ask Paddle, then store the signup; look for a
subscription, then enroll). `EnrollOnce` is the single statement all paths share.
`Auth` has request threads (`desk`) that go through the transactions of signup,
OAuth, login, the bridge to the students row and the reset, and may die between
them or fail at one; the other account system (`auth0_sub`) is in the initial states
and races the bridge. A person is an email address. `identities` links an OAuth
(provider, subject) to a user: a known identity signs its user in whatever address it
comes with, while the bridge takes the user's row if there is one and else the row of
that address (`OauthLogin`, `BridgeStudent`). A user may so have the students row of
another address. The window of the login throttle is a choice of how many of the recorded
failures are still recent (`LoginCheck`).

## 3. What is checked

| run | instance | what it shows |
|---|---|---|
| `queue_safety` | 2 workers, 2 submissions, all faults, at most 2 | exactly-once, graded is announced, refinement of `VerdictLedger` |
| `queue_liveness` | 3 workers, 1 submission, at most 2 crashes | every submission settles |
| `gate` | 1 student, 2 gates, 2 kinds of placement, 3 events, 2 faults, commits in order | once, verified, open = placed or behind a passed gate; nothing behind the cursor is lost; passes are passed in the end |
| `rebate` | 2 rebates (1 configured), 2 events, clock to 3, 2 faults | earned by passage, the ledger graph, silent replay, pending settles |
| `proxy` | 4 requests of 2 students for 1 unit, 1 fault | overshoot bounds, metering, every request ends |
| `practice` | 3 requests out of 6 of one student, budget of 2 calls, 1 fault | passes and verdicts agree, guard means completed, accounting, the route's recommendation and progress, every request ends |
| `learning` | ten components, each with bounds of its own | the algorithms against their reference definitions; the community services with two overlapping requests |
| `accounts` | 2 students, 1 tab, 1 checkout at each provider, 2 news, 2 enrollments by a click, 1 lost acknowledgement; 2 threads with 1 address, 2 sessions, 2 resets and 1 crash, or with 2 addresses, 2 OAuth identities and 1 session | enrollments are sound and payments lead to them; sessions are backed and resets end them |

Runs that are expected to fail, and the finding each shows:

| run | what the code does |
|---|---|
| `queue_lost_announcement` | a database error after the verdict was written marks the row `error`, where the reaper does not look: the verdict is never announced (`worker.py:440` against `:4`) |
| `gate_skipped` | a transaction that commits late appears behind the cursor (`gates/engine.py:400` against `schema/0001_init.sql:16`) |
| `rebate_expiry_race` | a passage committed after the pass's SELECT loses against the sweep (`rebate/machine.py:501` against `:10`) |
| `accounts_reordered` | a subscription keeps the status of the webhook that arrived last, not of the one that was sent last (`enroll/server.py:1197` against `schema/0016_subscriptions.sql:24`) |

### The bounds

* Submissions do not interact except through the order in which they are
  claimed: two rows with two workers show that order and every race on a row, one
  row with three workers the reaper, the finisher and a second grader meeting on
  it; the proofs cover any number of both.
* `MaxFaults` bounds the faults of one behaviour. Two are enough for a crash in
  the recovery of a crash, and for a regrade after an error. The liveness run has
  crashes only, to keep its size: a row that a database error marks `error` counts as
  settled (that its verdict stays unannounced is what `queue_lost_announcement` shows).
* Three spine events are enough for an enrollment, a pass and a second event that
  overtakes one of them; a second pass and a cursor reset re-read all of them.
* Two gate events are a pledge and one passage, or a pledge and its repetition; a
  cursor reset replays both, and the second fault is a crash in the replay. The
  clock has an instant before, at and after the end of a window of one step.
* Four requests with usages up to 2 and caps of 2 and 1 let one student queue
  behind itself, two students meet on a unit, and one request name no unit.
* Three concurrent requests of the practice service are enough for two answers that
  pass at once beside a question or a drill, and the six there are to choose from
  contain every kind twice where two meet on one row. With one token for each call
  and a budget of two the third call is refused.
* Re-checks have two units of two seeds, intervals of 2 days and 1 (the order
  of the two matters to no definition), days 0 to 4 and three answers: all three stages,
  passes that come too early and a tie between units occur, and so does a lapse: a seed
  passed on days 0 and 2 falls due on day 3 and decays on day 4. Replies name up
  to three entries for two criteria, so one may be missing, doubled, unknown or
  unclear; golden sets up to 16 are large enough for the two thresholds to differ by
  a rounding. Lessons have up to four lines of four kinds and three budgets, of which
  the smallest holds no section beside the mark of a cut.
* Two overlapping requests in a simulation, pod, digest or gallery show every race
  between a look and a write; capacity 1 and two pods make a full pod, two
  simulations both defenses. `PodsBounded` states the effect of overlap for any
  number of requests, and its proof shows it.
* One checkout at each provider with two students tests that nothing is booked to
  the wrong one, and one tab that a click and a webhook enroll at once. Two tabs
  overlap in `AccountsProofs`, for any number of them. Two versions of a subscription
  are enough for a late one.
* Two request threads and two resets of one address are enough for two live tokens
  and for a login and a signup beside a reset; one crash for a user without a
  student. Two addresses and two identities let each user come back with the other's
  address, in either order; there one session, failing requests and no throttle are
  enough, as resets are tried without OAuth. `AccountsMC` names these bounds
  (`ResetsOfOne`, `OneSession`, `MaxClicks`).
* The proxy, the practice service and the services of `learning` and `accounts` may
  stop (all requests have ended, or a bound is reached), so their runs do not check
  for deadlock; the other systems never stop.

`SYMMETRY` is used only in `queue_safety` and in `learning` (threads, learners and
peers, none of which a definition tells apart), which check no liveness.

### Fairness

* Workers: weak fairness of each worker's step. The loop waits on nothing but its
  own calls; psql, the judge's HTTP client and the sandbox all have limits, and
  `Restart=always` starts a worker again. Rows grow old by themselves. Pushes,
  faults and regrades are not fair.
* Gate engine: weak fairness of its loop. That it is started again after a crash
  is an assumption about its operators: `scripts/provision/30-services.sh`
  installs no service for it. The writers are not fair.
* Rebate machine: weak fairness of its loop (`keel-rebate`, `Restart=always`) and
  of the clock.
* Proxy: weak fairness of each thread. A Python lock has no queue; that weak
  fairness suffices rests on there being finitely many requests.
* Practice: weak fairness of each request's thread, whose calls and sandbox all have
  limits, and of the charge of late calls, which the proxy finishes within its own
  limit. Arrivals and faults are not fair.
* Billing: weak fairness of `Deliver` alone. Stripe and Paddle repeat a webhook until
  it is acknowledged. The students and the tabs are not fair.

## 4. What is proved

All theorems hold for every value of the constants that satisfies the named
assumptions, which say what kind of thing a constant is and that what the code
enumerates is finite: requests and students of the proxy and of the practice
service, questions, criteria, the threads of the pod service. (`RuleAssumption` also
says that a unit has at most one gate, which `load_rules` enforces.) Every safety
invariant and action property of the passing runs is the property of a theorem.

The inductive invariants were checked by TLC before they were proved.

* **`GradingQueueProofs`**. `ExactlyOnce` is not inductive: a worker that is about
  to commit could append a second event. `QueueInv` adds that the worker inside
  the finish transaction holds its row's lock and nobody else does (`LockInv`),
  hence that what it saw is still the truth (`SnapshotStillTrue`); that past
  `write` a worker carries the stored outcome (`HoldsRow`); and that what the
  reaper recovers is decided (`RecoverDecided`). From it follow
  `VerdictsIssuedOnce`, `IssuedIsStored`, `GradedRowsAreIssued` and the refinement
  `QueueImplementsLedger`: a commit is an announcement or a stutter, the winning
  write is a decision, everything else is a stutter.
* **`GateEngineProofs`**. `GateInv` consists of facts about the sequence
  (`SeqInv`), the batch (`BatchInv`) and, when events become visible in order,
  the progress of the cursor: an event at or below it, and an event below one of
  the batch that is no longer in the batch, has been applied (`ProgressInv`). From
  it follow `GateEventsOnce`, `GatesAreVerified` and `UnlocksFollowGates` (a unit is
  open exactly if a placement or a passed gate opened it), which need no assumption
  about the commit order, and `CursorLosesNothing`, which does: the run `gate_skipped`
  shows that it is false without.
* **`RebateMachineProofs`**. `RebateInv` adds to the two safety invariants that an
  event under way is on the spine and that one about to be rejected has earned
  nothing (`LoopInv`). The refinement `MachineImplementsLedger` and the action
  property `EarnersAreAbsorbed` follow step by step.
* **`BudgetProxyProofs`**. The overshoot rule needs two more facts: inside the with
  block a request holds its student's lock (`LockInv`), and between pre-check and
  charge its student is below the cap (`BelowCap`). The unit's bound has no lock to
  rest on; `UnitInv` counts instead: what a unit has used, with one call for each
  student who has passed its check and not charged yet, stays below the cap and one
  call of every student, because a student's lock lets one of theirs pass at a time.
  `MeterInv` sums: what a student was charged lies between the tokens of the calls
  that have charged and those of the calls that were answered.
* **`PracticeServiceProofs`**. `PracticeInv` adds that a transaction that found a
  verdict of its unit is right for ever, that a request in guard mode has its pass
  (both because passes are never taken back), and that a staging directory outlives
  its request only in a crash. `ConceptualPassIsAnnounced`, `GuardIsEarned` and the
  action property `RouteOnlyAdvances` follow for any requests, seeds and budget.
  `AccountInv` adds to the tokens in the rows those of the requests that have not
  stored theirs (`Unsent`): together they stay within what the proxy has charged.
  `RecommendedStepIsOpen` is about the route alone and holds of every history.
* **`AccountsProofs`, authentication**. `AuthInv` follows a reset through its
  transactions: a token that was consumed, written or confirmed is used up and never
  consumed again, and the password of each is written by one thread (`TokenSpent`);
  and it follows a sign-in: who waits for the bridge has a user, who waits for a
  session the students row too (`SigninBacked`), and no action takes either back; the
  user of an identity exists (`IdentityBacked`), and a user has at most one row. From it
  follow `AuthTypeCorrect`, `SessionsBacked` and `ResetsEndSessions`.
* **`AccountsProofs`, billing**. `BillingInv` says that an address is out only with
  its row or signup (`StripeOK`, `PaddleOK`), that a row is written only of a completed
  transaction and names its payer (`RowsOK`), that what a request or an enrollment
  rests on stays true (`Funded`, `GrantsOK`), and that enrollments and their events
  are one to one (`AnnouncedOK`). `EnrollmentsAreSound` follows, for any tabs,
  checkouts and webhooks.
* **`LearningProofs`, requests that overlap**. The services of students beside the
  course look first and write later, so each invariant says what a look is still worth
  when the write comes.
  *Pods*: members plus the requests that decided to join are at most the capacity plus
  the threads but one (`Crowd`), and a student's pods plus the requests that ask for
  one are at most the threads (`Claim`).
  *Simulations*: a request that clears stands on a passed conclusion of each defense
  and scores are only appended; whoever passed them all is being cleared, is cleared,
  or a database error lost it (`SimInv`).
  *Digests*: of the runs about one digest only the one whose insert won may send it,
  only before it is mailed and with what is stored (`SendingInv`), who is about to mark
  it has it reported as sent or simulated (`Confirmed`), and the logs have each digest
  once, as its state says (`LogInv`). The unit a digest names is open
  because the first of the units that are left is one of them.
  *Gallery*: what was checked before a project is stored stays true, because no
  verdict changes (`Warranted`), and a project's last event shows its state
  (`Current`). That paging shows each published project exactly once follows from
  ranks: a project's place is the number of newer ones, every place has one project,
  and the windows of two pages do not overlap.
* **`LearningProofs`, graders and their limits**. *Sandbox*: a container that ended
  without a wall cap ended by itself, and the runner believes only what it inspected.
  *Assessment*: a grade is the recomputed one of a reply that kept its contract
  (`GraderInv`); that the gate's threshold is the stricter one is a fact about products
  after both divisions are cleared. *Lesson excerpts*: the sections are numbered by the
  ranks of their first lines, a line is in the section that begins last before it, and
  after n sections each one considered is chosen or does not fit beside what is chosen
  (an induction over n).
* **`LearningProofs`, what students are credited with**. *Placement*: an attempt is
  the evaluation of a sheet, points are sums, and percentages grow with them.
  With a threshold of 0 an opt-out is an attempt without points that has not passed,
  so "who earned as much has passed" is stated with that exception; specs that name no
  threshold have one of 75 percent. *Re-checks*: greedily taking the first pass that
  counts leaves the anchor at the earliest place a chain of that length can end
  (`Greedy`), so no other choice of passes reaches further; the fold over the days is
  unrolled by an induction over them. *Review queue*: after q rounds and r turns of the
  next one a unit has lost q or q + 1 of its due seeds, or all of them (`InRounds`); what
  is listed is what was taken, each seed once (`ListedOnce`); and the turns of Seeds
  rounds suffice (`TurnsSuffice`). A seed that fell is due, because the answers that
  lowered it are of days that have been.
* **`LearningProofs`, what the operators are told**. Who completes a unit has started
  it, so the cap on the completions hides nobody; shares are percentages because
  rounding half up is monotone and exact at whole numbers; the first unit of the
  breakdown scores worst, whatever order ties are in, because an order of finitely many
  elements extends to a linear one (`OrderExtends`).

The data of these proofs (sums over sets, folds over days and sections, places in a
list) is handled in `DataTheorems`. The library's induction theorems take an operator
as a parameter, so an induction here is about a set: a nonempty set of counterexamples
has a least number or a smallest set in it. From this follow that an iteration with
given steps exists (`IterationExists`), which turns a recursive function into one with
known values, the laws of sums (`SumTake`, `SumMonotone`, ...), and that ranks in an
order are the numbers below the size of the set (`RankFacts`, `PlaceFacts`).

Only model-checked: all liveness properties (`EverySubmissionSettles`,
`PassedInTheEnd`, `PendingSettles`, `EveryRequestEnds`, `EveryAnswerEnds`,
`PaidIsEnrolled`), because fairness and ENABLED are out of the prover's reach.

## 5. What could come next

`GatePipeline`, the queue, the gate engine and the rebate machine over one spine with
the end-to-end property that a stored pass earns its rebate, is a product of three state
spaces that are already as large as a run should be; what connects them is stated at both
ends instead (`GradedIsIssued` and `PassIsAnnounced` on the writers' side,
`PassedInTheEnd` and `EarnedByPassage` on the readers').

## 6. Not modelled

The progress reader (it serves rows as they are), the web application (it keeps no
state but a cookie), logging, content and its validation, provisioning scripts, SQL
text, JSON encoding, HTTP parsing, what the kernel enforces inside a container,
prompts, and money except in rebate totals. Intake's reply to a concurrent duplicate
delivery is not modelled: the row and the event are (`GradingQueue`, Push), the reply
is not state. Signatures, hashing and cookies are outside this project: it is about
the correctness of the services for the requests they accept.

## 7. What the code does beside its documentation

Found while modelling, without a run of its own, because the consequence is visible
in the source once one knows where to look:

* `worker.py:343` measures staleness from `created_at`, so the reaper takes a fresh
  claim of an old row away, which `reap_stale`'s "Requeue or recover stale claims"
  (`:318`) does not say. The row is graded twice and announced once.
* `run_judge` (`worker.py:163`) raises `GradeError` for every exit code but 0 and 3,
  while the judge leaves with 1 for a failing verdict (`content/grader/judge.py:163`;
  `src/platform/cli/README.md:49`: "0 = overall pass, 1 = overall fail, 2 = error"). A
  real submission that fails so becomes `error`, its verdict is deleted unread, and
  nothing is stored or announced; only the stub grader writes failing verdicts. An
  exception nobody catches (a criterion without an id, `judge.py:103`; a response
  without choices, `llm.py:196`) ends Python with 1, too. `PassNeedsEveryCriterion`
  therefore says only that nothing but a pass becomes a pass.
* `gates/engine.py:240` counts a student's enrollments when it handles one: two
  enrollments within one poll interval count two for both, and neither is the "FIRST
  enrollment" of `:25`; no pledge is made.
* `proxy/server.py:90` promises at most one call's usage past a unit's cap;
  `UnitOvershootPerStudent` shows what holds: less than one call of each student.
* `append_rejected` of `rebate/machine.py` commits apart from the cursor
  (`AppendRejected` and `AdvanceCursor` are two actions), so a crash between them
  appends a second `rebate.rejected` of the same event. It is diagnostic.
* `practice/server.py:51` says that the budget declines a request "BEFORE any model
  call"; the nudge is a second call, and a budget spent by the first one declines
  the request after it (`Malformed`, then `Declined`).
* `simulation/engine.py:985` says that `gate.defense_cleared` is emitted "once
  atomically"; the look and the insert see different snapshots (`EmitSnapshot`,
  `EmitCommit`), so two conclusions may emit it twice. A spent budget is graded by
  the offline judge, an error in the check is swallowed and never retried, and of two
  concurrent turns one is lost.
* A pod may exceed its capacity, by the number of overlapping requests less one, and
  a student may get as many pods; the app reads one of them.
* `community/digests.py:98` says "Combine passed units from progress and verdicts" but
  reads `progress` only, which no service writes (`gates/engine.py:45`), so a digest
  counts no completed unit. `--dry-run` of `generate-digests.py` is parsed and ignored;
  a failed delivery is never retried; `is_idle` means never active at all.
* `community/email_transport.py:115-122`: without an API URL and without SMTP settings
  `deliver_email` reports success and sends nothing. The digest is then marked
  delivered and `digest.delivered` is on the spine, and no later run mails it
  (`DigestOnce` therefore says "handed to `deliver_email`", and keeps apart what was
  sent and what was simulated).
* `enroll/server.py:801-803` says that "the service double-checks and marks the session
  expired so a stale tab cannot enroll-and-charge again". The handler looks at neither
  enrollments nor earlier sessions: a student whose session is completed is given
  another one for the same unit, and paying it charges again (`CreateStripeSession`,
  `StoreSession`). `EnrollOnce` still enrolls once.
* `reader/server.py:164` calls the rows of `unlocked_units` the gate engine's own
  writes; the placement writes there, too.
* `community/gallery.py`: a single project is returned whether it is published or not;
  a page past the end reports a total of 0; a missing verdict is displayed as "pass"
  (it cannot be missing, `GalleryVerified`).
* `enroll/auth_core.py`: a login whose password was verified before a reset may open
  its session after the sessions were revoked (`ResetEndsSessions` therefore speaks of
  the sessions before the link was used); a crash between the new password and the
  revocation leaves the old sessions; two reset links may be live at once; concurrent
  failures of a login are counted as one.
* `enroll/auth_core.py`: an OAuth identity that is known signs in its user, but the
  bridge is given the address the provider reports now (`:296`): a user without a row
  claims the students row of that address, and the owner of the address is refused
  with `email_linked_to_other_account` from then on. Two bridges of one user with
  different addresses at once meet on a UNIQUE column, and one request fails
  (`RequestFails`). The docstring (`:14`) says that a reset bridges as well;
  `confirm_reset` does not.
* `analytics/engine.py`: a unit unlocked by an opt-out counts as passed in the funnel;
  pod compliance divides posts by members, not by the "pod member-weeks" of `:203`.
* Placement: the points possible of an opt-out are the number of questions, not their
  points.
* The lesson excerpt drops white space before it cuts the best section; the model does
  not, which only makes the modelled excerpt longer. Only that section is ever cut, so
  only it can end inside a code block.

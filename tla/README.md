# Verification of foundry-opt

This directory holds TLA+ models of `foundry-opt` (`src/src/foundry_opt/`), the
command line and runtime that lets a coding agent optimize a hosted agent:
it snapshots candidates, evaluates them at Foundry, decides which one wins,
and reports to an issue and a pull request through a broker that alone holds
the GitHub token. Paths below are relative to `src/src/foundry_opt/` unless
they start with `src/`.

All modules are translated from the Python source. The documents under
`src/docs/` and the tests were read to learn what the code is supposed to
promise; where they disagree with the code, see *Findings*.

## 1. Inventory

| Component | State it keeps | Operations | Talks to |
|---|---|---|---|
| Foundry runtime, `poc/runtime.py` | the *sidecar file*: per candidate the draft version, whether its reference, its verification and a cleanup receipt are stored, the evaluation summaries | `evaluate_baseline`, `evaluate_candidate`, `evaluate_validating`, `cleanup_draft`, broker-backed comment/closure/projection ports | Foundry client, sidecar file, broker client |
| Decision rules, `poc/decision.py` | none | `decide` | called by the controller |
| Controller, `poc/controller.py` | none of its own; reads and writes the job state file | `start`, `handoff_candidate`, `complete_candidate`, `finish` | runtime, workspaces, state file, comments, closure |
| Job state file, `poc/state.py` | one JSON file with a generation counter and a hash | `initialize`, `load`, `update`, `save` | file system |
| Command line, `cli.py` | none | `job start/handoff/complete/finish/resume`, `broker …`, `deploy-registered`, repository and verification commands | controller, broker |
| Candidate workspaces, `poc/candidate.py` | per candidate a git worktree, and beside it the manifest, the patch and the source ZIP | `prepare`, `finalize`, `apply_winner`, `cleanup` | git, file system |
| GitHub broker, `poc/github.py` | the trusted binding file, the token (in memory only), the listening socket; its clients keep the receipts | `read_issue`, `upsert_issue_comment`, `ensure_pull_request_binding`, `close_pull_request_no_winner` | GitHub REST, the job commands on its socket |
| Foundry client, `poc/foundry.py` | the route fingerprint taken at the start | draft and regular versions, polling, download, evaluation, routing | Foundry REST |
| Registered deployment, `poc/deploy.py` | regular versions with their metadata at Foundry, a receipt file | verify, check freshness, match the latest version, reconcile or create a regular version, confirm that it is active and latest | Foundry client, GitHub refs and checks |
| Deterministic ZIP, `packaging/`, `poc/source.py` | the extracted tree | `fingerprint`, `build`, validate, extract, promote | the tree the agent edits |
| Verification resolution, `poc/verification.py`, `verification.py`, `poc/checks.py` | none | which verification mode a job has; running repository checks | git, child processes |
| Repository contracts, selection, discovery | none | parsing; which agent a request selects, and its profile | file system |
| Policy and configuration, `poc/config.py`, `models.py` | none | `apply_issue_request` narrows the policy, schemas | – |
| Evidence, issue parsing, authentication, provenance, canonical JSON | none (one cached token) | rendering, parsing, one token request | – |

The parts interact as follows. `job start` selects the agent's profile, narrows
its policy by the issue, resolves which evidence the job collects, and writes
two files: the state file first, the issue request last. Every later command
needs both, and resolves again. The agent reads `next_action` in the JSON every
`job` command prints and issues the command it names. `handoff` records a
candidate and prepares its worktree; `complete` finalizes it (patch, source
ZIP, manifest), has the
runtime evaluate it and stores result, decision, comment and cleanup; `finish`
validates the provisional winner, decides, and either applies the winning
patch to the checkout (after binding the pull request) or closes the pull
request. What happened is held in the state file and the issue
request, the files of the candidates, the sidecar file, Foundry, the issue, the
pull request, and the checkout. No transaction spans two of them.

### What is hard here

* **Crashes between two of these places.** Every effect is followed by a
  save of its receipt; a crash in between must leave something the next
  command can resume.
* **Failed calls whose effect happened anyway.** A draft may exist although
  its creation raised; a deletion may have worked although it raised.
* **Retries that reset half of a record.** `_prepare_candidate_retry` clears
  evidence, decision, receipts; what it forgets is believed later.
* **Two implementations of one protocol.** `_finish_runtime_job` (`cli.py`)
  and `finish` (`controller.py`) run the same protocol in sequence, with
  slightly different stores.
* **State read before a sweep and used after it.** Cleanup retries run at the
  head of both finishes and can reset the outcome the caller branched on.
* **Validators on save.** Pydantic validators run on each save; a record that
  a long sequence of calls made illegal raises after Foundry was changed.
* **A request between a check and an effect that others can overtake.** A
  deployment reads the branch, the latest version and the route before the
  calls that rely on them; merges, owners and other publishers act in between.
* **A serial server with impatient clients.** The broker serves one command at
  a time and a command waits for ten seconds, while one upsert makes several
  requests with ten seconds each. The command that has given up asks again,
  and the first request may have had its effect.
* **A list read page by page** in which others write, and from which follows
  whether a comment is created or updated.
* **One state file, two processes.** A store call loads, changes a copy, loads
  again to compare generations and replaces the file; no lock spans these.
* **Three passes over a tree the agent edits.** Patch, commit and archive of a
  candidate come from different reads of one worktree, while the agent has a
  shell in it.
* **Two files of one start.** A start that ends between its first and its last
  write must leave a job that can be started again, though the issue may have
  been edited since.
* **A ranking with missing values** and an incremental loop that rewrites the
  assessment of the candidate it overtakes.

The list with one entry per line of code is `hazards` in `PROJECT.json`.

## 2. Modules

### `DraftRuntime` — the Foundry runtime and its sidecar file

State: `side` (the candidates of `_RuntimeSidecarState`), `live` (draft
versions that exist at Foundry), `nextVersion`, and `call`, the frame of the
method that is running: which step it performs next and the draft id it holds
in a local variable. `orphans` and `proven` are history variables for the
properties: drafts whose creation no save recorded, and drafts whose
downloaded code matched the upload.

| Model | Code |
|---|---|
| `EnterCandidate`, `EnterValidating`, `EnterCleanup` | the conditions and early returns at the head of `evaluate_candidate`, `evaluate_validating`, `cleanup_draft`, decided by what the sidecar holds |
| `Create`, `Verify`, `Run`, `Delete` | a successful call to Foundry: `_create_draft_reference`, `_verify_existing_draft`, `run_evaluation`, `_cleanup_reference` |
| `SaveReference`, `SaveVerified`, `SaveSummary`, `SaveFail…`, `SaveRetryCleaned`, `SaveCleaned` | one save of the sidecar file each |
| `CreateFails`, `CreateLosesAnswer`, `VerifyFails`, `RunFails`, `DeleteFails`, `DraftIsGone` | the `except` branches; `CreateLosesAnswer` and `DeleteFails` leave open what Foundry did |
| `Abort` | `RouteDriftError`, which no method catches, or the process dies: the frame is lost |

The three method entries are one action each, because nothing outside the
process is touched before their first call. A `DeleteFails` step may or may
not have deleted the draft: the answer can be lost.

One process: the methods save a copy of the record they took before the call to
Foundry (1088–1089, 1174–1183, 1211–1219), the model changes the record that is
in the file. The two are the same as long as nobody else writes the file. Two
commands that run at once could undo each other's records this way; that is not
modelled, and no property here says anything about it.

### `Decision` / `MCDecision` — `decide`

`decide` as the loop it is: `AssessStep` is one turn, on the smallest id left;
`ConcludeWithoutValidating` and `ConcludeWithValidating` are its ends.
`BestIsTop` compares the loop with the declarative reference "the top of the
eligible candidates under the order of `_rank_key`". Decimals are integers in
a fixed unit: the code compares `Decimal`s exactly, so no rounding takes part
in the order. The decision keeps the evaluation of the validating run it was
built from (`decision.run`), and `WinnerIsEarned` holds the winner against it by
a statement of the rules of its own (`Clears`). `MCDecision` gives fourteen kinds of evaluation chosen to hit
every clause of the rules and every component of the ranking key with a tie
in all earlier ones.

### `OptimizeJob` — a job from its start to its end

Composes the controller, the command line, the state file, the effects at
issue, pull request and checkout, and (through `R == INSTANCE DraftRuntime`)
the runtime. `job` is the content of the state file; `proc` is the running
command — its program counter, whose `finish` it is in, the candidate it
holds and the sweep it is in — and is all that a crash loses.

| Model | Code |
|---|---|
| `Handoff`, `StartComplete`, `StartFinish`, `BindPr` | the commands |
| `NextAction` | `_next_action` and the five predicates it uses (`cli.py` 2465–2566) |
| `Finalize`, `Evaluate`, `Evaluated`, `Decide`, `AfterTry`, `Comment` | `complete_candidate`, one step per save or call |
| `SweepStep`, `Swept`, `RetryDecide` | `_retry_pending_cleanups`, `_retry_candidate_cleanup`, `_prepare_candidate_retry` |
| `EntryOfCli`, `ValidatedByCli` / `EntryOfController`, `ValidatedByController` | `_finish_runtime_job` / `finish`, kept apart because they differ |
| `FinDecide`, `Validate`, `AfterFailure`, `FinalDecide` | the steps both have |
| `PostFinal`, `SidecarFinal`, `StoreFinal`, `Bind`, `Project`, `StoreProjection`, `Close`, `StoreClosure` | the effects at issue, checkout and pull request and the save after each |
| `Accepted` | `JobState.validate_state`; a save that is not accepted raises |
| `RuntimeFault`, `Interrupt` | a failed call to Foundry; a crash or exception between two steps |

Abstractions: an evaluation result is a number, a higher one ranks better, and
`Viable` of them meet the rules (the rules themselves are in `Decision`). The
repository checks of one candidate pass or fail as a whole. Digests, URLs and
texts are left out. The baseline has been evaluated: `Init` is the state that
`start` leaves. Two branches of the code cannot be reached in the model
(`Project` with a stored projection, `Close` with a stored closure); they are
kept because the code has them.

### `Deployment` / `MCDeployment` — registered deployment, and `ReleaseLog`

`ReleaseLog` is the promise of `src/docs/decisions/0010` in two actions: a
commit passes its gate (`Verify`), and is released as a version after every
version and every commit released before (`Release`). `Deployment` implements
it (`KeepsReleaseLog`): its releases are the versions at Foundry that carry
the metadata of a commit.

State: `content` (what each commit packages to), `mode` (the verification
mode), `tip` (the default branch), Foundry (`versions`, `latest`, `pinned`,
`draft`), the `run` with its program counter and local variables, and the
`receipt` files. `verified` is the history of gates that passed in a run that
publishes.

| Model | Code |
|---|---|
| `Start` | `load_registered_deployment_settings` / `load_registered_gate_settings`: HEAD, GITHUB_SHA and the requested commit are one |
| `Route`, `RouteAfter` | `_route_before` and the comparison at the end of `_verify` |
| `CreateDraft`, `CreateRegular`, `ProveDraft`, `Evaluate`, `Cleanup`, `CleanupFails` | `_evaluate_deployment_draft`; `CreateRegular` is Foundry answering a draft request with a regular version |
| `Checks`, `Skip` | the two other modes of `_verify` |
| `Freshness` | `deployment_freshness_check` |
| `Match`, `MatchLatest` | `_matching_latest_version`, `assert_regular_version_is_latest` |
| `Find`, `Post`, `PostFails`, `FindAgain` | `create_regular_version` with its two searches for the operation |
| `ConfirmActive`, `ConfirmLatest` | the end of `publish` |
| `CallFails`, `Crash` | any other call that raises; the runner is killed |
| `Advance`; `Activate`, `Fail`, `Promote`; `Pin`, `PublishOther` | the branch; Foundry; the owner of the agent |

Abstractions: one run at a time, which the deployment workflow of a customer
repository guarantees per agent with its `concurrency` group
(`src/templates/customer-repo/.github/workflows/foundry-opt-deploy.yml` 137).
`verify-registered` is a run with `publishes` false that ends at `RouteAfter`;
a gate of a pull request that overlaps with a deployment is seen only by the
version it may leave (`PublishOther`). `Route` ends the run when the route is
pinned or the agent is missing: the caller never sets `allow_missing_target`
(`poc/deploy.py` 486–511, 1147–1161). So the first version of an agent is never
one of a run; `azd deploy` makes it
(`src/plugins/foundry-bootstrap/references/resource-reuse.md` 76–79), which is a
`PublishOther`, and `Init` starts with or without it. The metadata of a release are complete,
so its commit determines its ZIP and fingerprints. A creation takes effect at
once or never; nothing is assumed of the idempotency key.

### `Broker` / `MCBroker` — the GitHub broker and its clients, and `IssueThread`

`IssueThread` is the promise of `src/docs/decisions/0008`: one comment of the
job per logical kind (`Say`), one pull request for good (`Bind`), closed as
unsuccessful after the final comment only (`Close`). `Broker` implements it
(`KeepsThread`).

State: GitHub (`comments` in their order, `pulls`, `mentions`: the pull
requests in the timeline of the issue), the `binding` file, the `broker`
process and the `job` it is at, the `queue` of connections, and the
`receipts` in the sidecar file. `asked` is the history of comment kinds asked
for since their receipt was stored.

| Model | Code |
|---|---|
| `UpsertComment`, `SignalNoWinner`, `EnsureBinding` | `BrokerIssueComments.upsert_comment`, `BrokerClosure.signal_no_winner`, `broker bind-pr` and `_ensure_runtime_pull_request_binding`: one connection each |
| `GiveUp` | the socket timeout of `UnixSocketBrokerClient.send`, or the death of the command |
| `Accept`, `AcceptNothing`, `IdleTimeout` | `serve_forever` and the dispatch in `_dispatch_bytes` |
| `Verify`, `List`, `Judge`, `Post`, `Patch` | `upsert_issue_comment`, one action per request to GitHub (one per page for `List`) |
| `Mentions`, `Pulls`, `VerifyBound`, `Store` | `ensure_pull_request_binding`, `_write_binding_document` |
| `VerifyClose`, `PatchPull`, `Confirm` | `close_pull_request_no_winner` |
| `CallFails` | any of these requests raises, with or without its effect |
| `Reply`, `ReplyUnheard`, `ReplyFails` | the answer: read and its receipt stored; read by a command that dies before; written to nobody |
| `OtherComment`, `ChangePull`, `Mention` | people at GitHub, between any two requests |

Abstractions: one command of the job runs at a time, though the connections of
commands that gave up stay in the queue. `issue.read` changes nothing and is
left out. Identities, URLs, authors, sizes and tokens are checked by the code
at each step; here those checks succeed. All pull requests are of the
checkout's branch, and a binding has all its fields. Comments are not deleted
(a deletion between two pages would hide a comment), and a request that failed
has taken effect by then or never will; both are listed under *Remarks*.
People act as long as the broker serves: afterwards nothing of theirs can
matter to it.

### `StateFile` — the job's state file, and `StateRegister`

`StateRegister` is what the docstring of `poc/state.py` promises, "Atomic
compare-and-swap JSON state": a value with named parts, each update of which
changes one part of what is there. `StateFile` has the `file` (generation and
body), and per process the call of the store it is in (`op`) with the copy it
has loaded. `raced` and `register` are histories: that a file was written while
another process was past its comparison, and the state when all updates so far
are done in order.

| Model | Code |
|---|---|
| `Initialize`, `Create` | `initialize` and `_write_new`, which overwrites |
| `Update`, `CompareGenerations`, `Replace` | `update`; `save` up to its comparison of generation and identity; `_write_existing` |
| `Compatible` | `_identities_compatible` |
| `Die` | the process ends in its call |

Abstractions: each `with_...` function of `JobState` changes one part of the
document (its validators are in `OptimizeJob`), the hash of the envelope is
part of reading, and the replacement of a file is atomic, as `os.replace` is.

### `CandidateFiles` — the files of the candidates

State: per candidate the worktree (`tree`) and the three files beside it, and
the running `call` with everything its local variables hold. A tree maps each
path to its content; a patch stands for the tree it makes of the base, a hash
for what is hashed.

| Model | Code |
|---|---|
| `CheckPrepare`, `AddWorktree`, `WriteManifest` | `prepare` |
| `Open`, `Stage`, `CheckNames`, `Diff` | the first half of `finalize`; `Named` is `git diff --name-only` with its rename detection |
| `Before`, `Select`, `Pack`, `After` | one file of one pass: `fingerprint`, the selection and the serialization of `build`, `fingerprint` again |
| `Compare`, `ReplacePatch`, `ReplaceZip`, `Finish` | `_assert_fingerprint_matches` and the rest of `finalize` |
| `Edit`, `Restage` | the agent writes a file, or runs `git add`, between any two of these |
| `CrashCall` | the command dies: the call is lost, the files stay |

Abstractions: git's plumbing, the admission of names and the size limits are
reduced to what they decide. git takes a deleted and an added file for a rename
when they are similar; here `Similar` is any relation between contents, and
`Renames` leaves open which one-to-one pairing of such files git finds. `stale` are the files written since the selection
kept their inode, size and time.

### `Verification` — policy and evidence, as operators

`Selected`, `Narrow`, `RuntimePolicy`, `HasAuthority`, `Resolve`, `ModeAllowed`
and `DeploymentMode` are the functions of `repository_selection.py`,
`registry_runtime.py`, `poc/config.py` and `poc/verification.py` that decide,
from the profile of an agent and an issue, under which policy a job runs, who
may override what, and whether Foundry, repository checks or nothing at all is
its evidence. A profile is a record of the fields these functions read; paths
stand for the patterns that match them. One refusal of `apply_issue_request` is
left out because it never happens: that the policy wants focused cases and the
issue observed no failure (`poc/config.py` 1607–1608), for a request without
observed failures is not parsed.

### `JobFiles` / `MCJobFiles` — start, handoff and finalize over these three

Composes `StateFile`, `CandidateFiles` and `Verification` (`V`) with the
commands that use them, the persisted `request`, the `issue` people may edit,
and the temporary file a dying `start` leaves behind. A second process uses the
same state file.

| Model | Code |
|---|---|
| `StartJob` | `_prepare_start_runtime` up to `initialize`: selection, policy, authority, the request of an earlier start |
| `Verify`, `Baseline`, `Announce` | `OptimizeJobController.start`, one save each |
| `Persist`, `Rename` | `_persist_issue_request`: temporary file and rename |
| `Loads`, `Handoff`, `Complete` | `_load_existing_runtime` and the heads of the two commands |
| `Workspace`, `WorkspaceReturns` | the call of `CandidateFiles` and the record made of its outcome |
| `Store`, `StoreRuns`, `StoreReturns` | a call of the state file and its steps |
| `EditIssue`, `Agent`, `Crash`, `OtherProcess`, `OtherRuns` | everybody else |

`setup.dynamic` is a Copilot session, in which a command compares the persisted
request with the issue. Abstractions: the drafts of the baseline evaluation are
left out (`Baseline` succeeds, is to be retried, or fails), and everything
after finalization is in `OptimizeJob`.

### The proof modules

`DraftRuntime_proofs`, `OptimizeJob_proofs`, `OptimizeJobGuided_proofs` (what
needs an agent that follows `next_action`), `Decision_proofs`,
`Deployment_proofs`, `Broker_proofs`, `Verification_proofs` and
`JobFiles_proofs` (of `StateFile`, `CandidateFiles` and `JobFiles`) hold
theorems about these modules, for every value of their constants. See section 5.

## 3. Runs

| Run | Instance | What it shows |
|---|---|---|
| `DraftRuntime` | 2 candidates, 2 summaries, 3 drafts; the caller may call anything at any time | no draft is forgotten, no unverified code is evaluated, no summary is lost or replaced, no save is refused |
| `Decision` | up to 3 candidates, 14 kinds of evaluation, 2 path counts | the loop is equivalent to its declarative reference; nobody wins past a rule, a guardrail, or somebody else's validating run |
| `JobGuided` | 2 candidates, both needed, results 1 (run unsuccessful), 2, 3; 4 disturbances, 1 of them an interruption; the agent obeys `next_action` | only the validated provisional winner wins and is applied; the final comment tells the truth; the runtime never refuses the controller; the pull request is closed only when nobody is left to validate; a job that is not interrupted ends |
| `JobUnguided` | 2 candidates, all three modes, 5 disturbances, 1 of them an interruption; commands in any order | what the state file says of a draft is what the sidecar file has, labels are honest, projection and closure exclude each other, a recorded outcome is final |
| `Deployment` | 2 commits, 2 contents (one ZIP, two sets of fingerprints), all three modes, 4 versions, 2 of them foreign, 1 fault; an agent that exists or is missing at first | the refinement of `ReleaseLog`; "published" receipts are true; drafts are gone before a run goes on |
| `DeploymentLiveness` | the same with `repository_checks` only | reruns get the tip published, unless its gate blocks it or its one release is lost |
| `Broker` | 2 kinds of comment, the final one with 2 texts; 2 pull requests; 3 pages of 1; 1 comment by others; 1 failed call or impatient command | the refinement of `IssueThread`; receipts name the job's comment with its text |
| `JobFiles` | 2 candidates, 4 paths, 21 setups: one job that works on its candidates, and 5 profiles x 2 permissions x 2 kinds of session that are only started; 8 forms of the issue; 2 disturbances | no update of the state file is lost without a race, records are backed by files, what is evaluated is what is merged, nothing is written outside the scope, request and state agree, a job is only locked out by a broken start |
| `ProjectionCrash`, `ValidatingRetryLeak`, `NoWinnerDeadlock`, `BrokerDies` | smallest instance with the behaviour | the findings of section 6 |

**Bounds.** `MaxVersion` caps the versions Foundry creates, `MaxFaults` the
failed calls (in a job: failed calls and interruptions together),
`MaxInterrupts` the commands that end half-way, `MaxForeign` the versions no
release made; all appear as guards. Two candidates are enough for
a provisional winner to be overtaken and for a cleanup of one to interfere
with another; both must complete, so that the budget and the "enough
completed" test are met exactly. Four disturbances let a candidate fail
verification, fail its cleanup, and fail again after the retry; five let a
validating run fail inside the controller after a sweep has reset an earlier
failure (`AfterFailure`), which is why `JobUnguided` has five. Each draft needs at most one creation per fault plus
one per candidate and phase, so `MaxVersion` does not cut off a guided
behaviour before the faults do; in `JobUnguided` it does, and what is asked
there is proved for any number of versions. The ids are numbers because the code sorts
ids, so no symmetry is used.

In `Deployment`, two commits are enough for a run to be overtaken by a merge
and for a rerun of the older commit; four versions are one release of each
and two foreign ones, the first of which can make the agent, the other one
between, before or after the releases. Two contents with equal ZIPs
make the fingerprints decide whether a version matches. The fault goes to the
lost answer of a creation, which a rerun must reconcile, or to a version that
fails, a cleanup that fails, or a crash anywhere. In `DeploymentLiveness` no
version is used up by drafts, so that `MaxVersion` is never what stops a run.

In `Broker`, pages of one comment put a page boundary between any two
comments, and three comments fill all pages, so that the page budget is met as
well. One fault is a lost answer with its retry, a command that gave up and
whose request is served while the next command waits behind it, or a receipt that is
not stored. The pull requests are interchangeable, hence the symmetry.

In `JobFiles`, `MaxDisturbed` caps edits while a finalization runs, crashes,
edits of the issue and calls of the other process together; two are an edit
and its undoing, two crashes, or a crash between the two writes of a start and
an edit of the issue before the next one. The four paths are a source file, one
that can be created beside it (with the content of a file outside or one similar
to it: a move without and with an edit), one git ignores, and a protected one
outside the source root. Two candidates are
enough for a parent and its child. The job of the working setup is not
disturbed until its request is persisted, and keeps its issue; the other setups
cover what may come between the steps of a start. The second candidate is the
child of the first and is edited less, and a handoff that is repeated names the
same model. An identity without digests, which old state files have, occurs
only in the theorems about `StateFile`. With 632,497 distinct states the
instance is exhausted in half a minute.

Deadlock is not checked in runs of `OptimizeJob`, `Decision`, `Broker` and
`JobFiles`: a job that has ended stops, `decide` returns, nothing happens after
the broker has ended, and a job that is locked out stays so. Whether a job stops
too early is what `UninterruptedJobEnds` says; that an interrupted one does is
the finding `ProjectionCrash`.

**Fairness** (`JobGuided`, `ProjectionCrash`, `NoWinnerDeadlock`). Weak
fairness of `CommandStep`: a process that is running goes on. Weak fairness of
`Command`: the agent issues the command `next_action` names, as the skill that
drives it says (`SKILL.md`: "follow its machine-readable `next_action`"). Weak
fairness of `OpenPullRequest` and `BindPr`: the coding agent's session opens
its pull request and the workflow binds it. Faults and interruptions have no
fairness: they are bounded and need not happen.

`DeploymentLiveness`: weak fairness of the steps of a run; weak fairness of
`Activate` and `Promote`: Foundry gets on with the versions it created, which
the polling loops of `poc/foundry.py` presuppose. Strong fairness of starting
a deployment of the tip while its receipt does not say "published": the
workflow runs on each push, and a failed or unconfirmed run is started again
by its operator. It is strong because runs of other commits may keep the queue
of the `concurrency` group busy in between.
That the owner at last leaves the route alone is a hypothesis of the property.

`BrokerDies`: weak fairness of `Serve`: the broker's loop goes on. Strong
fairness of asking for the final comment while its receipt is missing: a job
is resumed until it has ended, whatever else its commands ask for in between.
With the hypothesis that the broker keeps serving, the same property holds on
this instance (118,716 states).

## 4. What is only model-checked

The liveness of `OptimizeJob`, `Deployment` and `Broker`, on the instances
above: liveness under fairness is outside what the proof system supports. Every
invariant and every action property of the passing runs is proved, and so are
the refinements of `ReleaseLog` and `IssueThread`. Two invariants, `FinalCommentIsTrue` and `RuntimeNeverRefuses`, are proved
for guided agents: without one they do not hold (section 6, remarks). No
theorem needs induction over data or a RECURSIVE operator, which are out of
reach as well.

## 5. What is proved

`DraftRuntime_proofs` proves, for all constants that satisfy
`CandidatesAssumption`, `SummariesAssumption` and `MaxVersionAssumption`
(ids and summaries are positive numbers, `None` is 0, the bound is a number):

| Theorem | States |
|---|---|
| `TypeCorrect` | `Spec => []TypeOK` |
| `SavesAreAccepted` | `Spec => []SidecarsRevalidate`: every record saved passes `_CandidateSidecar.validate_candidate` |
| `NoDraftForgotten` | `Spec => []DraftsAccounted` |
| `ReceiptsAreTrue` | `Spec => []ReceiptMeansDeleted` |
| `OnlyProvenCodeEvaluated` | `Spec => []EvaluatesOnlyProvenCode` |
| `SummariesFinal` | `Spec => SummariesAreFinal` (an action property) |

The argument is one inductive invariant, `IInv == FilesFit /\ CallFits /\
DraftsAccounted`. The properties are not inductive alone: whether the save a
method is about to do keeps the records legal depends on the condition under
which that method was entered, several steps earlier. `CallFits` carries that
knowledge along: for each step a method can be at, what its draft variable
holds and what the record of its candidate looks like (a method at
`saveReference` holds a draft that is alive and that no record names; one at
`saveSummary` holds the draft its record references, verified and proven).
`FilesFit` says, of the sidecar file and Foundry when seen together, that each
record names a draft already issued, that two records never share one, that
receipts mean deletion and that a verified record is a proven one. There is
one lemma per action (`CreateKeeps`, `SaveReferenceKeeps`, …); `Replaced` and
`SaveKeepsFiles` carry the argument all saves share.

`OptimizeJob_proofs` proves, from `IdsAssumption`, `SummariesAssumption`,
`ModeAssumption`, `ResultsAssumption` and `BoundsAssumption`, guided or not:

| Theorem | States |
|---|---|
| `JobUsesRuntime` | `Spec => R!Spec`: what the commands do is, for the runtime, a behaviour of `DraftRuntime` |
| `JobOwnsItsDrafts` | so `R!DraftsAccounted`, `R!ReceiptMeansDeleted`, `R!EvaluatesOnlyProvenCode` and `R!SidecarsRevalidate` hold in the job |
| `TypeCorrect` | `Spec => []TypeOK` |
| `WinnersAreValidated` | `Spec => []WinnerIsValidated` |
| `AppliedSelected` | `Spec => []AppliedIsSelected` |
| `ClosureDeadlocks` | `Spec => []ClosureNeverComes`: without Foundry no closure is ever stored; the finding `NoWinnerDeadlock`, for every value of the constants |
| `LabelsAreHonest` | `Spec => []HonestLabels` |
| `OutcomesAreFinal` | `Spec => OutcomeIsFinal` (an action property) |
| `TheFilesAgree` | `Spec => []FilesAgree` |
| `NeverOnADeletedDraft` | `Spec => []NoRunOnDeletedDraft` |
| `OneIsValidated` | `Spec => []OneValidated` |
| `ClosedWithoutWinner` | `Spec => []ClosedOnlyWithoutWinner` |
| `ProjectedOrClosed` | `Spec => []NeverProjectedAndClosed` |

The invariant is `Inv == RP!IInv /\ FrameFits(...) /\ Fits /\ WorldTypes`: that
of the runtime, that the frame of the runtime belongs to the command's
candidate, what the state file and the command fit, and the types of the rest.
`JobFits` is about the state file alone: a terminal outcome needs every
candidate completed, without Foundry there is one label and no draft, the
selection is the first acceptable candidate, a recorded winner is backed by its
results. It would not survive a save by a command that does not know what it
is doing, so `CommandFits` says what a command may rely on at each of its
steps: while it decides no outcome is stored; at `project` the selected
candidate is its own and fits the outcome to come; at `close` there is none; a
final comment without Foundry follows a projection (`WorldRests`: so the sidecar
receipt, which the closure needs, always comes too late). There is one lemma
per way of changing the state file (`ResultSaved`, `RetrySaved`, `FinalSaved`,
`EndSaved`, ...) and one per action (`EvaluatedFits`, ...). `Best` and `Least`
choose members because any set of handed off candidates has a first
(`HasFirst`), which each handoff keeps. `FrameStep` is what the runtime sees of
an action: a call, a step of its own, the consumption of a result, or nothing.

`TheFilesAgree` and `NeverOnADeletedDraft` rest on a second invariant, `Files`,
kept under `Inv`.
That what the state file claims is in the sidecar file (`Agree`; the converse is
false, see `ValidatingRetryLeak`) is not inductive: a result is in the sidecar
file steps before it is in the state file, and a retry clears the one and not
the other. `CallingFits` says which method a waiting command has called,
`ReturnsFit` that what a method returns is what the sidecar file holds,
`CreatesFit` that a draft is created only where the state file names none.
`Swept1` says that a sweep leaves no retry owed to a deleted draft (`Owed`) when
the finish goes on to validate, and `GoneFits` that a reference to a draft that
is gone is no longer run. `RecordMatches` carries the saves of the sidecar file,
`StoredAgrees`, `RetryAgrees` and `SaveKeepsFiles` those of the state file
(`Retains`: nothing the sidecar file backs is changed).

The last three rest on a third, `Bests`, kept under the other two. Which
candidate is the provisional winner is computed anew by every command, from
whatever the state file then has; the three properties need that it is always
the same one. `TestedFits` says that the only candidate with a validating result
in the sidecar file is the best one, and that all were completed when it was
run; `EndingFits` what the end of a job, the files in the checkout and the pull
request stand for (`NoWinner`: none is eligible, or the best one failed);
`RoundFits` what a finish knows of the best candidate at each of its steps. They
survive a save because, once enough candidates are completed, every save of a
command is `Steady`: it changes neither who is eligible nor how the candidates
rank, and a retry is owed only where there is no result to lose
(`RetrySteady`). The one save that is not `Steady` is `ResultKeepsBests`, which
stores the validating result of the best candidate itself.

`OptimizeJobGuided_proofs` proves, from the same assumptions, for an agent that
gives the command `next_action` asks for (`Guided`):

| Theorem | States |
|---|---|
| `FinalCommentTrue` | `Guided => (Spec => []FinalCommentIsTrue)` |
| `NeverRefused` | `Guided => (Spec => []RuntimeNeverRefuses)` |

Each has an invariant of its own, kept under the three above. What an agent is
asked for depends on what is stored between two commands, so both speak of the
state file first and of the place of the running command second.

`Tells == Told /\ ToldAt` is about the comments. `_ensure_final_comment` does
nothing when a receipt is there, so the theorem needs that no decision is made
after the receipt is stored. What decides is `complete` and the middle of
`finish`. A `complete` needs a candidate that is pending, that is, without a
result or without its comment; `Told` says that a job that is over, or whose
issue has been told of an outcome, has none of those left (`EnoughCompleted`
and `Commented`), and that a receipt before the
outcome is one of a job nothing can be selected from (`Hopeless`), so that
deciding again would decide the same. `InComplete` and `InFinish` say which of
the two is running, across the cleanups and retries both use: a `complete` that
is still to save something runs in an open job, whatever sweep it is in.
`WithRetry`, which does reset an outcome, drops receipt and decision with it.

`Holding` is about drafts. The runtime refuses to validate a candidate whose
record has neither a draft nor the retry that makes a new one, and a sweep
deletes the drafts of all candidates but the retained ones; whom the state file
retains is what the last decision said. `BestHeld` says that the best candidate
of an open job has its draft, or is owed a new one, until it is validated.
`Guarded` says why: when all candidates are completed and the best one still
needs its draft (`Needed`), the decision names it (`Fresh`). That is not so
between the two saves of a `complete`, of the last result and of the decision; a
crash there is safe because a guided agent gives the same `complete` again, and a
`finish` would sweep unprotected (section 6). `HeldAt` says it of the sweeps: none
that still has the best candidate before it runs while the decision names
another. `RecordsHeld` and `FrameHeld` say what this needs of each record and of
the call in progress: a draft is only deleted by a cleanup the job asked for or
one the runtime owes, and an answer "retry" comes with the record the controller
will look for. They need of the runtime that a record has a draft or a receipt,
and that it owes a cleanup exactly when it has a draft and a retry, which
`DraftRuntime_proofs` has in `StoredFits`.

`Deployment_proofs` proves, from `CommitsAssumption` (commits are positive
numbers), `ModesAssumption` and `BoundsAssumption`:

| Theorem | States |
|---|---|
| `TypeCorrect` | `Spec => []TypeOK` |
| `ReceiptsTrue` | `Spec => []ReceiptsAreTrue` |
| `CleanedFirst` | `Spec => []CleanedBeforeGoingOn` |
| `LogKept` | `Spec => KeepsReleaseLog`: every behaviour of registered deployment is one of `ReleaseLog` |

The refinement needs, at the one step that creates a release (`Post`, or
`PostFails` when the version was created after all), that the commit passed
its gate and that everything released before is of an earlier commit and a
lower version. Both were established several steps earlier: the gate before
`routeAfter`, the order at the freshness check (everything released is of a
commit up to the tip, which is then the run's own) and at the search that
found nothing of this commit. The inductive invariant `IInv == TypeOK /\ Fits`
carries them from step to step: `EvidenceFits` the gate, `OrderFits` the
order, `ReleasesFit` that releases are never deleted and not ahead of the
branch, `CleanupFits` that what a cleanup deletes is no release, `ConfirmFits`
that a run confirms a version of its own content. `ReleaseStep` says what any
step does to the releases: nothing, or one new version of the run's commit;
the preservation of each part (`ReleasesStep`, `RunStep`, `ReceiptStep`) and
the refinement (`LogStep`) follow from it.

`Broker_proofs` proves, from `KindsAssumption`, `NumbersAssumption` (`None` is
no pull request; a page has at least one comment) and `BoundsAssumption`:

| Theorem | States |
|---|---|
| `TypeCorrect` | `Spec => []TypeOK` |
| `ReceiptsStand` | `Spec => []ReceiptsHold` |
| `ThreadKept` | `Spec => KeepsThread`: every behaviour of the broker, its commands and the people at GitHub is one of `IssueThread` |

What a step of the broker relies on was found out some requests earlier, and
others have acted since: that no own comment of the kind exists (`post`), that
the comment to rewrite is of the kind asked for (`patch`), that the final
comment exists (`patchPull`, known to the command that asked for the closure).
`JobFits` says this for each step, `QueueFits` for what the connections ask,
`CommentsFit` that no kind has two own comments. `CommentsStep` bounds what any step does to the
comments, and `CommentsKept` draws from it that comments keep place, kind and
author; `QueueStep` and `QueueKept` do the same for the connections. With them
`CommandStep`, `PeopleStep` and `ServeStep` preserve `JobFits`, `ReceiptsStep`
the receipts, and `ThreadStep` maps each step to one of `IssueThread`.

`Decision_proofs` proves, from `IdsAssumption`, `PathsAssumption`,
`EvaluationsAssumption` and `RulesAssumption` (ids and path counts are numbers,
evaluations and rules are of their types):

| Theorem | States |
|---|---|
| `RankingIsStrictOrder` | the ranking is a strict total order on the eligible candidates, whatever ties and missing numbers there are |
| `TypeCorrect` | `Spec => []TypeOK` |
| `LoopKeepsTop` | `Spec => []BestIsTop` |
| `OnlyBestIsKept` | `Spec => []OneKept` |
| `WinnersEarnIt` | `Spec => []WinnerIsEarned` |
| `GuardrailsAreReported` | `Spec => []NoUnreportedGuardrail` |

The order is that of tuples (`LexTransitive`, `LexTotal`), and total because
the last component of a key is the id. `Turn` says what one turn of the loop
does, `TurnKeeps` that it keeps the top: a candidate that precedes the best one
precedes all that the best one preceded, and one that does not precede it is
preceded by it. `OutcomesFit` and `LoopFits` are the strengthening: only
eligible candidates are "keep", and as long as nothing is decided exactly the
best one is, which makes rewriting the overtaken candidate necessary.

`JobFiles_proofs`, of `StateFile` by itself, from `KeysAssumption` and `ValuesAssumption`, for any
number of processes:

| Theorem | States |
|---|---|
| `FileTypesCorrect` | `FileSpec => []FileTypeOK` |
| `UpdatesAreKept` | `FileSpec => []UpdatesSurvive` |
| `AtomicUnlessRaced` | `FileSpec /\ []~raced => Register!Spec`: as long as no file was written while another process was past its comparison, the processes together implement `StateRegister` |

`FileInv` adds `CopyIsOld`: as long as nobody was overtaken, a copy that was
loaded is no newer than the file, is the file when the generations are equal,
and is still the file after the comparison. `RegisterStep` maps each step of
such a behaviour to one of the register.

`JobFiles_proofs`, of `CandidateFiles` by itself, from `NoneAssumption`, `BaseAssumption`,
`SimilarAssumption`, `BoundAssumption`, `SourcesAssumption` and `WritableAssumption`, for any tree
and any number of disturbances:

| Theorem | States |
|---|---|
| `WorkTypesCorrect` | `WorkSpec => []WorkTypeOK` |
| `ManifestsAreTrue` | `WorkSpec => []ArtifactsMatchManifest` |
| `EvaluatedAndMerged` | `WorkSpec => []EvaluatedIsMerged` |

The last one is about reads of one file at different times. `CallFits` says
where a call can be and what it has read, `PassFits` relates the passes: what was
selected is what the tree has unless the file was written since (`stale`), and
what is packed is what was selected; and `CalmFits` that, while no edit went unseen, what
was staged is what the first fingerprint reads, up to the files git ignores.
`ArtifactsFit` carries the artifacts through the three replacements.

`Verification_proofs`: `NarrowNeverWidens` and `PolicyStaysInProfile` (an issue
never widens the policy, and the policy a job runs under has no protected path
and no foreign model), `ResolutionType` and `ResolutionIsJustified` (what is
resolved uses nothing but the evaluators, data and checks of the profile and of
the issue, each where it may; of the issue's evaluators and data, but not of its
checks, what has no effect is reported), `DeploymentModeAllowed`.

`JobFiles_proofs`, of `JobFiles`, from `SetupsAssumption`, `PartsAssumption`,
`DistinctAssumption`, `OptionalAssumption` and the assumptions of the modules
it composes:

| Theorem | States |
|---|---|
| `JobUsesStateFile` | `Spec => FileSpec`: what is proved of `StateFile` holds here |
| `JobUsesWorkspaces` | `Spec => WorkSpec`, and of `CandidateFiles` |
| `JobTypesCorrect` | `Spec => []TypeOK` |
| `JobUpdatesSurvive` | `Spec => []UpdatesSurvive` |
| `JobEvaluatesWhatItMerges` | `Spec => []EvaluatedIsMerged` |
| `JobRecordsAreBacked` | `Spec => []RecordsAreBacked` |
| `LockedOutByBrokenStart` | `Spec => []LockedOutOnlyByBreak` |
| `NothingWrittenOutside` | `Spec => []OutsideOnlyDeletes` |
| `RequestAgreesWithState` | `Spec => []RequestExplainsState` |

The base is `Core == Fits /\ FileInv /\ Inv`: what a command may hold at each of
its steps (`Fits`), and the invariants of the two components. Under it every
step is one `StateFile` and one `CandidateFiles` allow, or leaves them alone
(`StepAllowed`), which gives both refinements at once. The other theorems add
what they need to it. `RecordsFit` says of every copy of the document, the
file's and those loaded by a process, that its records are backed by manifests;
it is kept because manifests only grow (`ManifestsGrow`). `LockFits` and
`GenFits` follow the generation and the request through a start. `EscapeFits`
says that the scope a finalization was entered with is the one of the request,
which is written once (`RequestOnce`), and that the names it let pass, under some
pairing of renamed files, are in that scope; the one name a pairing hides is
that of a deleted file (`RenameTarget`, `FinishEscape`). `OpsFit` and `CmdKnows` say, as long as nobody raced, what a start
knows of the state file at each step: after `verify` the identity and the
evidence of its own request, which no other start can change any more.

## 6. Findings

* **ProjectionCrash** (bug). A crash after the winning patch was applied and
  before its receipt is saved cannot be resumed: `apply_winner` runs
  `git apply --check` on a checkout that has the patch already, and raises.
* **ValidatingRetryLeak** (bug). When a validating run is retried with a new
  draft, the command line stores the evaluation but not the new draft id
  (`cli.py` 2681–2687; `finish` stores both). No cleanup names that draft and
  the job settles without deleting it.
* **NoWinnerDeadlock** (bug). In `repository_checks` and `none` mode, with no
  acceptable candidate, `finish` asks for the closure (`poc/controller.py`
  375–377) before it writes the final comment, and the closure raises "final
  comment receipt is required before no-winner closure" (`poc/runtime.py`
  1690–1692), as every further `finish` does: neither ever comes.
  `src/docs/architecture/optimize-job.md` 86–87 shows the closure as the normal
  end of such a job; the tests use a fake closure port that needs no receipt.
* **BrokerDies** (bug). `serve_forever` writes the answer with nothing but a
  `finally` around it (`poc/github.py` 1802–1814). If the command has timed
  out, or was killed, the write raises, `broker serve` ends and removes its
  socket, and with the token that was handed to it once (`cli.py` 794) it is
  gone for the session. A command waits 10 s
  (`poc/runtime.py` 1649); an upsert on a bound pull request makes three
  requests or more with a timeout of 10 s each. `src/docs/guides/run-an-optimization.md`
  104–109 promises that jobs are resumable. A command that dies after it has
  connected and before its frame is complete has the same effect
  (`AcceptNothing`).

### Remarks

Behaviours met while modelling that no run is devoted to:

* The names that `finalize` holds against the scope come from a diff with
  rename detection (`poc/candidate.py` 526–542), the patch from one without
  (290). A file outside the scope, a protected one too, is deleted by a patch that
  adds a similar file within the scope, against
  `src/docs/architecture/trust-model.md` 32. This happens in the model, so
  `OutsideOnlyDeletes` claims less than that page: outside the scope nothing is
  written, and of what is deleted there a similar file was added inside.
* An edit between `git add -A` and the first fingerprint goes unnoticed: patch
  and commit have the old content, the source ZIP the new one. Files git
  ignores are in the ZIP and in neither patch nor commit. `EvaluatedIsMerged`
  excludes exactly these.
* A crash between `git worktree add` and the write of the manifest makes the id
  unusable: every later `prepare` refuses the directory. `cleanup`, which would
  remove it, is called by no command.
* `start` writes the state file first and the issue request last. In a Copilot
  session a job with the one and without the other is refused by every further
  start, though `src/docs/guides/run-an-optimization.md` 104 calls jobs
  resumable; `LockedOutOnlyByBreak` states that only this leads there.
* `_persist_issue_request` opens its temporary file with "xb" under a name made
  of the request's digest (`cli.py` 2126; `_write_json_document` likewise). A
  crash before the rename leaves it, and this request can never be persisted.
* The state file is compared and then replaced without a lock
  (`poc/state.py` 353), and `_write_new` does not look again: two processes can
  lose updates, and the generation can go back, against the docstring's
  "Atomic compare-and-swap". `UpdatesSurvive` is conditional on this.
* Checks named in an issue beside usable evaluators are dropped without the
  warning that evaluators and data sets get; the acknowledgement that no
  evidence is wanted needs no permission; the order of precedence in
  `src/docs/guides/run-an-optimization.md` differs from that of `resolve`.
* `verify_deterministic_zip`, `build_entries` and `fingerprint_entries` are
  called by no command.
* `complete_candidate` saves the result (320–329) and the decision (330)
  separately. If it crashes in between and the next command is `finish`
  rather than the `complete` that `next_action` asks for, the sweep deletes
  the draft of the coming provisional winner, and `evaluate_validating` then
  raises every time. `RuntimeNeverRefuses` therefore holds for guided agents
  only.
* A cleanup that succeeds within the controller's `finish` (364) for a
  candidate to be retried resets a `platform_failure`, after the command line
  has skipped the binding because of it; the controller then validates and
  projects without the binding that `cli.py` 2567 requires, or closes with the
  receipt of the comment that announced the failure.
* `_ensure_final_comment` returns when a receipt is stored, whatever the
  decision is by then; it is safe only because every reset drops the receipt.
* In guided mode candidates that end as `platform_failure` without a result
  or `invalid` use up the budget; the job is then `blocked` (`OutOfCandidates`).
* `complete` on a job that is already terminal decides again; the state
  validators stop it from changing the selection under a stored projection
  (`OutcomeIsFinal` depends on them, as its mutant shows). The decision of a
  `platform_failure` they let it replace: if a `complete` crashed before its
  comment and `finish` came next, a later `complete` decides anew under a final
  comment that is not written again. `FinalCommentIsTrue` therefore holds for
  guided agents only.
* A draft whose creation lost its answer is never deleted (`orphans`).
* `_matching_latest_version` does not ask whether the latest version is
  active: a receipt can say "published" of a version that is latest while it
  is still being created, or after it failed. `ReceiptsAreTrue` therefore claims content and
  order, not activity.
* A deadline in `create_regular_version` is not reconciled in that run; the
  next run of the commit finds the version.
* A release that failed to become active is found by every later run of its
  commit, which then waits for it in vain: that commit can never be published
  (`Lost`). In the same way a branch that is set back to an earlier, already
  released commit cannot release it again: the operation id is one per commit.
* A POST that GitHub carries out after the broker's timeout makes two comments
  with one marker; every later upsert of that kind is refused ("more than one
  owned issue comment"). The same follows if a comment is deleted by somebody
  while the pages are read. The final comment is such a kind.
* A comment of another user that contains the marker, or 2,000 comments, block
  the upsert of that kind for good.
* `_write_binding_document` opens its temporary file with "xb" under a name
  made of the content (`poc/github.py` 717–724). If the write or the rename
  fails, the file stays, and the same binding can never be stored again.
* Only the first 100 events of the timeline are read (`poc/github.py` 1171): a
  pull request that is mentioned later is not found.
* The broker ends when an hour passes without a request (`cli.py` 835); an
  evaluation that takes longer leaves the job without one.
* No run looks for drafts or versions that a crashed run left behind.

## 7. Not modelled, and what is left

Not modelled because it is I/O, parsing or rendering without a protocol:
authentication, issue parsing, path safety, evidence rendering, source
discovery, canonical JSON, provenance, templates; of repository contracts and
configuration everything but the fields that decide policy and evidence.

Left, in this order:

1. The drafts of the baseline evaluation in `DraftRuntime`, and two processes
   that complete the same candidate.
2. The admission of archive entries and the limits of the deterministic ZIP;
   the extraction of a baseline with its promotion and rollback.

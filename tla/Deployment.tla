----------------------------- MODULE Deployment -----------------------------
(***************************************************************************)
(* Registered deployment (DeploymentService, poc/deploy.py, over the       *)
(* regular versions of FoundryPocClient, poc/foundry.py): runs that verify *)
(* a commit and, on the default branch, publish it as a regular version of *)
(* one Foundry agent.                                                      *)
(*                                                                         *)
(* The workflow runs one deployment at a time per agent, and may be run    *)
(* again for any commit.  Between two calls of a run the branch may move,  *)
(* the owner of the agent may pin its route or publish by other means (a   *)
(* gate on a pull request may, too), and the run may fail or die.          *)
(***************************************************************************)
EXTENDS Integers, Sequences, FiniteSets

CONSTANTS
    Commits,        \* commits of the default branch; their order is its order
    Contents,       \* exact sources: [zip, prints], the ZIP and the fingerprints
    GateModes,      \* verification modes the agent may be configured with
    MaxVersion,     \* bound: regular versions Foundry creates
    MaxForeign,     \* bound: versions that no release made
    MaxFaults       \* bound: failed calls, failed versions, and crashes

None == 0

Modes == {"foundry_evaluation", "repository_checks", "none"}

ASSUME CommitsAssumption == Commits \subseteq Nat \ {None}
ASSUME ModesAssumption == GateModes \subseteq Modes
ASSUME BoundsAssumption ==
    MaxVersion \in Nat /\ MaxForeign \in Nat /\ MaxFaults \in Nat

VARIABLES
    content,        \* what each commit packages to
    mode,           \* the verification mode
    tip,            \* the tip of the default branch
    versions,       \* Foundry: the regular versions, by number, also deleted ones
    latest,         \* Foundry: versions.latest of the agent
    pinned,         \* Foundry: the agent has an explicit version selector
    draft,          \* Foundry: the draft of the run exists
    run,            \* the run, if its pc is not "idle"
    receipt,        \* the receipt file last written for each commit
    verified,       \* history: commits whose gate passed in a run that publishes
    faults

foundry == <<versions, latest, pinned, draft>>
vars == <<content, mode, tip, foundry, run, receipt, verified, faults>>

Versions == 1..MaxVersion

\* A regular version.  A release carries the complete metadata, so its commit
\* is known, and its exact source with it; None is a version the code does not
\* recognize.
Version == [commit: Commits \cup {None},
            status: {"creating", "active", "failed", "deleted"}]

Releases == {v \in DOMAIN versions : versions[v].commit # None}

Foreign == DOMAIN versions \ Releases

\* GET /agents/{name} answers 404: the agent has never had a version.
Missing == versions = <<>>

\* What the owner deploys without the release metadata (azd deploy).
Other == [commit |-> None, status |-> "active"]

ReleasesOf(c) == {v \in Releases : versions[v].commit = c}

Pcs == {"idle", "route", "createDraft", "proveDraft", "evaluate", "cleanup",
        "checks", "skip", "routeAfter", "freshness", "match", "matchLatest",
        "find", "post", "findAgain", "confirmActive", "confirmLatest"}

\* route: route_before.latest_version; version: the version the run refers to;
\* failure: the exception that waits for `finally', or the failed guardrails.
Run == [pc: Pcs, commit: Commits \cup {None}, publishes: BOOLEAN,
        route: Versions \cup {None}, version: Versions \cup {None},
        failure: {"none", "blocked", "error"}]

NoRun == [pc |-> "idle", commit |-> None, publishes |-> FALSE, route |-> None,
          version |-> None, failure |-> "none"]

Receipts == {"none", "published", "blocked", "superseded", "unconfirmed"}

Receipt == [status: Receipts, version: Versions \cup {None}]

Init ==
    /\ content \in [Commits -> Contents]
    /\ mode \in GateModes
    /\ tip \in Commits /\ tip - 1 \notin Commits
    /\ \/ versions = <<>> /\ latest = None /\ pinned = FALSE
       \/ /\ MaxVersion > 0 /\ MaxForeign > 0
          /\ versions = <<Other>> /\ latest = 1 /\ pinned \in BOOLEAN
    /\ draft = FALSE
    /\ run = NoRun
    /\ receipt = [c \in Commits |-> [status |-> "none", version |-> None]]
    /\ verified = {}
    /\ faults = 0

-----------------------------------------------------------------------------
(* Steps of a run.                                                         *)

At(pc) == run.pc = pc

Goto(pc) == run' = [run EXCEPT !.pc = pc]

End == run' = NoRun

\* The run ends and its receipt file is written (deploy publish-registered);
\* a gate's receipt is an artifact of its own.
EndWith(status, version) ==
    /\ End
    /\ receipt' = IF run.publishes
                  THEN [receipt EXCEPT ![run.commit] =
                          [status |-> status, version |-> version]]
                  ELSE receipt

Passed == verified' = IF run.publishes THEN verified \cup {run.commit} ELSE verified

Fault == faults < MaxFaults /\ faults' = faults + 1

\* Foundry creates a regular version.
Created(c, status) ==
    /\ Len(versions) < MaxVersion
    /\ c = None => Cardinality(Foreign) < MaxForeign
    /\ versions' = Append(versions, [commit |-> c, status |-> status])

\* load_registered_*_settings: HEAD, GITHUB_SHA and the requested commit are
\* one; what publishes runs on the default branch, a gate on any commit.
Start(c, publishes) ==
    /\ At("idle")
    /\ publishes => c <= tip
    /\ run' = [NoRun EXCEPT !.pc = "route", !.commit = c, !.publishes = publishes]
    /\ UNCHANGED <<content, mode, tip, foundry, receipt, verified, faults>>

\* _route_before: an explicit selector raises RouteModeError, and the 404 of an
\* agent that does not exist is raised again, because deploy_registered never
\* sets allow_missing_target.  An agent without a latest version is no error.
Route ==
    /\ At("route")
    /\ IF pinned \/ Missing THEN End
       ELSE run' = [run EXCEPT !.route = latest,
              !.pc = CASE mode = "foundry_evaluation" -> "createDraft"
                       [] mode = "repository_checks" -> "checks"
                       [] mode = "none" -> "skip"]
    /\ UNCHANGED <<content, mode, tip, foundry, receipt, verified, faults>>

CreateDraft ==
    /\ At("createDraft")
    /\ draft' = TRUE
    /\ Goto("proveDraft")
    /\ UNCHANGED <<content, mode, tip, versions, latest, pinned, receipt,
                   verified, faults>>

\* Foundry answers with a regular version: DraftUnavailableError.
CreateRegular ==
    /\ At("createDraft")
    /\ Fault
    /\ Created(None, "active")
    /\ run' = [run EXCEPT !.pc = "cleanup", !.failure = "error",
                          !.version = Len(versions')]
    /\ UNCHANGED <<content, mode, tip, latest, pinned, draft, receipt, verified>>

\* The draft is active and its code is the uploaded ZIP.
ProveDraft ==
    /\ At("proveDraft")
    /\ Goto("evaluate")
    /\ UNCHANGED <<content, mode, tip, foundry, receipt, verified, faults>>

EvaluateIgnoringGuardrails ==
    /\ At("evaluate")
    /\ Goto("cleanup")
    /\ Passed \/ UNCHANGED verified
    /\ UNCHANGED <<content, mode, tip, foundry, receipt, faults>>

\* The guardrails are judged after the cleanup; the evidence is there now.
Evaluate ==
    /\ At("evaluate")
    /\ \/ Goto("cleanup") /\ Passed
       \/ /\ run' = [run EXCEPT !.pc = "cleanup", !.failure = "blocked"]
          /\ UNCHANGED verified
    /\ UNCHANGED <<content, mode, tip, foundry, receipt, faults>>

\* After `finally': the guardrails are judged, or the exception goes on.
AfterCleanup ==
    CASE run.failure = "none" -> Goto("routeAfter") /\ UNCHANGED receipt
      [] run.failure = "blocked" -> EndWith("blocked", None)
      [] run.failure = "error" -> End /\ UNCHANGED receipt

\* delete_exact_owned_version of the run's draft, or of the regular version it
\* was given instead of one.
Cleanup ==
    /\ At("cleanup")
    /\ draft' = FALSE
    /\ versions' = IF run.version = None THEN versions
                   ELSE [versions EXCEPT ![run.version].status = "deleted"]
    /\ AfterCleanup
    /\ UNCHANGED <<content, mode, tip, latest, pinned, verified, faults>>

CleanupFailureIgnored ==
    /\ At("cleanup")
    /\ Fault
    /\ AfterCleanup
    /\ UNCHANGED <<content, mode, tip, foundry, verified>>

\* CleanupError ends the run, whatever it had found, and names the draft that
\* may be left.
CleanupFails ==
    /\ At("cleanup")
    /\ Fault
    /\ draft' = FALSE
    /\ End
    /\ UNCHANGED <<content, mode, tip, versions, latest, pinned, receipt,
                   verified>>

\* What GitHub says of a required check, or how its command ended.
CheckItems == {"exit0", "exit1", "timeout", "oserror", "run:incomplete",
               "run:success", "run:skipped", "run:failure", "status:success",
               "status:pending", "status:failure", "missing"}

CheckStatus(item) ==
    CASE item \in {"exit0", "run:success", "status:success"} -> "passed"
      [] item = "run:skipped" -> "skipped"
      [] item \in {"run:incomplete", "status:pending", "missing"} -> "unverified"
      [] OTHER -> "failed"

ChecksUnreported ==
    /\ At("checks")
    /\ \E items \in {{"exit0", item} : item \in CheckItems} :
         IF \A i \in items : CheckStatus(i) = "passed"
         THEN Goto("routeAfter") /\ Passed
         ELSE End /\ UNCHANGED verified
    /\ UNCHANGED <<content, mode, tip, foundry, receipt, faults>>

\* _repository_check_verification: every check must have passed.
Checks ==
    /\ At("checks")
    /\ \E items \in {{"exit0", item} : item \in CheckItems} :
         IF \A i \in items : CheckStatus(i) = "passed"
         THEN /\ Goto("routeAfter")
              /\ Passed
              /\ UNCHANGED receipt
         ELSE EndWith("blocked", None) /\ UNCHANGED verified
    /\ UNCHANGED <<content, mode, tip, foundry, faults>>

\* Mode "none": nothing is verified, and the receipt says so.
Skip ==
    /\ At("skip")
    /\ Goto("routeAfter")
    /\ Passed
    /\ UNCHANGED <<content, mode, tip, foundry, receipt, faults>>

\* The latest version must not have changed during the verification; a gate is
\* done here.
RouteAfter ==
    /\ At("routeAfter")
    /\ IF pinned \/ Missing \/ latest # run.route \/ ~run.publishes THEN End
       ELSE Goto("freshness")
    /\ UNCHANGED <<content, mode, tip, foundry, receipt, verified, faults>>

NoFreshness ==
    /\ At("freshness")
    /\ Goto("match") /\ UNCHANGED receipt
    /\ UNCHANGED <<content, mode, tip, foundry, verified, faults>>

\* deployment_freshness_check
Freshness ==
    /\ At("freshness")
    /\ IF tip = run.commit THEN Goto("match") /\ UNCHANGED receipt
       ELSE EndWith("superseded", None)
    /\ UNCHANGED <<content, mode, tip, foundry, verified, faults>>

MatchingAnyPrints(v) ==
    /\ v \in Releases
    /\ content[versions[v].commit].zip = content[run.commit].zip

\* The version has the ZIP and all fingerprints of the run's commit.
Matching(v) ==
    /\ v \in Releases
    /\ content[versions[v].commit] = content[run.commit]

\* _matching_latest_version, on the latest version of before the verification;
\* a version that was deleted in the meantime answers 404.
Match ==
    /\ At("match")
    /\ LET v == run.route IN
       IF v = None THEN Goto("find")
       ELSE IF versions[v].status = "deleted" THEN End
       ELSE IF Matching(v)
       THEN run' = [run EXCEPT !.pc = "matchLatest", !.version = v]
       ELSE Goto("find")
    /\ UNCHANGED <<content, mode, tip, foundry, receipt, verified, faults>>

\* assert_regular_version_is_latest polls, and gives up at its deadline.
MatchLatest ==
    /\ At("matchLatest")
    /\ IF pinned \/ latest # run.version THEN End /\ UNCHANGED receipt
       ELSE EndWith("published", run.version)
    /\ UNCHANGED <<content, mode, tip, foundry, verified, faults>>

\* find_regular_version_by_operation: the operation id is a hash of the commit,
\* two versions that share it are an error, and so is one with other metadata.
Found(v) == ReleasesOf(run.commit) = {v} /\ Matching(v)

\* Start of create_regular_version.
Find ==
    /\ At("find")
    /\ IF pinned THEN End
       ELSE IF ReleasesOf(run.commit) = {} THEN Goto("post")
       ELSE IF \E v \in Releases : Found(v)
       THEN \E v \in Releases :
              /\ Found(v)
              /\ run' = [run EXCEPT !.pc = "confirmActive", !.version = v]
       ELSE End
    /\ UNCHANGED <<content, mode, tip, foundry, receipt, verified, faults>>

Post ==
    /\ At("post")
    /\ Created(run.commit, "creating")
    /\ run' = [run EXCEPT !.pc = "confirmActive", !.version = Len(versions')]
    /\ UNCHANGED <<content, mode, tip, latest, pinned, draft, receipt,
                   verified, faults>>

\* The request fails; the version may have been created.  ContractError and
\* ServiceError are reconciled, DeadlineError is not.
PostFails ==
    /\ At("post")
    /\ Fault
    /\ \/ Created(run.commit, "creating")
       \/ UNCHANGED versions
    /\ Goto("findAgain") \/ End
    /\ UNCHANGED <<content, mode, tip, latest, pinned, draft, receipt, verified>>

FindAgainAccepting ==
    /\ At("findAgain")
    /\ IF \E v \in Releases : Found(v)
       THEN \E v \in Releases :
              /\ Found(v)
              /\ run' = [run EXCEPT !.pc = "confirmActive", !.version = v]
       ELSE Goto("confirmActive")
    /\ UNCHANGED <<content, mode, tip, foundry, receipt, verified, faults>>

\* The second search: nothing found re-raises.
FindAgain ==
    /\ At("findAgain")
    /\ IF \E v \in Releases : Found(v)
       THEN \E v \in Releases :
              /\ Found(v)
              /\ run' = [run EXCEPT !.pc = "confirmActive", !.version = v]
       ELSE End
    /\ UNCHANGED <<content, mode, tip, foundry, receipt, verified, faults>>

\* wait_for_regular_version_active and the download of its code.
ConfirmActive ==
    /\ At("confirmActive")
    /\ IF versions[run.version].status = "active"
       THEN Goto("confirmLatest") /\ UNCHANGED receipt
       ELSE EndWith("unconfirmed", run.version)
    /\ UNCHANGED <<content, mode, tip, foundry, verified, faults>>

ConfirmedAnyway ==
    /\ At("confirmLatest")
    /\ EndWith("published", run.version)
    /\ UNCHANGED <<content, mode, tip, foundry, verified, faults>>

ConfirmLatest ==
    /\ At("confirmLatest")
    /\ EndWith(IF ~pinned /\ latest = run.version THEN "published"
               ELSE "unconfirmed", run.version)
    /\ UNCHANGED <<content, mode, tip, foundry, verified, faults>>

\* A call that fails otherwise: with a draft the run goes to `finally', after
\* the publication it says so in its receipt, else it just ends.
CallFails ==
    /\ Fault
    /\ \/ /\ run.pc \in {"proveDraft", "evaluate"}
          /\ run' = [run EXCEPT !.pc = "cleanup", !.failure = "error"]
          /\ UNCHANGED receipt
       \/ /\ run.pc \in {"confirmActive", "confirmLatest"}
          /\ EndWith("unconfirmed", run.version)
       \/ /\ run.pc \in {"route", "createDraft", "checks", "routeAfter",
                         "freshness", "match", "matchLatest", "find",
                         "findAgain"}
          /\ End /\ UNCHANGED receipt
    /\ UNCHANGED <<content, mode, tip, foundry, verified>>

\* The runner is killed: nothing is cleaned up, and no later run looks for the
\* draft that is left.
Crash ==
    /\ ~At("idle")
    /\ Fault
    /\ End
    /\ draft' = FALSE
    /\ UNCHANGED <<content, mode, tip, versions, latest, pinned, receipt,
                   verified>>

-----------------------------------------------------------------------------
(* The branch, Foundry, and the owner of the agent.                        *)

\* A merge to the default branch.
Advance ==
    /\ tip + 1 \in Commits
    /\ tip' = tip + 1
    /\ UNCHANGED <<content, mode, foundry, run, receipt, verified, faults>>

Settled(v, status) ==
    /\ versions[v].status = "creating"
    /\ versions' = [versions EXCEPT ![v].status = status]
    /\ UNCHANGED <<content, mode, tip, latest, pinned, draft, run, receipt,
                   verified>>

\* A version that was created becomes active, or fails.
Activate == \E v \in DOMAIN versions : Settled(v, "active") /\ UNCHANGED faults

Fail == \E v \in DOMAIN versions : Settled(v, "failed") /\ Fault

\* versions.latest follows what is created and deleted, some time later.
Newest(v) ==
    /\ v # None => versions[v].status # "deleted"
    /\ \A w \in DOMAIN versions : versions[w].status # "deleted" => w <= v

Promote ==
    /\ \E v \in (DOMAIN versions) \cup {None} :
         Newest(v) /\ v # latest /\ latest' = v
    /\ UNCHANGED <<content, mode, tip, versions, pinned, draft, run, receipt,
                   verified, faults>>

\* The owner selects a version explicitly, or lets the service manage it again.
Pin ==
    /\ ~Missing
    /\ pinned' = ~pinned
    /\ UNCHANGED <<content, mode, tip, versions, latest, draft, run, receipt,
                   verified, faults>>

\* Somebody deploys by other means (azd deploy), without the metadata; the first
\* such version is what makes the agent exist.
PublishOther ==
    /\ Created(None, "active")
    /\ UNCHANGED <<content, mode, tip, latest, pinned, draft, run, receipt,
                   verified, faults>>

Verification ==
    \/ Route \/ CreateDraft \/ ProveDraft \/ Evaluate \/ Cleanup \/ Checks
    \/ Skip \/ RouteAfter

Publication ==
    \/ Freshness \/ Match \/ MatchLatest \/ Find \/ Post \/ FindAgain
    \/ ConfirmActive \/ ConfirmLatest

Faults ==
    CreateRegular \/ CleanupFails \/ PostFails \/ CallFails \/ Crash

Next ==
    \/ \E c \in Commits, publishes \in BOOLEAN : Start(c, publishes)
    \/ Verification \/ Publication \/ Faults
    \/ Advance \/ Activate \/ Fail \/ Promote \/ Pin \/ PublishOther

Spec == Init /\ [][Next]_vars

\* A tip that is not published is deployed again and again, also when other
\* commits are; a run goes on, and Foundry gets on with its versions.
Fairness ==
    /\ SF_vars(receipt[tip].status # "published" /\ Start(tip, TRUE))
    /\ WF_vars(Verification \/ Publication)
    /\ WF_vars(Activate) /\ WF_vars(Promote)

FairSpec == Spec /\ Fairness

-----------------------------------------------------------------------------
(* Properties.                                                             *)

\* Types of the state; a run refers to a version where it needs one.
TypeOK ==
    /\ content \in [Commits -> Contents] /\ mode \in GateModes
    /\ tip \in Commits
    /\ versions \in Seq(Version) /\ Len(versions) <= MaxVersion
    /\ latest \in (DOMAIN versions) \cup {None} /\ pinned \in BOOLEAN
    /\ draft \in BOOLEAN
    /\ run \in Run /\ run.route \in (DOMAIN versions) \cup {None}
    /\ run.pc # "idle" => run.commit \in Commits
    /\ run.pc \in {"matchLatest", "confirmActive", "confirmLatest"} \/ run.version # None
         => run.version \in DOMAIN versions
    /\ receipt \in [Commits -> Receipt]
    /\ verified \subseteq Commits
    /\ faults \in 0..MaxFaults

\* Registered deployment keeps the promise of ReleaseLog: "publishing or
\* reconciling one regular version", verified, in the order of the branch,
\* however runs are repeated, fail half-way or overlap with merges.
Log == INSTANCE ReleaseLog WITH
         released <- {[commit |-> versions[v].commit, version |-> v] : v \in Releases}

KeepsReleaseLog == Log!Spec

\* A receipt that says "published" names a release with the ZIP and the
\* fingerprints of its commit, which was latest when it was written: nothing
\* older is latest since.
ReceiptsAreTrue ==
    \A c \in Commits : receipt[c].status = "published" =>
        LET v == receipt[c].version IN
        /\ v \in Releases
        /\ content[versions[v].commit] = content[c]
        /\ latest >= v

\* draft_cleanup_complete: a run that gets past its verification, or reports
\* failed guardrails, has deleted its draft.
CleanedBeforeGoingOn ==
    draft => run.pc \in {"proveDraft", "evaluate", "cleanup"}

\* Reruns get there: once the agent exists and its owner leaves the route alone,
\* the tip ends up published, unless its gate blocks it, its one release failed
\* to become active, or somebody else's version is newer than its release.
Lost == \E v \in ReleasesOf(tip) :
    \/ versions[v].status = "failed"
    \/ \E w \in Foreign : w > v /\ versions[w].status # "deleted"

TipGetsPublished ==
    <>[](~pinned /\ ~Missing) =>
        <>[](receipt[tip].status \in {"published", "blocked"} \/ Lost)
=============================================================================

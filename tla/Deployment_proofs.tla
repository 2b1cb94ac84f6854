------------------------- MODULE Deployment_proofs --------------------------
(***************************************************************************)
(* Theorems about Deployment, for every set of commits, contents and modes *)
(* and any number of versions and faults.  They rest on the types of the   *)
(* state and on what a run may rely on at each of its steps.               *)
(***************************************************************************)
EXTENDS Deployment, TLAPS

\* The releases are of commits of the branch, and never deleted.
ReleasesFit ==
    \A v \in Releases :
        versions[v].commit <= tip /\ versions[v].status # "deleted"

\* A run cleans up what its draft request was answered with, no release.
CleanupFits ==
    /\ run.pc \in {"route", "createDraft", "proveDraft", "evaluate"} =>
         run.version = None
    /\ At("cleanup") => run.version \notin Releases

Publishing == {"freshness", "match", "matchLatest", "find", "post", "findAgain",
               "confirmActive", "confirmLatest"}

\* Before it publishes, a run has its evidence.
EvidenceFits ==
    /\ run.publishes => run.commit <= tip
    /\ At("cleanup") /\ run.failure = "none" /\ run.publishes =>
         run.commit \in verified
    /\ At("routeAfter") /\ run.publishes => run.commit \in verified
    /\ run.pc \in Publishing => run.publishes /\ run.commit \in verified

\* From the freshness check on nothing newer is released, also when the branch
\* moves on; at the request, nothing of this commit either.
OrderFits ==
    /\ run.pc \in {"match", "find"} =>
         \A v \in Releases : versions[v].commit <= run.commit
    /\ At("post") => \A v \in Releases : versions[v].commit < run.commit

ConfirmFits ==
    run.pc \in {"matchLatest", "confirmActive", "confirmLatest"} =>
        Matching(run.version)

Fits ==
    /\ ReleasesFit /\ CleanupFits /\ EvidenceFits /\ OrderFits /\ ConfirmFits
    /\ CleanedBeforeGoingOn
    /\ ReceiptsAreTrue

IInv == TypeOK /\ Fits

-----------------------------------------------------------------------------
(* What the environment does to the versions.                              *)

\* A new version comes after the others and changes none of them.
LEMMA Creation ==
    ASSUME versions \in Seq(Version), Len(versions) <= MaxVersion,
           NEW c \in Commits \cup {None},
           NEW s \in {"creating", "active"}, Created(c, s)
    PROVE  /\ versions' \in Seq(Version)
           /\ Len(versions') = Len(versions) + 1 /\ Len(versions') <= MaxVersion
           /\ DOMAIN versions = 1..Len(versions)
           /\ DOMAIN versions' = 1..Len(versions')
           /\ \A v \in DOMAIN versions : versions'[v] = versions[v]
           /\ versions'[Len(versions')] = [commit |-> c, status |-> s]
  BY BoundsAssumption DEF Created, Version

LEMMA NewVersion ==
    ASSUME TypeOK, NEW c \in Commits \cup {None},
           NEW s \in {"creating", "active"}, Created(c, s)
    PROVE  /\ versions'[Len(versions')].commit = c
           /\ Len(versions') \in Releases' <=> c # None
<1>1. /\ Len(versions') = Len(versions) + 1 /\ DOMAIN versions' = 1..Len(versions')
      /\ versions'[Len(versions')] = [commit |-> c, status |-> s]
  <2>1. versions \in Seq(Version) /\ Len(versions) <= MaxVersion
    BY DEF TypeOK
  <2> QED
    BY <2>1, Creation
<1>2. versions'[Len(versions')].commit = c /\ Len(versions') \in DOMAIN versions'
  BY <1>1
<1> QED
  BY <1>2 DEF Releases

\* A change of a version's status changes no commit.
LEMMA StatusChange ==
    ASSUME versions \in Seq(Version), NEW v, NEW s \in {"active", "failed", "deleted"},
           versions' = [versions EXCEPT ![v].status = s]
    PROVE  /\ versions' \in Seq(Version)
           /\ Len(versions') = Len(versions)
           /\ DOMAIN versions = 1..Len(versions)
           /\ DOMAIN versions' = DOMAIN versions
           /\ \A w \in DOMAIN versions :
                /\ versions'[w].commit = versions[w].commit
                /\ versions'[w].status = IF w = v THEN s ELSE versions[w].status
<1>1. \A w \in DOMAIN versions : versions[w] \in Version
  OBVIOUS
<1>2. \A w \in DOMAIN versions :
        versions'[w] = IF w = v THEN [versions[w] EXCEPT !.status = s] ELSE versions[w]
  OBVIOUS
<1>3. \A x \in Version :
        LET y == [x EXCEPT !.status = s]
        IN  y \in Version /\ y.commit = x.commit /\ y.status = s
  BY DEF Version
<1>4. /\ DOMAIN versions' = DOMAIN versions /\ DOMAIN versions = 1..Len(versions)
      /\ Len(versions') = Len(versions)
  OBVIOUS
<1>5. \A w \in DOMAIN versions : versions'[w] \in Version
  BY <1>1, <1>2, <1>3
<1>6. versions' \in Seq(Version)
  <2>1. versions' \in [1..Len(versions) -> Version]
    BY <1>4, <1>5
  <2>2. Len(versions) \in Nat
    OBVIOUS
  <2> QED
    BY <2>1, <2>2
<1> QED
  BY <1>1, <1>2, <1>3, <1>4, <1>6

-----------------------------------------------------------------------------
(* Types.                                                                  *)

WorldOK ==
    /\ content \in [Commits -> Contents] /\ mode \in GateModes
    /\ tip \in Commits
    /\ versions \in Seq(Version) /\ Len(versions) <= MaxVersion
    /\ latest \in (DOMAIN versions) \cup {None} /\ pinned \in BOOLEAN
    /\ draft \in BOOLEAN
    /\ verified \subseteq Commits
    /\ faults \in 0..MaxFaults

Referring == {"matchLatest", "confirmActive", "confirmLatest"}

RunOK ==
    /\ run \in Run /\ run.route \in (DOMAIN versions) \cup {None}
    /\ run.pc # "idle" => run.commit \in Commits
    /\ run.pc \in Referring \/ run.version # None
         => run.version \in DOMAIN versions

ReceiptOK == receipt \in [Commits -> Receipt]

LEMMA TypeParts == TypeOK <=> WorldOK /\ RunOK /\ ReceiptOK
  BY DEF TypeOK, WorldOK, RunOK, ReceiptOK, Referring

LEMMA Numbers ==
    ASSUME WorldOK
    PROVE  /\ DOMAIN versions = 1..Len(versions) /\ DOMAIN versions \subseteq Versions
           /\ None \notin DOMAIN versions
  BY BoundsAssumption DEF WorldOK, Versions, None

\* A step that only moves the pc keeps the rest of the run.
LEMMA Going ==
    ASSUME run \in Run, NEW pc \in Pcs, Goto(pc)
    PROVE  /\ run' \in Run /\ run'.pc = pc
           /\ run'.commit = run.commit /\ run'.publishes = run.publishes
           /\ run'.route = run.route /\ run'.version = run.version
           /\ run'.failure = run.failure
  BY DEF Run, Goto

LEMMA Ending ==
    ASSUME run' = NoRun
    PROVE  /\ run' \in Run /\ run'.pc = "idle" /\ run'.publishes = FALSE
           /\ run'.route = None /\ run'.version = None
  BY DEF Run, NoRun, Pcs

LEMMA EndOK == ASSUME run' = NoRun PROVE RunOK'
  BY Ending DEF RunOK, Referring

LEMMA GoOK ==
    ASSUME RunOK, NEW pc \in Pcs \ Referring, run.pc # "idle", Goto(pc),
           DOMAIN versions \subseteq DOMAIN versions'
    PROVE  RunOK'
  BY Going DEF RunOK

\* A receipt is written for the commit of the run, if at all.
LEMMA EndingWith ==
    ASSUME TypeOK, ~At("idle"), NEW s \in Receipts,
           NEW v \in Versions \cup {None}, EndWith(s, v)
    PROVE  /\ run' = NoRun
           /\ ReceiptOK'
           /\ \A c \in Commits :
                \/ receipt'[c] = receipt[c]
                \/ /\ c = run.commit
                   /\ receipt'[c].status = s /\ receipt'[c].version = v
<1>1. run.commit \in Commits /\ receipt \in [Commits -> Receipt]
  BY DEF TypeOK, At
<1>2. [status |-> s, version |-> v] \in Receipt
  BY DEF Receipt
<1>3. run' = NoRun
  BY DEF EndWith, End
<1>4. CASE receipt' = receipt
  BY <1>1, <1>3, <1>4 DEF ReceiptOK
<1>5. CASE receipt' = [receipt EXCEPT ![run.commit] = [status |-> s, version |-> v]]
  BY <1>1, <1>2, <1>3, <1>5 DEF ReceiptOK
<1> QED
  BY <1>4, <1>5 DEF EndWith

LEMMA TypeInit == Init => TypeOK
<1> SUFFICES ASSUME Init PROVE WorldOK /\ RunOK /\ ReceiptOK
  BY TypeParts
<1>1. WorldOK
  <2>1. /\ versions \in Seq(Version) /\ Len(versions) <= MaxVersion
        /\ latest \in (DOMAIN versions) \cup {None}
    <3>1. Other \in Version
      BY DEF Other, Version
    <3>2. CASE versions = <<>> /\ latest = None
      BY <3>2, BoundsAssumption
    <3>3. CASE versions = <<Other>> /\ latest = 1 /\ MaxVersion > 0
      BY <3>1, <3>3, BoundsAssumption
    <3> QED
      BY <3>2, <3>3 DEF Init
  <2>2. faults \in 0..MaxFaults
    BY BoundsAssumption DEF Init
  <2> QED
    BY <2>1, <2>2 DEF Init, WorldOK
<1>2. RunOK
  BY DEF Init, RunOK, NoRun, Run, Pcs, Referring
<1>3. ReceiptOK
  BY DEF Init, ReceiptOK, Receipt, Receipts
<1> QED
  BY <1>1, <1>2, <1>3

LEMMA TypeStep == TypeOK /\ [Next]_vars => TypeOK'
<1> SUFFICES ASSUME TypeOK, WorldOK, RunOK, ReceiptOK, [Next]_vars
             PROVE  WorldOK' /\ RunOK' /\ ReceiptOK'
  BY TypeParts DEF TypeOK, WorldOK, RunOK, ReceiptOK, Referring
<1>n. /\ DOMAIN versions = 1..Len(versions) /\ DOMAIN versions \subseteq Versions
      /\ None \notin DOMAIN versions
  BY Numbers
<1>p. {"proveDraft", "evaluate", "cleanup", "routeAfter", "freshness", "match",
       "find", "post", "findAgain"} \subseteq Pcs \ Referring
  BY DEF Pcs, Referring
<1>r. {"published", "blocked", "superseded", "unconfirmed"} \subseteq Receipts
  BY DEF Receipts
<1>f. Fault => faults' \in 0..MaxFaults
  BY BoundsAssumption DEF Fault, WorldOK
<1>c. ASSUME NEW c \in Commits \cup {None}, NEW s \in {"creating", "active"}, Created(c, s)
      PROVE  /\ versions' \in Seq(Version) /\ Len(versions') <= MaxVersion
             /\ Len(versions') \in (DOMAIN versions') \cap Versions
             /\ DOMAIN versions \subseteq DOMAIN versions'
  <2>1. /\ versions' \in Seq(Version) /\ Len(versions') = Len(versions) + 1
        /\ Len(versions') <= MaxVersion /\ DOMAIN versions' = 1..Len(versions')
    BY <1>c, Creation DEF WorldOK
  <2>2. Len(versions) \in Nat
    BY DEF WorldOK
  <2> QED
    BY <1>n, <2>1, <2>2, BoundsAssumption DEF Versions
<1>v. ASSUME NEW v \in Versions, v \in DOMAIN versions',
             NEW pc \in {"matchLatest", "confirmActive"},
             run' = [run EXCEPT !.pc = pc, !.version = v],
             run.pc # "idle", DOMAIN versions \subseteq DOMAIN versions'
      PROVE  RunOK'
  BY <1>v DEF RunOK, Run, Pcs
<1>1. ASSUME NEW c \in Commits, NEW p \in BOOLEAN, Start(c, p)
      PROVE  WorldOK' /\ RunOK' /\ ReceiptOK'
  <2>1. WorldOK' /\ ReceiptOK'
    BY <1>1 DEF Start, WorldOK, ReceiptOK, foundry
  <2>2. RunOK'
    BY <1>1 DEF Start, RunOK, NoRun, Run, Pcs, Referring, foundry
  <2> QED
    BY <2>1, <2>2
<1>2. CASE Route
  <2>1. WorldOK'
    BY <1>2 DEF Route, WorldOK, foundry
  <2>2. RunOK'
    <3>1. CASE run' = NoRun
      BY <3>1, EndOK
    <3>2. ASSUME NEW pc \in {"createDraft", "checks", "skip"},
                 run' = [run EXCEPT !.route = latest, !.pc = pc]
          PROVE  RunOK'
      <4>1. pc \in Pcs /\ pc \notin Referring /\ latest \in Versions \cup {None}
        BY <1>n DEF Pcs, Referring, WorldOK
      <4>2. /\ run' \in Run /\ run'.pc = pc /\ run'.route = latest
            /\ run'.commit = run.commit /\ run'.version = run.version
        BY <3>2, <4>1 DEF RunOK, Run
      <4> QED
        BY <1>2, <4>1, <4>2 DEF Route, At, RunOK, WorldOK, foundry
    <3> QED
      BY <1>2, <3>1, <3>2, ModesAssumption DEF Route, End, WorldOK, Modes
  <2>3. ReceiptOK'
    BY <1>2 DEF Route, ReceiptOK
  <2> QED
    BY <2>1, <2>2, <2>3
<1>3. CASE CreateDraft
  <2>1. WorldOK'
    BY <1>3 DEF CreateDraft, WorldOK, foundry
  <2>2. RunOK'
    BY <1>3, <1>p, GoOK, EndOK DEF CreateDraft, At, End, foundry
  <2>3. ReceiptOK'
    BY <1>3 DEF CreateDraft, ReceiptOK
  <2> QED
    BY <2>1, <2>2, <2>3
<1>4. CASE ProveDraft
  <2>1. WorldOK'
    BY <1>4 DEF ProveDraft, WorldOK, foundry
  <2>2. RunOK'
    BY <1>4, <1>p, GoOK, EndOK DEF ProveDraft, At, End, foundry
  <2>3. ReceiptOK'
    BY <1>4 DEF ProveDraft, ReceiptOK
  <2> QED
    BY <2>1, <2>2, <2>3
<1>5. CASE Evaluate
  <2>1. WorldOK'
    <3>1. verified' \subseteq Commits
      BY <1>5 DEF Evaluate, Passed, WorldOK, RunOK, At
    <3> QED
      BY <1>5, <3>1 DEF Evaluate, WorldOK, foundry
  <2>2. RunOK'
    <3>1. CASE Goto("cleanup")
      BY <1>5, <1>p, <3>1, GoOK DEF Evaluate, At, foundry
    <3>2. CASE run' = [run EXCEPT !.pc = "cleanup", !.failure = "blocked"]
      <4>1. /\ run' \in Run /\ run'.pc = "cleanup" /\ run'.route = run.route
            /\ run'.commit = run.commit /\ run'.version = run.version
        BY <1>p, <3>2 DEF RunOK, Run
      <4> QED
        BY <1>5, <4>1 DEF Evaluate, At, RunOK, Referring, foundry
    <3> QED
      BY <1>5, <3>1, <3>2 DEF Evaluate
  <2>3. ReceiptOK'
    BY <1>5 DEF Evaluate, ReceiptOK
  <2> QED
    BY <2>1, <2>2, <2>3
<1>6. CASE Cleanup
  <2>0. versions' \in Seq(Version) /\ Len(versions') = Len(versions)
        /\ DOMAIN versions' = DOMAIN versions
    BY <1>6, StatusChange DEF Cleanup, WorldOK
  <2>e. EndWith("blocked", None) => run' = NoRun /\ ReceiptOK'
    BY <1>6, <1>r, EndingWith DEF Cleanup, At
  <2>f. run.failure \in {"none", "blocked", "error"}
    BY DEF RunOK, Run
  <2>1. WorldOK'
    BY <1>6, <2>0 DEF Cleanup, WorldOK
  <2>2. RunOK'
    BY <1>6, <1>p, <2>0, <2>e, <2>f, GoOK, EndOK DEF Cleanup, AfterCleanup, At, End
  <2>3. ReceiptOK'
    BY <1>6, <2>e, <2>f DEF Cleanup, AfterCleanup, ReceiptOK
  <2> QED
    BY <2>1, <2>2, <2>3
<1>7. CASE Checks
  <2>e. EndWith("blocked", None) => run' = NoRun /\ ReceiptOK'
    BY <1>7, <1>r, <1>n, EndingWith DEF Checks, At, RunOK, Referring
  <2>1. WorldOK'
    <3>1. verified' \subseteq Commits
      BY <1>7 DEF Checks, Passed, WorldOK, RunOK, At
    <3> QED
      BY <1>7, <3>1 DEF Checks, WorldOK, foundry
  <2>2. RunOK'
    BY <1>7, <1>p, <2>e, GoOK, EndOK DEF Checks, At, End, foundry
  <2>3. ReceiptOK'
    BY <1>7, <2>e DEF Checks, ReceiptOK
  <2> QED
    BY <2>1, <2>2, <2>3
<1>8. CASE Skip
  <2>1. WorldOK'
    <3>1. verified' \subseteq Commits
      BY <1>8 DEF Skip, Passed, WorldOK, RunOK, At
    <3> QED
      BY <1>8, <3>1 DEF Skip, WorldOK, foundry
  <2>2. RunOK'
    BY <1>8, <1>p, GoOK, EndOK DEF Skip, At, End, foundry
  <2>3. ReceiptOK'
    BY <1>8 DEF Skip, ReceiptOK
  <2> QED
    BY <2>1, <2>2, <2>3
<1>9. CASE RouteAfter
  <2>1. WorldOK'
    BY <1>9 DEF RouteAfter, WorldOK, foundry
  <2>2. RunOK'
    BY <1>9, <1>p, GoOK, EndOK DEF RouteAfter, At, End, foundry
  <2>3. ReceiptOK'
    BY <1>9 DEF RouteAfter, ReceiptOK
  <2> QED
    BY <2>1, <2>2, <2>3
<1>10. CASE Freshness
  <2>e. EndWith("superseded", None) => run' = NoRun /\ ReceiptOK'
    BY <1>10, <1>r, <1>n, EndingWith DEF Freshness, At, RunOK, Referring
  <2>1. WorldOK'
    BY <1>10 DEF Freshness, WorldOK, foundry
  <2>2. RunOK'
    BY <1>10, <1>p, <2>e, GoOK, EndOK DEF Freshness, At, End, foundry
  <2>3. ReceiptOK'
    BY <1>10, <2>e DEF Freshness, ReceiptOK
  <2> QED
    BY <2>1, <2>2, <2>3
<1>11. CASE Match
  <2>1. WorldOK'
    BY <1>11 DEF Match, WorldOK, foundry
  <2>2. RunOK'
    <3>1. CASE run' = NoRun \/ Goto("find")
      BY <1>11, <1>p, <3>1, GoOK, EndOK DEF Match, At, foundry
    <3>2. CASE run' = [run EXCEPT !.pc = "matchLatest", !.version = run.route] /\ run.route # None
      <4>1. run.route \in (DOMAIN versions') \cap Versions /\ UNCHANGED versions
        BY <1>11, <1>n, <3>2 DEF Match, foundry, RunOK
      <4> QED
        BY <1>11, <3>2, <4>1, <1>v DEF Match, At
    <3> QED
      BY <1>11, <3>1, <3>2 DEF Match, End
  <2>3. ReceiptOK'
    BY <1>11 DEF Match, ReceiptOK
  <2> QED
    BY <2>1, <2>2, <2>3
<1>12. CASE MatchLatest
  <2>e. EndWith("published", run.version) => run' = NoRun /\ ReceiptOK'
    BY <1>12, <1>r, <1>n, EndingWith DEF MatchLatest, At, RunOK, Referring
  <2>1. WorldOK'
    BY <1>12 DEF MatchLatest, WorldOK, foundry
  <2>2. RunOK'
    BY <1>12, <1>p, <2>e, GoOK, EndOK DEF MatchLatest, At, End, foundry
  <2>3. ReceiptOK'
    BY <1>12, <2>e DEF MatchLatest, ReceiptOK
  <2> QED
    BY <2>1, <2>2, <2>3
<1>13. CASE Find
  <2>1. WorldOK'
    BY <1>13 DEF Find, WorldOK, foundry
  <2>2. RunOK'
    <3>1. CASE run' = NoRun \/ Goto("post")
      BY <1>13, <1>p, <3>1, GoOK, EndOK DEF Find, At, foundry
    <3>2. ASSUME NEW v \in Releases, run' = [run EXCEPT !.pc = "confirmActive", !.version = v]
          PROVE  RunOK'
      <4>1. v \in (DOMAIN versions') \cap Versions /\ UNCHANGED versions
        BY <1>13, <1>n DEF Find, foundry, Releases
      <4> QED
        BY <1>13, <3>2, <4>1, <1>v DEF Find, At
    <3> QED
      BY <1>13, <3>1, <3>2 DEF Find, End
  <2>3. ReceiptOK'
    BY <1>13 DEF Find, ReceiptOK
  <2> QED
    BY <2>1, <2>2, <2>3
<1>15. CASE FindAgain
  <2>1. WorldOK'
    BY <1>15 DEF FindAgain, WorldOK, foundry
  <2>2. RunOK'
    <3>1. CASE run' = NoRun \/ Goto("post")
      BY <1>15, <1>p, <3>1, GoOK, EndOK DEF FindAgain, At, foundry
    <3>2. ASSUME NEW v \in Releases, run' = [run EXCEPT !.pc = "confirmActive", !.version = v]
          PROVE  RunOK'
      <4>1. v \in (DOMAIN versions') \cap Versions /\ UNCHANGED versions
        BY <1>15, <1>n DEF FindAgain, foundry, Releases
      <4> QED
        BY <1>15, <3>2, <4>1, <1>v DEF FindAgain, At
    <3> QED
      BY <1>15, <3>1, <3>2 DEF FindAgain, End
  <2>3. ReceiptOK'
    BY <1>15 DEF FindAgain, ReceiptOK
  <2> QED
    BY <2>1, <2>2, <2>3
<1>14. CASE Post
  <2>c. /\ versions' \in Seq(Version) /\ Len(versions') <= MaxVersion
        /\ Len(versions') \in (DOMAIN versions') \cap Versions
        /\ DOMAIN versions \subseteq DOMAIN versions'
    BY <1>14, <1>c DEF Post, WorldOK, RunOK, At
  <2>1. WorldOK'
    BY <1>14, <2>c DEF Post, WorldOK
  <2>2. RunOK'
    <3>1. run' = [run EXCEPT !.pc = "confirmActive", !.version = Len(versions')]
      BY <1>14 DEF Post
    <3> QED
      BY <1>14, <2>c, <3>1, <1>v DEF Post, At
  <2>3. ReceiptOK'
    BY <1>14 DEF Post, ReceiptOK
  <2> QED
    BY <2>1, <2>2, <2>3
<1>16. CASE ConfirmActive
  <2>e. EndWith("unconfirmed", run.version) => run' = NoRun /\ ReceiptOK'
    BY <1>16, <1>r, <1>n, EndingWith DEF ConfirmActive, At, RunOK, Referring
  <2>1. WorldOK'
    BY <1>16 DEF ConfirmActive, WorldOK, foundry
  <2>2. RunOK'
    <3>1. CASE Goto("confirmLatest")
      BY <1>16, <3>1, Going DEF ConfirmActive, At, RunOK, Referring, Pcs, foundry
    <3> QED
      BY <1>16, <2>e, <3>1, EndOK DEF ConfirmActive
  <2>3. ReceiptOK'
    BY <1>16, <2>e DEF ConfirmActive, ReceiptOK
  <2> QED
    BY <2>1, <2>2, <2>3
<1>17. CASE ConfirmLatest
  <2>e. ASSUME NEW s \in {"published", "unconfirmed"}, EndWith(s, run.version)
        PROVE  run' = NoRun /\ ReceiptOK'
    BY <1>17, <2>e, <1>r, <1>n, EndingWith DEF ConfirmLatest, At, RunOK, Referring
  <2>1. WorldOK'
    BY <1>17 DEF ConfirmLatest, WorldOK, foundry
  <2>2. RunOK'
    BY <1>17, <2>e, EndOK DEF ConfirmLatest
  <2>3. ReceiptOK'
    BY <1>17, <2>e DEF ConfirmLatest
  <2> QED
    BY <2>1, <2>2, <2>3
<1>18. CASE CreateRegular
  <2>c. /\ versions' \in Seq(Version) /\ Len(versions') <= MaxVersion
        /\ Len(versions') \in (DOMAIN versions') \cap Versions
        /\ DOMAIN versions \subseteq DOMAIN versions'
    BY <1>18, <1>c DEF CreateRegular, WorldOK, RunOK, At
  <2>1. WorldOK'
    BY <1>18, <1>f, <2>c DEF CreateRegular, WorldOK
  <2>2. RunOK'
    <3>1. run' = [run EXCEPT !.pc = "cleanup", !.failure = "error", !.version = Len(versions')]
      BY <1>18 DEF CreateRegular
    <3>2. /\ run' \in Run /\ run'.pc = "cleanup" /\ run'.route = run.route
          /\ run'.commit = run.commit /\ run'.version = Len(versions')
      BY <2>c, <3>1 DEF RunOK, Run, Pcs
    <3> QED
      BY <1>18, <2>c, <3>2 DEF CreateRegular, At, RunOK
  <2>3. ReceiptOK'
    BY <1>18 DEF CreateRegular, ReceiptOK
  <2> QED
    BY <2>1, <2>2, <2>3
<1>19. CASE CleanupFails
  <2>1. WorldOK'
    BY <1>19, <1>f DEF CleanupFails, WorldOK
  <2>2. RunOK'
    BY <1>19, EndOK DEF CleanupFails, End
  <2>3. ReceiptOK'
    BY <1>19 DEF CleanupFails, ReceiptOK
  <2> QED
    BY <2>1, <2>2, <2>3
<1>20. CASE PostFails
  <2>c. /\ versions' \in Seq(Version) /\ Len(versions') <= MaxVersion
        /\ DOMAIN versions \subseteq DOMAIN versions'
    <3>1. CASE UNCHANGED versions
      BY <3>1 DEF WorldOK
    <3>2. CASE Created(run.commit, "creating")
      BY <1>20, <3>2, <1>c DEF PostFails, RunOK, At
    <3> QED
      BY <1>20, <3>1, <3>2 DEF PostFails
  <2>1. WorldOK'
    BY <1>20, <1>f, <2>c DEF PostFails, WorldOK
  <2>2. RunOK'
    BY <1>20, <1>p, <2>c, GoOK, EndOK DEF PostFails, At, End
  <2>3. ReceiptOK'
    BY <1>20 DEF PostFails, ReceiptOK
  <2> QED
    BY <2>1, <2>2, <2>3
<1>21. CASE CallFails
  <2>e. run.pc \in {"confirmActive", "confirmLatest"} /\ EndWith("unconfirmed", run.version)
          => run' = NoRun /\ ReceiptOK'
    BY <1>r, <1>n, EndingWith DEF At, RunOK, Referring
  <2>1. WorldOK'
    BY <1>21, <1>f DEF CallFails, WorldOK, foundry
  <2>2. RunOK'
    <3>1. CASE run' = [run EXCEPT !.pc = "cleanup", !.failure = "error"] /\ run.pc \in {"proveDraft", "evaluate"}
      <4>1. /\ run' \in Run /\ run'.pc = "cleanup" /\ run'.route = run.route
            /\ run'.commit = run.commit /\ run'.version = run.version
        BY <1>p, <3>1 DEF RunOK, Run
      <4> QED
        BY <1>21, <3>1, <4>1 DEF CallFails, RunOK, Referring, foundry
    <3> QED
      BY <1>21, <2>e, <3>1, EndOK DEF CallFails, End
  <2>3. ReceiptOK'
    BY <1>21, <2>e DEF CallFails, ReceiptOK
  <2> QED
    BY <2>1, <2>2, <2>3
<1>22. CASE Crash
  <2>1. WorldOK'
    BY <1>22, <1>f DEF Crash, WorldOK
  <2>2. RunOK'
    BY <1>22, EndOK DEF Crash, End
  <2>3. ReceiptOK'
    BY <1>22 DEF Crash, ReceiptOK
  <2> QED
    BY <2>1, <2>2, <2>3
<1>23. CASE Advance
  <2>1. WorldOK'
    BY <1>23 DEF Advance, WorldOK, foundry
  <2>2. RunOK'
    BY <1>23 DEF Advance, RunOK, foundry
  <2>3. ReceiptOK'
    BY <1>23 DEF Advance, ReceiptOK
  <2> QED
    BY <2>1, <2>2, <2>3
<1>24. CASE Activate \/ Fail
  <2>0. versions' \in Seq(Version) /\ Len(versions') = Len(versions)
        /\ DOMAIN versions' = DOMAIN versions
    BY <1>24, StatusChange DEF Activate, Fail, Settled, WorldOK
  <2>1. WorldOK'
    BY <1>24, <2>0, <1>f DEF Activate, Fail, Settled, WorldOK
  <2>2. RunOK'
    BY <1>24, <2>0 DEF Activate, Fail, Settled, RunOK
  <2>3. ReceiptOK'
    BY <1>24 DEF Activate, Fail, Settled, ReceiptOK
  <2> QED
    BY <2>1, <2>2, <2>3
<1>25. CASE Promote
  <2>1. WorldOK'
    BY <1>25 DEF Promote, WorldOK, foundry
  <2>2. RunOK'
    BY <1>25 DEF Promote, RunOK, foundry
  <2>3. ReceiptOK'
    BY <1>25 DEF Promote, ReceiptOK
  <2> QED
    BY <2>1, <2>2, <2>3
<1>26. CASE Pin
  <2>1. WorldOK'
    BY <1>26 DEF Pin, WorldOK, foundry
  <2>2. RunOK'
    BY <1>26 DEF Pin, RunOK, foundry
  <2>3. ReceiptOK'
    BY <1>26 DEF Pin, ReceiptOK
  <2> QED
    BY <2>1, <2>2, <2>3
<1>27. CASE PublishOther
  <2>c. /\ versions' \in Seq(Version) /\ Len(versions') <= MaxVersion
        /\ Len(versions') \in (DOMAIN versions') \cap Versions
        /\ DOMAIN versions \subseteq DOMAIN versions'
    BY <1>27, <1>c DEF PublishOther, WorldOK, RunOK, At
  <2>1. WorldOK'
    BY <1>27, <2>c DEF PublishOther, WorldOK
  <2>2. RunOK'
    BY <1>27, <2>c DEF PublishOther, RunOK
  <2>3. ReceiptOK'
    BY <1>27 DEF PublishOther, ReceiptOK
  <2> QED
    BY <2>1, <2>2, <2>3
<1>28. CASE UNCHANGED vars
  <2>1. WorldOK'
    BY <1>28 DEF vars, WorldOK, foundry
  <2>2. RunOK'
    BY <1>28 DEF vars, RunOK, foundry
  <2>3. ReceiptOK'
    BY <1>28 DEF vars, ReceiptOK
  <2> QED
    BY <2>1, <2>2, <2>3
<1> QED
  BY <1>1, <1>2, <1>3, <1>4, <1>5, <1>6, <1>7, <1>8, <1>9, <1>10, <1>11, <1>12,
     <1>13, <1>14, <1>15, <1>16, <1>17, <1>18, <1>19, <1>20, <1>21, <1>22, <1>23,
     <1>24, <1>25, <1>26, <1>27, <1>28
  DEF Next, Verification, Publication, Faults

-----------------------------------------------------------------------------
(* The releases, and what a run knows of them.                             *)

LEMMA CommitNumbers == \A c \in Commits \cup {None} : c \in Nat
  BY CommitsAssumption DEF None

SameReleases ==
    /\ Releases' = Releases
    /\ \A v \in Releases :
         /\ versions'[v].commit = versions[v].commit
         /\ versions'[v].status = "deleted" => versions[v].status = "deleted"

NewRelease ==
    /\ Releases' = Releases \cup {Len(versions')}
    /\ \A v \in Releases : v < Len(versions') /\ versions'[v] = versions[v]
    /\ Len(versions') \in Versions
    /\ versions'[Len(versions')] = [commit |-> run.commit, status |-> "creating"]

\* Only the request of a publication changes the releases, by one more.
LEMMA ReleaseStep ==
    ASSUME TypeOK, CleanupFits, [Next]_vars
    PROVE  \/ SameReleases
           \/ At("post") /\ (Post \/ PostFails) /\ NewRelease
<1>n. /\ DOMAIN versions = 1..Len(versions) /\ DOMAIN versions \subseteq Versions
      /\ None \notin DOMAIN versions /\ Len(versions) \in Nat
      /\ versions \in Seq(Version) /\ Len(versions) <= MaxVersion
  BY TypeParts, Numbers DEF TypeOK
<1>1. CASE UNCHANGED versions
  BY <1>1 DEF SameReleases, Releases
<1>2. CASE CreateRegular \/ PublishOther
  <2>1. Created(None, "active")
    BY <1>2 DEF CreateRegular, PublishOther
  <2>2. /\ Len(versions') = Len(versions) + 1 /\ DOMAIN versions' = 1..Len(versions')
        /\ \A v \in DOMAIN versions : versions'[v] = versions[v]
        /\ versions'[Len(versions')] = [commit |-> None, status |-> "active"]
    BY <1>n, <2>1, Creation
  <2>3. DOMAIN versions' = (DOMAIN versions) \cup {Len(versions')}
        /\ versions'[Len(versions')].commit = None
    BY <1>n, <2>2
  <2> QED
    BY <2>2, <2>3 DEF SameReleases, Releases
<1>3. CASE Cleanup
  <2>1. CASE run.version # None
    <3>1. versions' = [versions EXCEPT ![run.version].status = "deleted"]
          /\ run.version \notin Releases
      BY <1>3, <2>1 DEF Cleanup, CleanupFits
    <3>2. /\ DOMAIN versions' = DOMAIN versions
          /\ \A w \in DOMAIN versions :
               /\ versions'[w].commit = versions[w].commit
               /\ w # run.version => versions'[w].status = versions[w].status
      BY <1>n, <3>1, StatusChange
    <3> QED
      BY <3>1, <3>2 DEF SameReleases, Releases
  <2> QED
    BY <1>1, <1>3, <2>1 DEF Cleanup
<1>4. CASE Activate \/ Fail
  <2>1. PICK v \in DOMAIN versions, t \in {"active", "failed"} : Settled(v, t)
    BY <1>4 DEF Activate, Fail
  <2>2. /\ DOMAIN versions' = DOMAIN versions
        /\ \A w \in DOMAIN versions :
             /\ versions'[w].commit = versions[w].commit
             /\ versions'[w].status = "deleted" => versions[w].status = "deleted"
    BY <1>n, <2>1, StatusChange DEF Settled
  <2> QED
    BY <2>2 DEF SameReleases, Releases
<1>5. ASSUME Post \/ PostFails, Created(run.commit, "creating")
      PROVE  At("post") /\ NewRelease
  <2>1. At("post") /\ run.commit \in Commits /\ run.commit # None
    BY <1>5, CommitsAssumption DEF Post, PostFails, At, TypeOK
  <2>2. /\ Len(versions') = Len(versions) + 1 /\ Len(versions') <= MaxVersion
        /\ DOMAIN versions' = 1..Len(versions')
        /\ \A v \in DOMAIN versions : versions'[v] = versions[v]
        /\ versions'[Len(versions')] = [commit |-> run.commit, status |-> "creating"]
    BY <1>n, <1>5, <2>1, Creation
  <2>3. versions'[Len(versions')].commit # None
    BY <2>1, <2>2
  <2>4. Releases' = Releases \cup {Len(versions')}
    BY <1>n, <2>2, <2>3 DEF Releases
  <2>5. Len(versions') \in Versions
    BY <1>n, <2>2, BoundsAssumption DEF Versions
  <2> QED
    BY <1>n, <2>1, <2>2, <2>4, <2>5 DEF NewRelease, Releases
<1> QED
  BY <1>1, <1>2, <1>3, <1>4, <1>5
  DEF Next, Verification, Publication, Faults, Start, Route, CreateDraft, ProveDraft,
      Evaluate, Checks, Skip, RouteAfter, Freshness, Match, MatchLatest, Find, Post,
      FindAgain, ConfirmActive, ConfirmLatest, CleanupFails, PostFails, CallFails,
      Crash, Advance, Promote, Pin, foundry, vars

\* The history: content never changes, the branch only grows.
LEMMA Forward ==
    ASSUME TypeOK, [Next]_vars
    PROVE  content' = content /\ tip' >= tip /\ tip \in Nat /\ tip' \in Nat
<1>1. tip \in Nat
  BY CommitsAssumption DEF TypeOK
<1>2. CASE Advance
  BY <1>1, <1>2 DEF Advance
<1>3. CASE UNCHANGED <<content, tip>>
  BY <1>1, <1>3
<1> QED
  BY <1>2, <1>3
  DEF Next, Verification, Publication, Faults, Start, Route, CreateDraft, ProveDraft,
      Evaluate, Checks, Skip, RouteAfter, Freshness, Match, MatchLatest, Find, Post,
      FindAgain, ConfirmActive, ConfirmLatest, CleanupFails, PostFails, CallFails,
      Crash, Promote, Pin, foundry, vars, CreateRegular, PublishOther,
      Activate, Fail, Settled, Cleanup

RunFits ==
    CleanupFits /\ EvidenceFits /\ OrderFits /\ ConfirmFits /\ CleanedBeforeGoingOn

\* The branch, Foundry and the owner leave a run what it relies on.
LEMMA WorldKeepsRun ==
    ASSUME TypeOK, RunFits, [Next]_vars, SameReleases, UNCHANGED <<run, draft, verified>>
    PROVE  RunFits'
<1>1. content' = content /\ tip' >= tip /\ tip \in Nat /\ tip' \in Nat
  BY Forward
<1>2. run.commit \in Nat
  <2>1. run \in Run
    BY DEF TypeOK
  <2>2. run.commit \in Commits \cup {None}
    BY <2>1 DEF Run
  <2> QED
    BY <2>2, CommitNumbers
<1>3. CleanupFits'
  BY DEF RunFits, CleanupFits, SameReleases, At
<1>4. EvidenceFits'
  BY <1>1, <1>2 DEF RunFits, EvidenceFits, At
<1>5. OrderFits'
  BY DEF RunFits, OrderFits, SameReleases, At
<1>6. ConfirmFits'
  BY <1>1 DEF RunFits, ConfirmFits, SameReleases, Matching
<1>7. CleanedBeforeGoingOn'
  BY DEF RunFits, CleanedBeforeGoingOn
<1> QED
  BY <1>3, <1>4, <1>5, <1>6, <1>7 DEF RunFits

LEMMA NoRunFits ==
    ASSUME run' = NoRun, ~draft'
    PROVE  RunFits'
BY Ending DEF RunFits, CleanupFits, EvidenceFits, OrderFits, ConfirmFits,
     CleanedBeforeGoingOn, At, Publishing

\* A step of the run that leaves it where it needs nothing of the releases.
LEMMA RunGoesOn ==
    ASSUME TypeOK, RunFits, NEW pc \in Pcs, Goto(pc),
           pc \notin Referring \cup {"match", "find", "post", "route", "createDraft"},
           pc = "evaluate" => At("proveDraft"),
           pc = "proveDraft" => run.version = None,
           pc = "cleanup" => At("evaluate"),
           pc = "cleanup" /\ run.failure = "none" /\ run.publishes => run.commit \in verified',
           pc = "routeAfter" /\ run.publishes => run.commit \in verified',
           pc \in Publishing => run.publishes /\ run.commit \in verified',
           UNCHANGED <<tip, versions>>,
           draft' => pc \in {"proveDraft", "evaluate", "cleanup"}
    PROVE  RunFits'
<1>1. /\ run'.pc = pc /\ run'.commit = run.commit /\ run'.publishes = run.publishes
      /\ run'.version = run.version /\ run'.failure = run.failure
  BY Going DEF TypeOK
<1>2. At("proveDraft") \/ At("evaluate") => run.version = None
  BY DEF RunFits, CleanupFits, At
<1>n. None \notin Releases
  BY TypeParts, Numbers DEF Releases
<1>3. CleanupFits'
  <2>1. run'.pc = "cleanup" => run'.version = None
    BY <1>1, <1>2
  <2>2. run'.pc \in {"route", "createDraft", "proveDraft", "evaluate"} =>
          run'.version = None
    BY <1>1, <1>2
  <2>3. Releases' = Releases
    BY DEF Releases
  <2> QED
    BY <1>n, <2>1, <2>2, <2>3 DEF CleanupFits, At
<1>4. EvidenceFits'
  BY <1>1 DEF EvidenceFits, RunFits, At
<1>5. OrderFits' /\ ConfirmFits' /\ CleanedBeforeGoingOn'
  BY <1>1 DEF OrderFits, ConfirmFits, CleanedBeforeGoingOn, At, Referring
<1> QED
  BY <1>3, <1>4, <1>5 DEF RunFits

LEMMA RunStep ==
    ASSUME TypeOK, ReleasesFit, RunFits, [Next]_vars
    PROVE  RunFits'
<1>t. /\ run \in Run /\ None \notin Releases
      /\ \A v \in Releases : versions[v].commit \in Nat
  <2>1. \A v \in Releases : versions[v] \in Version
    BY DEF TypeOK, Releases
  <2>2. \A v \in Releases : versions[v].commit \in Commits \cup {None}
    BY <2>1 DEF Version
  <2> QED
    BY <2>2, TypeParts, Numbers, CommitNumbers DEF TypeOK, Releases
<1>n. run.commit \in Nat /\ tip \in Nat
  BY <1>t, CommitNumbers DEF TypeOK, Run
<1>d. draft => run.pc \in {"proveDraft", "evaluate", "cleanup"}
  BY DEF RunFits, CleanedBeforeGoingOn
<1>p. Pcs = {"idle", "route", "createDraft", "proveDraft", "evaluate", "cleanup",
             "checks", "skip", "routeAfter", "freshness"} \cup Publishing
  BY DEF Pcs, Publishing
<1>f. run.failure \in {"none", "blocked", "error"}
  BY <1>t DEF Run
\* The cases that only move the pc, or end the run.
<1>e. ASSUME run' = NoRun, ~draft' PROVE RunFits'
  BY <1>e, NoRunFits
\* The cases that go on publishing.
<1>g. ASSUME run.pc \in Publishing, run'.pc \in Publishing,
             run'.commit = run.commit, run'.publishes = run.publishes,
             UNCHANGED <<tip, draft, verified>>, OrderFits', ConfirmFits'
      PROVE  RunFits'
  BY <1>d, <1>g DEF RunFits, CleanupFits, EvidenceFits, CleanedBeforeGoingOn, At,
     Publishing
<1>1. ASSUME NEW c \in Commits, NEW p \in BOOLEAN, Start(c, p) PROVE RunFits'
  <2>1. /\ run'.pc = "route" /\ run'.commit = c /\ run'.publishes = p
        /\ run'.version = None /\ draft' = draft /\ tip' = tip /\ At("idle")
    BY <1>1 DEF Start, NoRun, foundry
  <2> QED
    BY <1>1, <1>d, <2>1 DEF Start, RunFits, CleanupFits, EvidenceFits, OrderFits,
       ConfirmFits, CleanedBeforeGoingOn, At, Publishing
<1>2. CASE Route
  <2>1. CASE run' = NoRun
    BY <1>2, <1>d, <1>e, <2>1 DEF Route, At, foundry
  <2>2. ASSUME NEW pc \in {"createDraft", "checks", "skip"},
               run' = [run EXCEPT !.route = latest, !.pc = pc]
        PROVE  RunFits'
    <3>1. /\ run'.pc = pc /\ run'.commit = run.commit /\ run'.publishes = run.publishes
          /\ run'.version = run.version
      BY <1>t, <2>2 DEF Run
    <3> QED
      BY <1>2, <1>d, <3>1 DEF Route, RunFits, CleanupFits, EvidenceFits, OrderFits,
         ConfirmFits, CleanedBeforeGoingOn, At, Publishing, foundry
  <2> QED
    BY <1>2, <2>1, <2>2, ModesAssumption DEF Route, End, TypeOK, Modes
<1>3. CASE CreateDraft
  <2>1. run.version = None
    BY <1>3 DEF CreateDraft, RunFits, CleanupFits, At
  <2> QED
    BY <1>3, <1>p, <2>1, RunGoesOn DEF CreateDraft, Referring, Publishing
<1>4. CASE ProveDraft
  BY <1>4, <1>p, RunGoesOn DEF ProveDraft, Referring, Publishing, foundry
<1>5. CASE Evaluate
  <2>1. CASE Goto("cleanup") /\ Passed
    BY <1>5, <1>p, <2>1, RunGoesOn DEF Evaluate, Passed, Referring, Publishing, foundry
  <2>2. CASE run' = [run EXCEPT !.pc = "cleanup", !.failure = "blocked"]
    <3>1. /\ run'.pc = "cleanup" /\ run'.commit = run.commit
          /\ run'.publishes = run.publishes
          /\ run'.version = run.version /\ run'.failure = "blocked"
      BY <1>t, <2>2 DEF Run
    <3>2. run.version = None /\ UNCHANGED <<versions, draft, tip>>
      BY <1>5 DEF Evaluate, RunFits, CleanupFits, At, foundry
    <3> QED
      BY <1>t, <3>1, <3>2 DEF RunFits, CleanupFits, EvidenceFits, OrderFits,
         ConfirmFits, CleanedBeforeGoingOn, At, Publishing, Releases
  <2> QED
    BY <1>5, <2>1, <2>2 DEF Evaluate
<1>6. CASE Cleanup
  <2>1. CASE End
    BY <1>6, <1>e, <2>1 DEF Cleanup, End
  <2>2. CASE Goto("routeAfter") /\ run.failure = "none"
    <3>1. run.publishes => run.commit \in verified
      BY <1>6, <2>2 DEF Cleanup, RunFits, EvidenceFits
    <3>2. /\ run'.pc = "routeAfter" /\ run'.commit = run.commit
          /\ run'.publishes = run.publishes
      BY <1>p, <1>t, <2>2, Going
    <3> QED
      BY <1>6, <3>1, <3>2 DEF Cleanup, RunFits, CleanupFits, EvidenceFits, OrderFits,
         ConfirmFits, CleanedBeforeGoingOn, At, Publishing
  <2> QED
    BY <1>6, <1>f, <2>1, <2>2 DEF Cleanup, AfterCleanup, EndWith
<1>7. CASE Checks \/ Skip
  <2>1. CASE run' = NoRun
    BY <1>7, <1>d, <1>e, <2>1 DEF Checks, Skip, At, foundry
  <2>2. CASE Goto("routeAfter") /\ Passed
    BY <1>7, <1>d, <1>p, <2>2, RunGoesOn
    DEF Checks, Skip, Passed, At, Referring, Publishing, foundry
  <2> QED
    BY <1>7, <2>1, <2>2 DEF Checks, Skip, EndWith, End
<1>8. CASE RouteAfter
  <2>1. CASE run' = NoRun
    BY <1>8, <1>d, <1>e, <2>1 DEF RouteAfter, At, foundry
  <2>2. CASE Goto("freshness") /\ run.publishes
    <3>1. run.commit \in verified
      BY <1>8, <2>2 DEF RouteAfter, RunFits, EvidenceFits
    <3> QED
      BY <1>8, <1>d, <1>p, <2>2, <3>1, RunGoesOn
      DEF RouteAfter, At, Referring, Publishing, foundry
  <2> QED
    BY <1>8, <2>1, <2>2 DEF RouteAfter, End
<1>9. CASE Freshness
  <2>1. CASE run' = NoRun
    BY <1>9, <1>d, <1>e, <2>1 DEF Freshness, At, foundry
  <2>2. CASE Goto("match") /\ tip = run.commit
    <3>1. /\ run'.pc = "match" /\ run'.commit = run.commit
          /\ run'.publishes = run.publishes
      BY <1>p, <1>t, <2>2, Going DEF Publishing
    <3>2. OrderFits' /\ ConfirmFits'
      BY <1>9, <2>2, <3>1 DEF Freshness, foundry, OrderFits, ConfirmFits, At, Releases,
         ReleasesFit
    <3> QED
      BY <1>9, <1>g, <3>1, <3>2 DEF Freshness, foundry, At, Publishing
  <2> QED
    BY <1>9, <2>1, <2>2 DEF Freshness, EndWith, End
<1>10. CASE Match
  <2>1. CASE run' = NoRun
    BY <1>10, <1>d, <1>e, <2>1 DEF Match, At, foundry
  <2>2. CASE Goto("find")
    <3>1. /\ run'.pc = "find" /\ run'.commit = run.commit
          /\ run'.publishes = run.publishes
      BY <1>p, <1>t, <2>2, Going DEF Publishing
    <3>2. OrderFits' /\ ConfirmFits'
      BY <1>10, <3>1 DEF Match, foundry, OrderFits, ConfirmFits, At, Releases, RunFits
    <3> QED
      BY <1>10, <1>g, <3>1, <3>2 DEF Match, foundry, At, Publishing
  <2>3. CASE /\ run' = [run EXCEPT !.pc = "matchLatest", !.version = run.route]
             /\ Matching(run.route)
    <3>1. /\ run'.pc = "matchLatest" /\ run'.commit = run.commit
          /\ run'.publishes = run.publishes /\ run'.version = run.route
      BY <1>t, <2>3 DEF Run
    <3>2. OrderFits' /\ ConfirmFits'
      BY <1>10, <2>3, <3>1 DEF Match, foundry, OrderFits, ConfirmFits, At, Matching,
         Releases
    <3> QED
      BY <1>10, <1>g, <3>1, <3>2 DEF Match, foundry, At, Publishing
  <2> QED
    BY <1>10, <2>1, <2>2, <2>3 DEF Match, End
<1>11. CASE MatchLatest \/ ConfirmLatest
  <2>1. run.pc \in {"matchLatest", "confirmLatest"} /\ draft' = draft
    BY <1>11 DEF MatchLatest, ConfirmLatest, At, foundry
  <2>2. run' = NoRun
    BY <1>11 DEF MatchLatest, ConfirmLatest, EndWith, End
  <2> QED
    BY <1>d, <1>e, <2>1, <2>2
<1>12. CASE Find \/ FindAgain
  <2>1. CASE run' = NoRun
    <3>1. run.pc \in {"find", "findAgain"} /\ draft' = draft
      BY <1>12 DEF Find, FindAgain, At, foundry
    <3> QED
      BY <1>d, <1>e, <2>1, <3>1
  <2>2. CASE Find /\ Goto("post") /\ ReleasesOf(run.commit) = {}
    <3>1. /\ run'.pc = "post" /\ run'.commit = run.commit
          /\ run'.publishes = run.publishes
      BY <1>p, <1>t, <2>2, Going DEF Publishing
    <3>2. \A v \in Releases : versions[v].commit < run.commit
      BY <1>t, <1>n, <2>2 DEF Find, ReleasesOf, RunFits, OrderFits, At
    <3>3. OrderFits' /\ ConfirmFits'
      BY <2>2, <3>1, <3>2 DEF Find, foundry, OrderFits, ConfirmFits, At, Releases
    <3> QED
      BY <1>g, <2>2, <3>1, <3>3 DEF Find, foundry, At, Publishing
  <2>3. ASSUME NEW v \in Releases, Found(v),
               run' = [run EXCEPT !.pc = "confirmActive", !.version = v]
        PROVE  RunFits'
    <3>1. /\ run'.pc = "confirmActive" /\ run'.commit = run.commit
          /\ run'.publishes = run.publishes /\ run'.version = v
      BY <1>t, <2>3 DEF Run
    <3>2. UNCHANGED <<versions, content, tip, draft, verified>>
      BY <1>12 DEF Find, FindAgain, foundry
    <3>3. OrderFits' /\ ConfirmFits'
      BY <2>3, <3>1, <3>2 DEF Found, OrderFits, ConfirmFits, At, Matching, Releases
    <3> QED
      BY <1>12, <1>g, <3>1, <3>2, <3>3 DEF Find, FindAgain, At, Publishing
  <2>4. ASSUME \E v \in Releases :
                 /\ Found(v)
                 /\ run' = [run EXCEPT !.pc = "confirmActive", !.version = v]
        PROVE  RunFits'
    BY <2>3, <2>4
  <2>5. CASE Find
    <3>1. \/ run' = NoRun
          \/ Goto("post") /\ ReleasesOf(run.commit) = {}
          \/ \E v \in Releases :
               /\ Found(v)
               /\ run' = [run EXCEPT !.pc = "confirmActive", !.version = v]
      BY <2>5 DEF Find, End
    <3> QED
      BY <2>1, <2>2, <2>4, <2>5, <3>1
  <2>6. CASE FindAgain
    BY <2>1, <2>4, <2>6 DEF FindAgain, End
  <2> QED
    BY <1>12, <2>5, <2>6
<1>13. CASE Post \/ PostFails
  <2>1. CASE run' = NoRun
    BY <1>13, <1>d, <1>e, <2>1 DEF Post, PostFails, At
  <2>2. CASE PostFails /\ Goto("findAgain")
    <3>1. /\ run'.pc = "findAgain" /\ run'.commit = run.commit
          /\ run'.publishes = run.publishes
      BY <1>p, <1>t, <2>2, Going DEF Publishing
    <3>2. OrderFits' /\ ConfirmFits'
      BY <3>1 DEF OrderFits, ConfirmFits, At
    <3> QED
      BY <1>g, <2>2, <3>1, <3>2 DEF PostFails, At, Publishing
  <2>3. CASE Post
    <3>1. run' = [run EXCEPT !.pc = "confirmActive", !.version = Len(versions')]
      BY <2>3 DEF Post
    <3>2. /\ run'.pc = "confirmActive" /\ run'.commit = run.commit
          /\ run'.publishes = run.publishes /\ run'.version = Len(versions')
      BY <1>t, <3>1 DEF Run
    <3>3. Len(versions') \in Releases' /\ versions'[Len(versions')].commit = run.commit
      <4>1. run.commit \in Commits /\ run.commit # None
        BY <2>3, CommitsAssumption DEF Post, At, TypeOK
      <4> QED
        BY <2>3, <4>1, NewVersion DEF Post
    <3>4. OrderFits' /\ ConfirmFits'
      BY <2>3, <3>2, <3>3 DEF Post, OrderFits, ConfirmFits, At, Matching
    <3> QED
      BY <1>g, <2>3, <3>2, <3>4 DEF Post, At, Publishing
  <2> QED
    BY <1>13, <2>1, <2>2, <2>3 DEF PostFails, End
<1>14. CASE ConfirmActive
  <2>1. CASE run' = NoRun
    BY <1>14, <1>d, <1>e, <2>1 DEF ConfirmActive, At, foundry
  <2>2. CASE Goto("confirmLatest")
    <3>1. /\ run'.pc = "confirmLatest" /\ run'.commit = run.commit
          /\ run'.publishes = run.publishes /\ run'.version = run.version
      BY <1>p, <1>t, <2>2, Going DEF Publishing
    <3>2. OrderFits' /\ ConfirmFits'
      BY <1>14, <3>1 DEF ConfirmActive, foundry, OrderFits, ConfirmFits, At, Matching,
         Releases, RunFits
    <3> QED
      BY <1>14, <1>g, <3>1, <3>2 DEF ConfirmActive, foundry, At, Publishing
  <2> QED
    BY <1>14, <2>1, <2>2 DEF ConfirmActive, EndWith, End
<1>15. CASE CreateRegular
  <2>1. run' = [run EXCEPT !.pc = "cleanup", !.failure = "error", !.version = Len(versions')]
    BY <1>15 DEF CreateRegular
  <2>2. /\ run'.pc = "cleanup" /\ run'.commit = run.commit /\ run'.failure = "error"
        /\ run'.publishes = run.publishes /\ run'.version = Len(versions')
    BY <1>t, <2>1 DEF Run
  <2>3. Len(versions') \notin Releases'
    BY <1>15, NewVersion DEF CreateRegular
  <2> QED
    BY <1>15, <1>d, <2>2, <2>3 DEF CreateRegular, RunFits, CleanupFits, EvidenceFits,
       OrderFits, ConfirmFits, CleanedBeforeGoingOn, At, Publishing
<1>16. CASE CleanupFails \/ Crash
  BY <1>16, <1>e DEF CleanupFails, Crash, End
<1>17. CASE CallFails
  <2>1. CASE run.pc \in {"proveDraft", "evaluate"}
             /\ run' = [run EXCEPT !.pc = "cleanup", !.failure = "error"]
    <3>1. /\ run'.pc = "cleanup" /\ run'.commit = run.commit /\ run'.failure = "error"
          /\ run'.publishes = run.publishes /\ run'.version = run.version
      BY <1>t, <2>1 DEF Run
    <3>2. run.version = None
      BY <2>1 DEF RunFits, CleanupFits
    <3> QED
      BY <1>17, <1>t, <3>1, <3>2 DEF CallFails, RunFits, CleanupFits, EvidenceFits,
         OrderFits, ConfirmFits, CleanedBeforeGoingOn, At, Publishing, Releases, foundry
  <2>2. CASE run' = NoRun /\ run.pc \notin {"proveDraft", "evaluate", "cleanup"}
    BY <1>17, <1>d, <1>e, <2>2 DEF CallFails, foundry
  <2> QED
    BY <1>17, <2>1, <2>2 DEF CallFails, EndWith, End
<1>18. CASE UNCHANGED <<run, draft, verified>> /\ ~At("post")
  BY <1>18, ReleaseStep, WorldKeepsRun DEF RunFits
<1>19. CASE UNCHANGED <<run, draft, verified>> /\ At("post") /\ ~Post /\ ~PostFails
  BY <1>19, ReleaseStep, WorldKeepsRun DEF RunFits
<1> QED
  BY <1>1, <1>2, <1>3, <1>4, <1>5, <1>6, <1>7, <1>8, <1>9, <1>10, <1>11, <1>12,
     <1>13, <1>14, <1>15, <1>16, <1>17, <1>18, <1>19
  DEF Next, Verification, Publication, Faults, Advance, Activate, Fail, Settled,
      Promote, Pin, PublishOther, foundry, vars

-----------------------------------------------------------------------------
(* The receipts, and the invariant.                                        *)

LEMMA ReleasesStep ==
    ASSUME IInv, [Next]_vars
    PROVE  ReleasesFit'
<1>1. /\ TypeOK /\ CleanupFits /\ ReleasesFit
      /\ At("post") => run.commit \in Nat /\ run.commit <= tip
  BY CommitNumbers
  DEF IInv, Fits, EvidenceFits, Publishing, At, TypeOK
<1>2. tip' >= tip /\ tip \in Nat /\ tip' \in Nat
  BY <1>1, Forward
<1>3. \A v \in Releases : versions[v].commit \in Nat
  <2>1. \A v \in Releases : versions[v] \in Version
    BY <1>1 DEF TypeOK, Releases
  <2> QED
    BY <2>1, CommitNumbers DEF Version
<1>4. CASE SameReleases
  BY <1>1, <1>2, <1>3, <1>4 DEF ReleasesFit, SameReleases
<1>5. CASE At("post") /\ NewRelease
  BY <1>1, <1>2, <1>3, <1>5 DEF ReleasesFit, NewRelease
<1> QED
  BY <1>1, <1>4, <1>5, ReleaseStep

LEMMA ReceiptStep ==
    ASSUME IInv, [Next]_vars
    PROVE  ReceiptsAreTrue'
<1>1. /\ TypeOK /\ CleanupFits /\ ReleasesFit /\ ConfirmFits /\ ReceiptsAreTrue
      /\ TypeOK' /\ content' = content
  BY TypeStep, Forward DEF IInv, Fits
<1>2. /\ Releases \subseteq Releases'
      /\ \A v \in Releases : versions'[v].commit = versions[v].commit
      /\ Releases \subseteq Nat
  <2>1. Releases \subseteq Nat
    BY <1>1 DEF TypeOK, Releases
  <2> QED
    BY <1>1, <2>1, ReleaseStep DEF SameReleases, NewRelease
<1>3. latest \in Nat /\ latest' \in Nat
  BY <1>1 DEF TypeOK, None
<1>4. ASSUME NEW c \in Commits, receipt'[c] # receipt[c], receipt'[c].status = "published"
      PROVE  LET v == receipt'[c].version IN
             v \in Releases /\ content[versions[v].commit] = content[c] /\ latest' >= v
  <2>n. /\ {"published", "blocked", "superseded", "unconfirmed"} \subseteq Receipts
        /\ run.pc \in Referring => run.version \in Versions
        /\ None \in Versions \cup {None}
    BY <1>1, TypeParts, Numbers DEF RunOK, Receipts
  <2>1. CASE (Cleanup \/ Checks) /\ EndWith("blocked", None)
    BY <1>1, <1>4, <2>1, <2>n, EndingWith DEF Cleanup, Checks, At
  <2>2. CASE Freshness /\ EndWith("superseded", None)
    BY <1>1, <1>4, <2>2, <2>n, EndingWith DEF Freshness, At
  <2>3. CASE /\ run.pc \in {"confirmActive", "confirmLatest"}
             /\ EndWith("unconfirmed", run.version)
    BY <1>1, <1>4, <2>3, <2>n, EndingWith DEF At, Referring
  <2>4. CASE /\ run.pc \in {"matchLatest", "confirmLatest"} /\ latest = run.version
             /\ EndWith("published", run.version) /\ UNCHANGED latest
    <3>1. /\ c = run.commit /\ receipt'[c].version = run.version
      BY <1>1, <1>4, <2>4, <2>n, EndingWith DEF At, Referring
    <3>2. Matching(run.version)
      BY <1>1, <2>4 DEF ConfirmFits
    <3> QED
      BY <1>3, <2>4, <3>1, <3>2 DEF Matching
  <2>5. CASE UNCHANGED receipt
    BY <1>4, <2>5
  <2>6. CASE MatchLatest
    BY <2>4, <2>5, <2>6 DEF MatchLatest, At, foundry
  <2>7. CASE ConfirmLatest
    <3>1. CASE ~pinned /\ latest = run.version
      BY <2>4, <2>7, <3>1 DEF ConfirmLatest, At, foundry
    <3>2. CASE ~(~pinned /\ latest = run.version)
      BY <2>3, <2>7, <3>2 DEF ConfirmLatest, At
    <3> QED
      BY <3>1, <3>2
  <2>8. CASE Cleanup
    <3>1. run.failure \in {"none", "blocked", "error"}
      BY <1>1 DEF TypeOK, Run
    <3> QED
      BY <2>1, <2>5, <2>8, <3>1 DEF Cleanup, AfterCleanup
  <2>9. CASE Checks
    BY <2>1, <2>5, <2>9 DEF Checks
  <2>10. CASE Freshness
    BY <2>2, <2>5, <2>10 DEF Freshness
  <2>11. CASE ConfirmActive
    BY <2>3, <2>5, <2>11 DEF ConfirmActive, At
  <2>12. CASE CallFails
    BY <2>3, <2>5, <2>12 DEF CallFails
  <2> QED
    BY <2>5, <2>6, <2>7, <2>8, <2>9, <2>10, <2>11, <2>12
    DEF Next, Verification, Publication, Faults, Start, Route, CreateDraft, ProveDraft,
        Evaluate, Skip, RouteAfter, Match, Find, Post, FindAgain, CreateRegular,
        CleanupFails, PostFails, Crash, Advance, Activate, Fail, Settled, Promote, Pin,
        PublishOther, vars
<1>5. ASSUME NEW c \in Commits, receipt'[c] = receipt[c], receipt'[c].status = "published"
      PROVE  LET v == receipt'[c].version IN
             v \in Releases /\ content[versions[v].commit] = content[c] /\ latest' >= v
  <2> DEFINE v == receipt'[c].version
  <2>1. /\ v \in Releases /\ content[versions[v].commit] = content[c] /\ latest >= v
        /\ versions[v].status # "deleted" /\ v \in DOMAIN versions
    BY <1>1, <1>5 DEF ReceiptsAreTrue, ReleasesFit, Releases
  <2>2. CASE Promote
    BY <2>1, <2>2 DEF Promote, Newest
  <2>3. CASE UNCHANGED latest
    BY <2>1, <2>3
  <2>4. Promote \/ UNCHANGED latest
    BY DEF Next, Verification, Publication, Faults, Start, Route, CreateDraft,
       ProveDraft, Evaluate, Cleanup, Checks, Skip, RouteAfter, Freshness, Match,
       MatchLatest, Find, Post, FindAgain, ConfirmActive, ConfirmLatest, CreateRegular,
       CleanupFails, PostFails, CallFails, Crash, Advance, Activate, Fail, Settled, Pin,
       PublishOther, foundry, vars
  <2> QED
    BY <2>1, <2>2, <2>3, <2>4
<1> QED
  BY <1>1, <1>2, <1>4, <1>5 DEF ReceiptsAreTrue

\* What the owner deployed before is no release.
LEMMA NoReleaseYet == Init => Releases = {}
<1> SUFFICES ASSUME Init PROVE Releases = {}
  OBVIOUS
<1>1. CASE versions = <<>>
  BY <1>1 DEF Releases
<1>2. CASE versions = <<Other>>
  <2>1. DOMAIN versions = {1} /\ versions[1].commit = None
    BY <1>2 DEF Other
  <2> QED
    BY <2>1 DEF Releases
<1> QED
  BY <1>1, <1>2 DEF Init

LEMMA InvInit == Init => IInv
<1> SUFFICES ASSUME Init PROVE IInv
  OBVIOUS
<1>1. TypeOK
  BY TypeInit
<1>2. Releases = {} /\ At("idle") /\ run.publishes = FALSE /\ draft = FALSE
      /\ \A c \in Commits : receipt[c].status = "none"
  BY NoReleaseYet DEF Init, NoRun, At
<1>3. Fits
  BY <1>2 DEF Fits, ReleasesFit, CleanupFits, EvidenceFits, OrderFits, ConfirmFits,
     CleanedBeforeGoingOn, ReceiptsAreTrue, At, Publishing
<1> QED
  BY <1>1, <1>3 DEF IInv

LEMMA InvStep == IInv /\ [Next]_vars => IInv'
BY TypeStep, RunStep, ReleasesStep, ReceiptStep DEF IInv, Fits, RunFits

THEOREM Invariance == Spec => []IInv
<1>1. Init => IInv
  BY InvInit
<1>2. IInv /\ [Next]_vars => IInv'
  BY InvStep
<1> QED
  BY <1>1, <1>2, PTL DEF Spec

\* The types of the state, and that a run which refers to a version refers to
\* one that Foundry has created.
THEOREM TypeCorrect == Spec => []TypeOK
<1>1. IInv => TypeOK
  BY DEF IInv
<1> QED
  BY <1>1, Invariance, PTL

\* "published" in a receipt is the truth about the version it names.
THEOREM ReceiptsTrue == Spec => []ReceiptsAreTrue
<1>1. IInv => ReceiptsAreTrue
  BY DEF IInv, Fits
<1> QED
  BY <1>1, Invariance, PTL

\* No run gets past its verification, or writes a receipt, with its draft left.
THEOREM CleanedFirst == Spec => []CleanedBeforeGoingOn
<1>1. IInv => CleanedBeforeGoingOn
  BY DEF IInv, Fits
<1> QED
  BY <1>1, Invariance, PTL

-----------------------------------------------------------------------------
(* Deployment implements ReleaseLog.                                       *)

released == {[commit |-> versions[v].commit, version |-> v] : v \in Releases}

LEMMA LogInit == Init => Log!Init
<1> SUFFICES ASSUME Init PROVE Log!Init
  OBVIOUS
<1>1. Releases = {} /\ verified = {}
  BY NoReleaseYet DEF Init
<1> QED
  BY <1>1 DEF Log!Init

LEMMA LogStep == IInv /\ [Next]_vars => [Log!Next]_(Log!vars)
<1> SUFFICES ASSUME IInv, [Next]_vars PROVE [Log!Next]_(Log!vars)
  OBVIOUS
<1>1. /\ TypeOK /\ CleanupFits /\ OrderFits
      /\ At("post") => run.commit \in verified /\ run.commit \in Commits
  BY DEF IInv, Fits, EvidenceFits, Publishing, At, TypeOK
<1>2. CASE SameReleases
  <2>1. released' = released
    BY <1>2 DEF released, SameReleases
  <2>2. verified' = verified \/ \E c \in Commits : verified' = verified \cup {c}
    <3>1. CASE Passed /\ run.commit \in Commits
      BY <3>1 DEF Passed
    <3>2. ~At("idle") => run.commit \in Commits
      BY <1>1 DEF TypeOK, At
    <3> QED
      BY <3>1, <3>2
      DEF Next, Verification, Publication, Faults, Start, Route, CreateDraft,
         ProveDraft, Evaluate, Cleanup, Checks, Skip, RouteAfter, Freshness, Match,
         MatchLatest, Find, Post, FindAgain, ConfirmActive, ConfirmLatest,
         CreateRegular, CleanupFails, PostFails, CallFails, Crash, Advance, Activate,
         Fail, Settled, Promote, Pin, PublishOther, vars, At
  <2>3. verified' = verified => UNCHANGED Log!vars
    BY <2>1 DEF Log!vars, released
  <2>4. ASSUME NEW c \in Commits, verified' = verified \cup {c}
        PROVE  Log!Next
    <3>1. Log!Verify(c)
      BY <2>1, <2>4 DEF Log!Verify, released
    <3> QED
      BY <3>1 DEF Log!Next
  <2>5. Log!Next \/ UNCHANGED Log!vars
    BY <2>2, <2>3, <2>4
  <2> QED
    BY <2>5
<1>3. CASE At("post") /\ (Post \/ PostFails) /\ NewRelease
  <2> DEFINE commit == run.commit
             number == Len(versions')
  <2>1. released' = released \cup {[commit |-> commit, version |-> number]}
    BY <1>3 DEF released, NewRelease
  <2>2. \A r \in released : r.commit < commit /\ r.version < number
    BY <1>1, <1>3 DEF released, NewRelease, OrderFits
  <2>3. UNCHANGED verified
    BY <1>3 DEF Post, PostFails
  <2>4. commit \in verified /\ commit \in Commits /\ number \in Versions
    BY <1>1, <1>3 DEF NewRelease
  <2>5. \E k \in Commits, n \in Versions :
          /\ k \in verified
          /\ \A r \in released : r.commit < k /\ r.version < n
          /\ released' = released \cup {[commit |-> k, version |-> n]}
          /\ UNCHANGED verified
    BY <2>1, <2>2, <2>3, <2>4
  <2>6. Log!Next
    BY <2>5 DEF Log!Next, Log!Release, released
  <2> QED
    BY <2>6
<1> QED
  BY <1>1, <1>2, <1>3, ReleaseStep

\* Registered deployment implements ReleaseLog: one regular version at most for
\* a commit, verified, and in the order of the branch.
THEOREM LogKept == Spec => KeepsReleaseLog
<1>1. Init => Log!Init
  BY LogInit
<1>2. IInv /\ [Next]_vars => [Log!Next]_(Log!vars)
  BY LogStep
<1> QED
  BY <1>1, <1>2, Invariance, PTL DEF Spec, KeepsReleaseLog, Log!Spec
=============================================================================

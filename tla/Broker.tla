------------------------------- MODULE Broker -------------------------------
(***************************************************************************)
(* The GitHub broker of a session (UnixSocketBrokerServer and              *)
(* GitHubRestBackend, poc/github.py) and the commands that ask it through  *)
(* its socket (BrokerIssueComments, BrokerClosure, poc/runtime.py, and     *)
(* broker bind-pr, cli.py).                                                *)
(*                                                                         *)
(* The broker serves one connection at a time.  Between two of its         *)
(* requests to GitHub people comment, and open, merge, close and reopen    *)
(* pull requests; a command may give up or die while the broker works.     *)
(* Comments are not deleted, and a request to GitHub that failed has taken *)
(* effect by then or never will.                                           *)
(***************************************************************************)
EXTENDS Integers, Sequences, FiniteSets

CONSTANTS
    Kinds,          \* logical kinds of comments
    Bodies,         \* for each kind, what a comment may say
    PullRequests,   \* pull requests of the checkout's branch
    PerPage,        \* COMMENTS_PER_PAGE
    MaxPages,       \* MAX_COMMENT_PAGES
    MaxComments,    \* bound: comments on the issue
    MaxOthers,      \* bound: comments by others
    MaxFaults       \* bound: failed calls, and commands that give up or die

None == 0

ASSUME KindsAssumption == "final" \in Kinds /\ "other" \notin Kinds
ASSUME NumbersAssumption ==
    /\ None \notin PullRequests
    /\ PerPage \in Nat \ {0} /\ MaxPages \in Nat \ {0}
ASSUME BoundsAssumption ==
    /\ MaxComments \in Nat /\ MaxOthers \in Nat
    /\ MaxFaults \in Nat

VARIABLES
    comments,       \* GitHub: the comments of the issue, in their order
    pulls,          \* GitHub: the state of each pull request
    mentions,       \* GitHub: pull requests in the timeline of the issue
    binding,        \* the pull request in the trusted binding file
    broker,         \* the broker process
    job,            \* the request it serves
    queue,          \* connections in their order; the first one is served
    receipts,       \* comment receipts in the sidecar file
    asked,          \* history: kinds asked for since their receipt was stored
    faults

github == <<comments, pulls, mentions>>
vars == <<github, binding, broker, job, queue, receipts, asked, faults>>

Body == UNION {Bodies[k] : k \in Kinds}

\* The marker of a comment gives its kind, "other" is none; what others write
\* may contain a marker, too.
Comment == [kind: Kinds \cup {"other"}, body: Body \cup {None}, own: BOOLEAN]

\* "noWinner": closed by the broker.
PullStates == {"absent", "open", "closed", "noWinner", "merged"}

Connection == [op: {"comment", "bind", "close"},
               kind: Kinds \cup {"other"}, body: Body \cup {None},
               open: BOOLEAN]

Receipt == [at: 1..MaxComments, body: Body]
NoReceipt == [at |-> None, body |-> None]

Pcs == {"accept", "verify", "list", "post", "patch", "mentions",
        "pulls", "verifyBound", "store", "verifyClose", "patchPull", "confirm",
        "reply"}

\* seen: comments listed so far; found: referenced pull requests; at: the
\* comment or pull request at hand; ok: the response carries a receipt.
Job == [pc: Pcs, seen: 0..MaxComments, found: SUBSET PullRequests,
        at: 0..MaxComments \cup PullRequests, ok: BOOLEAN]

NoJob == [pc |-> "accept", seen |-> 0, found |-> {}, at |-> None, ok |-> FALSE]

Init ==
    /\ comments = <<>>
    /\ pulls = [p \in PullRequests |-> "absent"]
    /\ mentions = {}
    /\ binding = None
    /\ broker = "serving"
    /\ job = NoJob
    /\ queue = <<>>
    /\ receipts = [k \in Kinds |-> NoReceipt]
    /\ asked = {}
    /\ faults = 0

-----------------------------------------------------------------------------
(* The commands.                                                           *)

\* A command waits for the broker; the connections before its own were given
\* up.
Waiting == queue # <<>> /\ queue[Len(queue)].open

Fault == faults < MaxFaults /\ faults' = faults + 1

Send(op, kind, body) ==
    /\ broker = "serving"
    /\ ~Waiting
    /\ queue' = Append(queue, [op |-> op, kind |-> kind, body |-> body,
                               open |-> TRUE])
    /\ asked' = IF op = "comment" THEN asked \cup {kind} ELSE asked
    /\ UNCHANGED <<github, binding, broker, job, receipts, faults>>

UpsertComment(kind, body) == Send("comment", kind, body)

SignalNoWinnerUnchecked == Send("close", "other", None)

\* BrokerClosure.signal_no_winner needs the receipt of the final comment.
SignalNoWinner ==
    /\ receipts["final"] # NoReceipt
    /\ Send("close", "other", None)

EnsureBinding == Send("bind", "other", None)

GiveUpUnnoticed ==
    /\ Waiting
    /\ Fault
    /\ queue' = SubSeq(queue, 1, Len(queue) - 1)
    /\ UNCHANGED <<github, binding, broker, job, receipts, asked>>

\* The timeout of the command passes, or it is killed.
GiveUp ==
    /\ Waiting
    /\ Fault
    /\ queue' = [queue EXCEPT ![Len(queue)].open = FALSE]
    /\ UNCHANGED <<github, binding, broker, job, receipts, asked>>

-----------------------------------------------------------------------------
(* The broker.                                                             *)

Request == Head(queue)

At(pc) == broker = "serving" /\ job.pc = pc

Goto(pc) == job' = [job EXCEPT !.pc = pc]

Respond(ok, at) == job' = [NoJob EXCEPT !.pc = "reply", !.ok = ok, !.at = at]

\* An exception leaves serve_forever: the socket is closed and removed, and
\* with it go the connections that wait.
Break ==
    /\ broker' = "broken"
    /\ job' = NoJob
    /\ queue' = <<>>

Accept ==
    /\ At("accept")
    /\ queue # <<>>
    /\ CASE Request.op = "comment" /\ binding # None -> Goto("verify")
         [] Request.op = "comment" /\ binding = None -> Goto("list")
         [] Request.op = "bind" /\ binding # None -> Goto("verifyBound")
         [] Request.op = "bind" /\ binding = None -> Goto("mentions")
         [] Request.op = "close" /\ binding # None -> Goto("verifyClose")
         [] Request.op = "close" /\ binding = None -> Respond(FALSE, None)
    /\ UNCHANGED <<github, binding, broker, queue, receipts, asked, faults>>

\* The command was gone before it had sent its frame.
AcceptNothing ==
    /\ At("accept")
    /\ queue # <<>> /\ ~Request.open
    /\ Break
    /\ UNCHANGED <<github, binding, receipts, asked, faults>>

\* Nobody connects for an hour.
IdleTimeout ==
    /\ At("accept")
    /\ queue = <<>>
    /\ broker' = "idled"
    /\ UNCHANGED <<github, binding, job, queue, receipts, asked, faults>>

\* upsert_issue_comment looks at the pull request first, once there is one.
Verify ==
    /\ At("verify")
    /\ IF pulls[binding] = "merged" THEN Respond(FALSE, None) ELSE Goto("list")
    /\ UNCHANGED <<github, binding, broker, queue, receipts, asked, faults>>

\* What follows from the comments listed: one of others with the marker is
\* refused, and so are two.
Judge(n) ==
    LET matching == {i \in 1..n : comments[i].kind = Request.kind} IN
    CASE matching = {} -> Goto("post")
      [] \E i \in matching : matching # {i} \/ ~comments[i].own ->
           Respond(FALSE, None)
      [] OTHER -> LET i == CHOOSE i \in matching : TRUE IN
                  IF comments[i].body = Request.body THEN Respond(TRUE, i)
                  ELSE job' = [job EXCEPT !.pc = "patch", !.at = i]

ListFirstPage ==
    /\ At("list")
    /\ Judge(IF Len(comments) < PerPage THEN Len(comments) ELSE PerPage)
    /\ UNCHANGED <<github, binding, broker, queue, receipts, asked, faults>>

\* _list_issue_comments: one page.  A full page is followed by another one,
\* and the last page must not be full.
List ==
    /\ At("list")
    /\ IF Len(comments) < job.seen + PerPage THEN Judge(Len(comments))
       ELSE IF job.seen + PerPage = PerPage * MaxPages THEN Respond(FALSE, None)
       ELSE job' = [job EXCEPT !.seen = job.seen + PerPage]
    /\ UNCHANGED <<github, binding, broker, queue, receipts, asked, faults>>

Written(i) ==
    comments' = IF i \in DOMAIN comments
                THEN [comments EXCEPT ![i].body = Request.body]
                ELSE Append(comments, [kind |-> Request.kind,
                                       body |-> Request.body, own |-> TRUE])

Post ==
    /\ At("post")
    /\ Len(comments) < MaxComments
    /\ Written(Len(comments) + 1)
    /\ Respond(TRUE, Len(comments) + 1)
    /\ UNCHANGED <<pulls, mentions, binding, broker, queue, receipts, asked,
                   faults>>

PatchNothing ==
    /\ At("patch")
    /\ Respond(TRUE, job.at)
    /\ UNCHANGED <<github, binding, broker, queue, receipts, asked, faults>>

Patch ==
    /\ At("patch")
    /\ Written(job.at)
    /\ Respond(TRUE, job.at)
    /\ UNCHANGED <<pulls, mentions, binding, broker, queue, receipts, asked,
                   faults>>

\* ensure_pull_request_binding: the pull requests the timeline refers to ...
Mentions ==
    /\ At("mentions")
    /\ job' = [job EXCEPT !.pc = "pulls", !.found = mentions]
    /\ UNCHANGED <<github, binding, broker, queue, receipts, asked, faults>>

\* ... of which exactly one has to be open on the branch.
Pulls ==
    /\ At("pulls")
    /\ LET matches == {p \in job.found : pulls[p] = "open"} IN
       IF \E p \in PullRequests : matches = {p}
       THEN job' = [job EXCEPT !.pc = "store",
                               !.at = CHOOSE p \in PullRequests : matches = {p}]
       ELSE Respond(FALSE, None)
    /\ UNCHANGED <<github, binding, broker, queue, receipts, asked, faults>>

DiscoverAgain ==
    /\ At("verifyBound")
    /\ Goto("mentions")
    /\ UNCHANGED <<github, binding, broker, queue, receipts, asked, faults>>

\* With a binding, that pull request has to be open still.
VerifyBound ==
    /\ At("verifyBound")
    /\ IF pulls[binding] = "open"
       THEN job' = [job EXCEPT !.pc = "store", !.at = binding]
       ELSE Respond(FALSE, None)
    /\ UNCHANGED <<github, binding, broker, queue, receipts, asked, faults>>

\* _write_binding_document
Store ==
    /\ At("store")
    /\ binding' = job.at
    /\ Respond(TRUE, job.at)
    /\ UNCHANGED <<github, broker, queue, receipts, asked, faults>>

\* close_pull_request_no_winner
VerifyClose ==
    /\ At("verifyClose")
    /\ CASE pulls[binding] = "merged" -> Respond(FALSE, None)
         [] pulls[binding] = "open" -> Goto("patchPull")
         [] OTHER -> Respond(TRUE, binding)
    /\ UNCHANGED <<github, binding, broker, queue, receipts, asked, faults>>

ClosedPull ==
    pulls' = IF pulls[binding] = "open"
             THEN [pulls EXCEPT ![binding] = "noWinner"] ELSE pulls

PatchPull ==
    /\ At("patchPull")
    /\ ClosedPull
    /\ Goto("confirm")
    /\ UNCHANGED <<comments, mentions, binding, broker, queue, receipts, asked,
                   faults>>

Confirm ==
    /\ At("confirm")
    /\ IF pulls[binding] \in {"merged", "open"} THEN Respond(FALSE, None)
       ELSE Respond(TRUE, binding)
    /\ UNCHANGED <<github, binding, broker, queue, receipts, asked, faults>>

\* A request to GitHub fails, or the binding file cannot be written; a write
\* may have taken effect.
CallFails ==
    /\ broker = "serving" /\ job.pc \notin {"accept", "reply"}
    /\ Fault
    /\ \/ UNCHANGED <<comments, pulls>>
       \/ At("post") /\ Len(comments) < MaxComments
            /\ Written(Len(comments) + 1) /\ UNCHANGED pulls
       \/ At("patch") /\ Written(job.at) /\ UNCHANGED pulls
       \/ At("patchPull") /\ ClosedPull /\ UNCHANGED comments
    /\ Respond(FALSE, None)
    /\ UNCHANGED <<mentions, binding, broker, queue, receipts, asked>>

Answered ==
    /\ queue' = Tail(queue)
    /\ job' = NoJob
    /\ UNCHANGED broker

\* The command gets its answer and stores the receipt of a comment.
Reply ==
    /\ At("reply")
    /\ Request.open
    /\ Answered
    /\ IF job.ok /\ Request.op = "comment"
       THEN /\ receipts' = [receipts EXCEPT ![Request.kind] =
                              [at |-> job.at, body |-> Request.body]]
            /\ asked' = asked \ {Request.kind}
       ELSE UNCHANGED <<receipts, asked>>
    /\ UNCHANGED <<github, binding, faults>>

\* It dies before it stores the receipt.
ReplyUnheard ==
    /\ At("reply")
    /\ Request.open
    /\ Answered
    /\ Fault
    /\ UNCHANGED <<github, binding, receipts, asked>>

\* It has given up: the write fails, and nothing catches that.
ReplyFails ==
    /\ At("reply")
    /\ ~Request.open
    /\ Break
    /\ UNCHANGED <<github, binding, receipts, asked, faults>>

-----------------------------------------------------------------------------
(* Other people at GitHub.                                                 *)

OtherComment(kind) ==
    /\ Len(comments) < MaxComments
    /\ Cardinality({i \in DOMAIN comments : ~comments[i].own}) < MaxOthers
    /\ comments' = Append(comments,
                          [kind |-> kind, body |-> None, own |-> FALSE])
    /\ UNCHANGED <<pulls, mentions, binding, broker, job, queue, receipts, asked,
                   faults>>

\* Opens, closes, reopens and merges a pull request.
ChangePull(p) ==
    /\ \E change \in {<<"absent", "open">>, <<"open", "closed">>,
                      <<"closed", "open">>, <<"noWinner", "open">>,
                      <<"open", "merged">>} :
         pulls[p] = change[1] /\ pulls' = [pulls EXCEPT ![p] = change[2]]
    /\ UNCHANGED <<comments, mentions, binding, broker, job, queue, receipts,
                   asked, faults>>

Mention(p) ==
    /\ pulls[p] # "absent" /\ p \notin mentions
    /\ mentions' = mentions \cup {p}
    /\ UNCHANGED <<comments, pulls, binding, broker, job, queue, receipts, asked,
                   faults>>

Command ==
    \/ \E k \in Kinds : \E b \in Bodies[k] : UpsertComment(k, b)
    \/ SignalNoWinner \/ EnsureBinding

Serve ==
    \/ Accept \/ Verify \/ List \/ Post \/ Patch
    \/ Mentions \/ Pulls \/ VerifyBound \/ Store
    \/ VerifyClose \/ PatchPull \/ Confirm
    \/ Reply \/ ReplyFails

\* Once the broker has ended nothing is left that they could disturb.
People ==
    /\ broker = "serving"
    /\ \/ \E k \in Kinds \cup {"other"} : OtherComment(k)
       \/ \E p \in PullRequests : ChangePull(p) \/ Mention(p)

Next ==
    \/ Command \/ GiveUp
    \/ Serve \/ AcceptNothing \/ IdleTimeout \/ CallFails \/ ReplyUnheard
    \/ People

Spec == Init /\ [][Next]_vars

\* The broker goes on with what it serves; whatever else it asks for, a job
\* comes back to its final comment as long as it has no receipt of it.
Fairness ==
    /\ WF_vars(Serve)
    /\ \A b \in Bodies["final"] :
         SF_vars(receipts["final"] = NoReceipt /\ UpsertComment("final", b))

FairSpec == Spec /\ Fairness

-----------------------------------------------------------------------------
(* Properties.                                                             *)

TypeOK ==
    /\ comments \in Seq(Comment) /\ Len(comments) <= MaxComments
    /\ pulls \in [PullRequests -> PullStates]
    /\ mentions \subseteq PullRequests
    /\ binding \in PullRequests \cup {None}
    /\ broker \in {"serving", "idled", "broken"}
    /\ job \in Job
    /\ job.pc # "accept" => queue # <<>>
    /\ queue \in Seq(Connection)
    /\ receipts \in [Kinds -> Receipt \cup {NoReceipt}]
    /\ asked \subseteq Kinds
    /\ faults \in 0..MaxFaults

\* The broker keeps the promise of IssueThread, whatever fails, gives up or is
\* asked for again: "upserts redacted issue comments by stable markers",
\* "binds the exact issue and pull request".
Thread == INSTANCE IssueThread WITH
    Places <- 1..MaxComments,
    said <- {[kind |-> comments[i].kind, at |-> i] :
                i \in {i \in DOMAIN comments : comments[i].own}},
    bound <- {binding} \ {None},
    closed <- {p \in PullRequests : pulls[p] = "noWinner"}

KeepsThread == Thread!Spec

\* What a receipt names is the job's comment of that kind; and it says what
\* the receipt says, unless the job has asked for another text since, and got
\* no answer.
ReceiptsHold ==
    \A k \in Kinds : receipts[k] # NoReceipt =>
        LET i == receipts[k].at IN
        /\ i \in DOMAIN comments
        /\ comments[i].own /\ comments[i].kind = k
        /\ k \notin asked => comments[i].body = receipts[k].body

\* Nothing at GitHub is in the way of the final comment: the pull request is
\* not merged, nobody else wrote the marker, the comments fit in their pages.
Clear ==
    /\ binding # None => pulls[binding] # "merged"
    /\ \A i \in DOMAIN comments : comments[i].kind = "final" => comments[i].own
    /\ Len(comments) < PerPage * MaxPages

FinalCommentStored == receipts["final"] # NoReceipt

\* A job that keeps asking gets its final comment onto the issue, and its
\* receipt, unless something at GitHub is in the way or the broker was left
\* idle for an hour: "Optimize jobs are resumable ... `foundry-opt job resume`
\* to continue pending work safely" (docs/guides/run-an-optimization.md).
ResumesSafely == [](Clear /\ broker # "idled") => <>FinalCommentStored
=============================================================================

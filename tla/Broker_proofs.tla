---------------------------- MODULE Broker_proofs ----------------------------
(***************************************************************************)
(* Theorems about Broker, for any kinds, texts and pull requests, any      *)
(* paging and any number of comments and failures.  They rest on what the  *)
(* broker knows of its request, and of the issue, at each of its steps.    *)
(***************************************************************************)
EXTENDS Broker, SequenceTheorems, TLAPS

Own(k) == {i \in DOMAIN comments : comments[i].own /\ comments[i].kind = k}

\* No kind has two comments of the job.
OnePerKind ==
    \A i, j \in DOMAIN comments :
        /\ comments[i].own => comments[i].kind \in Kinds
        /\ comments[i].own /\ comments[j].own /\ comments[i].kind = comments[j].kind
             => i = j

CommentsFit ==
    /\ comments \in Seq(Comment) /\ Len(comments) <= MaxComments
    /\ OnePerKind

PullsFit ==
    /\ pulls \in [PullRequests -> PullStates]
    /\ mentions \subseteq PullRequests
    /\ binding \in PullRequests \cup {None}

\* One connection waits at most; what it asks for is recorded in `asked', and
\* a closure is asked for after the final comment only.
ConnectionFits(c) ==
    /\ c.op = "comment" => c.kind \in Kinds /\ c.kind \in asked /\ c.body \in Body
    /\ c.op = "close" => Own("final") # {}

QueueFits ==
    /\ queue \in Seq(Connection)
    /\ \A i \in 1..(Len(queue) - 1) : ~queue[i].open
    /\ \A i \in 1..Len(queue) : ConnectionFits(queue[i])

\* What the broker knows at each step of a request.
JobFits ==
    /\ job \in Job
    /\ job.pc # "accept" => queue # <<>>
    /\ job.pc \in {"verify", "list", "post", "patch"} => Request.op = "comment"
    /\ job.pc = "post" => Own(Request.kind) = {}
    /\ job.pc = "patch" => job.at \in Own(Request.kind)
    /\ job.pc \in {"verify", "verifyBound", "verifyClose", "patchPull", "confirm"} =>
         binding # None
    /\ job.pc \in {"verifyClose", "patchPull", "confirm"} => Request.op = "close"
    /\ job.pc \in {"mentions", "pulls", "verifyBound", "store"} => Request.op = "bind"
    /\ job.pc \in {"mentions", "pulls"} => binding = None
    /\ job.pc = "store" => job.at \in PullRequests /\ binding \in {None, job.at}
    /\ job.pc = "reply" /\ job.ok /\ Request.op = "comment" =>
         job.at \in Own(Request.kind) /\ comments[job.at].body = Request.body

ReceiptsFit ==
    /\ receipts \in [Kinds -> Receipt \cup {NoReceipt}]
    /\ asked \subseteq Kinds
    /\ ReceiptsHold

EndFits ==
    /\ broker \in {"serving", "idled", "broken"}
    /\ faults \in 0..MaxFaults

IInv == CommentsFit /\ PullsFit /\ QueueFits /\ JobFits /\ ReceiptsFit /\ EndFits

-----------------------------------------------------------------------------
(* The comments.                                                           *)

OthersWrite(k) ==
    comments' = Append(comments, [kind |-> k, body |-> None, own |-> FALSE])

OwnWrite ==
    /\ job.pc = "post"
    /\ comments' = Append(comments, [kind |-> Request.kind, body |-> Request.body,
                                     own |-> TRUE])

OwnRewrite ==
    /\ job.pc = "patch"
    /\ comments' = [comments EXCEPT ![job.at].body = Request.body]

\* What a step may do to the comments.
CommentsChange ==
    \/ UNCHANGED comments
    \/ /\ Len(comments) < MaxComments
       /\ \/ \E k \in Kinds \cup {"other"} : OthersWrite(k)
          \/ OwnWrite
    \/ OwnRewrite

LEMMA RequestType ==
    ASSUME QueueFits, queue # <<>>
    PROVE  /\ Request = queue[1] /\ Request \in Connection
           /\ Len(queue) \in Nat \ {0} /\ ConnectionFits(Request)
BY DEF QueueFits, Request

LEMMA CommentTypes ==
    ASSUME CommentsFit
    PROVE  /\ Len(comments) \in Nat /\ DOMAIN comments = 1..Len(comments)
           /\ \A i \in DOMAIN comments : comments[i] \in Comment
BY DEF CommentsFit

LEMMA WrittenNew ==
    ASSUME CommentsFit, Written(Len(comments) + 1)
    PROVE  comments' = Append(comments, [kind |-> Request.kind, body |-> Request.body,
                                         own |-> TRUE])
BY CommentTypes DEF Written

LEMMA CommentsStep ==
    ASSUME IInv, [Next]_vars
    PROVE  CommentsChange
<1>1. CASE Post
  BY <1>1, WrittenNew DEF Post, At, CommentsChange, OwnWrite, IInv
<1>2. CASE Patch
  <2>1. job.at \in DOMAIN comments
    BY <1>2 DEF Patch, At, IInv, JobFits, Own
  <2> QED
    BY <1>2, <2>1 DEF Patch, At, CommentsChange, OwnRewrite, Written
<1>3. CASE CallFails
  <2>1. At("patch") => job.at \in DOMAIN comments
    BY DEF At, IInv, JobFits, Own
  <2> QED
    BY <1>3, <2>1, WrittenNew
    DEF CallFails, At, CommentsChange, OwnWrite, OwnRewrite, Written, IInv
<1>4. ASSUME NEW k \in Kinds \cup {"other"}, OtherComment(k)
      PROVE  CommentsChange
  BY <1>4 DEF OtherComment, CommentsChange, OthersWrite
<1>5. CASE UNCHANGED comments
  BY <1>5 DEF CommentsChange
<1> QED
  BY <1>1, <1>2, <1>3, <1>4, <1>5
  DEF Next, Command, UpsertComment, SignalNoWinner, EnsureBinding, Send, GiveUp,
      Serve, Accept, Verify, List, Mentions, Pulls, VerifyBound, Store, VerifyClose,
      PatchPull, Confirm, Reply, ReplyFails, AcceptNothing, IdleTimeout,
      ReplyUnheard, People, ChangePull, Mention, vars, github

\* Comments stay where they are, with their kind and author; only the one that
\* is rewritten changes its text.
LEMMA CommentsKept ==
    ASSUME CommentsFit, QueueFits, JobFits, CommentsChange
    PROVE  /\ CommentsFit'
           /\ \A i \in DOMAIN comments :
                /\ i \in DOMAIN comments'
                /\ comments'[i].kind = comments[i].kind
                /\ comments'[i].own = comments[i].own
                /\ comments'[i].body # comments[i].body =>
                     OwnRewrite /\ i = job.at
           /\ \A i \in DOMAIN comments' :
                i \notin DOMAIN comments /\ comments'[i].own =>
                  OwnWrite /\ comments'[i].kind = Request.kind
<1>t. /\ Len(comments) \in Nat /\ DOMAIN comments = 1..Len(comments)
      /\ \A i \in DOMAIN comments : comments[i] \in Comment
  BY CommentTypes
<1>o. OnePerKind
  BY DEF CommentsFit
<1>1. CASE UNCHANGED comments
  BY <1>1 DEF CommentsFit, OnePerKind
<1>2. ASSUME Len(comments) < MaxComments, NEW c \in Comment,
             comments' = Append(comments, c),
             c.own => OwnWrite /\ c.kind = Request.kind /\ c.kind \in Kinds
                      /\ Own(c.kind) = {}
      PROVE  /\ CommentsFit'
             /\ \A i \in DOMAIN comments :
                  i \in DOMAIN comments' /\ comments'[i] = comments[i]
             /\ \A i \in DOMAIN comments' : i \notin DOMAIN comments => comments'[i] = c
  <2>1. /\ comments' \in Seq(Comment) /\ Len(comments') = Len(comments) + 1
        /\ DOMAIN comments' = 1..(Len(comments) + 1)
        /\ \A i \in DOMAIN comments : comments'[i] = comments[i]
        /\ comments'[Len(comments) + 1] = c
    BY <1>2 DEF CommentsFit
  <2>2. \A i \in DOMAIN comments' : i \in DOMAIN comments \/ i = Len(comments) + 1
    BY <1>t, <2>1
  <2>3. Len(comments') <= MaxComments
    BY <1>2, <1>t, <2>1, BoundsAssumption
  <2>4. c.own => \A i \in DOMAIN comments :
          ~(comments[i].own /\ comments[i].kind = c.kind)
    BY <1>2 DEF Own
  <2>5. OnePerKind'
    BY <1>2, <1>o, <2>1, <2>2, <2>4 DEF OnePerKind
  <2> QED
    BY <1>t, <2>1, <2>2, <2>3, <2>5 DEF CommentsFit
<1>3. ASSUME Len(comments) < MaxComments, NEW k \in Kinds \cup {"other"}, OthersWrite(k)
      PROVE  /\ CommentsFit'
             /\ \A i \in DOMAIN comments :
                  i \in DOMAIN comments' /\ comments'[i] = comments[i]
             /\ \A i \in DOMAIN comments' : i \notin DOMAIN comments => ~comments'[i].own
  <2> DEFINE c == [kind |-> k, body |-> None, own |-> FALSE]
  <2>1. c \in Comment /\ comments' = Append(comments, c) /\ ~c.own
    BY <1>3 DEF Comment, OthersWrite
  <2> HIDE DEF c
  <2> QED
    BY <1>2, <1>3, <2>1
<1>4. ASSUME Len(comments) < MaxComments, OwnWrite
      PROVE  /\ CommentsFit'
             /\ \A i \in DOMAIN comments :
                  i \in DOMAIN comments' /\ comments'[i] = comments[i]
             /\ \A i \in DOMAIN comments' :
                  i \notin DOMAIN comments => comments'[i].kind = Request.kind
  <2> DEFINE c == [kind |-> Request.kind, body |-> Request.body, own |-> TRUE]
  <2>1. Request.op = "comment" /\ Own(Request.kind) = {} /\ queue # <<>>
    BY <1>4 DEF OwnWrite, JobFits
  <2>2. Request.kind \in Kinds /\ Request.body \in Body
    BY <2>1, RequestType DEF ConnectionFits
  <2>3. c \in Comment /\ comments' = Append(comments, c) /\ c.kind = Request.kind
    BY <1>4, <2>2 DEF Comment, OwnWrite
  <2> HIDE DEF c
  <2> QED
    BY <1>2, <1>4, <2>1, <2>2, <2>3
<1>5. CASE OwnRewrite
  <2>1. job.at \in DOMAIN comments /\ Request.op = "comment" /\ queue # <<>>
    BY <1>5 DEF OwnRewrite, JobFits, Own
  <2>2. Request.body \in Body
    BY <2>1, RequestType DEF ConnectionFits
  <2>3. \A x \in Comment : LET y == [x EXCEPT !.body = Request.body]
                           IN  y \in Comment /\ y.kind = x.kind /\ y.own = x.own
    BY <2>2 DEF Comment
  <2>4. /\ DOMAIN comments' = DOMAIN comments /\ Len(comments') = Len(comments)
        /\ \A i \in DOMAIN comments :
             comments'[i] = IF i = job.at THEN [comments[i] EXCEPT !.body = Request.body]
                            ELSE comments[i]
    BY <1>5, <1>t DEF OwnRewrite, CommentsFit
  <2>5. \A i \in DOMAIN comments :
          /\ comments'[i] \in Comment
          /\ comments'[i].kind = comments[i].kind /\ comments'[i].own = comments[i].own
          /\ i # job.at => comments'[i] = comments[i]
    BY <1>t, <2>3, <2>4
  <2>6. comments' \in Seq(Comment)
    <3>1. comments' \in [1..Len(comments) -> Comment]
      BY <1>5, <1>t, <2>4, <2>5 DEF OwnRewrite
    <3> QED
      BY <1>t, <3>1
  <2>7. CommentsFit'
    BY <1>o, <2>4, <2>5, <2>6 DEF CommentsFit, OnePerKind
  <2> QED
    BY <1>5, <2>4, <2>5, <2>7
<1> QED
  BY <1>1, <1>3, <1>4, <1>5 DEF CommentsChange

-----------------------------------------------------------------------------
(* The connections.                                                        *)

\* What a step may do to the connections.
QueueChange ==
    \/ UNCHANGED <<queue, asked>>
    \/ /\ ~Waiting /\ asked \subseteq asked'
       /\ \E c \in Connection :
            /\ queue' = Append(queue, c)
            /\ c.op = "comment" => c.kind \in Kinds \cap asked' /\ c.body \in Body
            /\ c.op = "close" => Own("final") # {}
    \/ /\ Waiting /\ UNCHANGED asked
       /\ queue' = [queue EXCEPT ![Len(queue)].open = FALSE]
    \/ queue' = <<>>

\* Once the command is answered no connection is left: those of commands that
\* have given up came before it.
LEMMA LastOne ==
    ASSUME QueueFits, queue # <<>>, Request.open
    PROVE  Tail(queue) = <<>>
<1>1. queue \in Seq(Connection) /\ Len(queue) \in Nat \ {0} /\ queue[1].open
  BY RequestType DEF QueueFits
<1>2. 1 \notin 1..(Len(queue) - 1)
  BY <1>1 DEF QueueFits
<1>3. Len(queue) = 1
  BY <1>1, <1>2, SMTT(30)
<1>4. Tail(queue) \in Seq(Connection) /\ Len(Tail(queue)) = 0
  BY <1>1, <1>3
<1> QED
  BY <1>4, EmptySeq

LEMMA QueueStep ==
    ASSUME IInv, [Next]_vars
    PROVE  QueueChange
<1>1. ASSUME NEW k \in Kinds, NEW b \in Bodies[k], UpsertComment(k, b)
      PROVE  QueueChange
  <2> DEFINE c == [op |-> "comment", kind |-> k, body |-> b, open |-> TRUE]
  <2>1. c \in Connection /\ c.op = "comment" /\ c.kind = k /\ c.body \in Body
    BY DEF Connection, Body
  <2>2. /\ ~Waiting /\ queue' = Append(queue, c) /\ asked' = asked \cup {k}
    BY <1>1 DEF UpsertComment, Send
  <2> HIDE DEF c
  <2> QED
    BY <2>1, <2>2 DEF QueueChange
<1>2. ASSUME NEW op \in {"bind", "close"}, Send(op, "other", None),
             op = "close" => Own("final") # {}
      PROVE  QueueChange
  <2> DEFINE c == [op |-> op, kind |-> "other", body |-> None, open |-> TRUE]
  <2>1. c \in Connection /\ c.op = op
    BY DEF Connection
  <2>2. /\ ~Waiting /\ queue' = Append(queue, c) /\ asked' = asked
    BY <1>2 DEF Send
  <2> HIDE DEF c
  <2> QED
    BY <1>2, <2>1, <2>2 DEF QueueChange
<1>3. CASE EnsureBinding
  BY <1>2, <1>3 DEF EnsureBinding
<1>4. CASE SignalNoWinner
  <2>1. Own("final") # {}
    BY <1>4, KindsAssumption DEF SignalNoWinner, IInv, ReceiptsFit, ReceiptsHold, Own
  <2> QED
    BY <1>2, <1>4, <2>1 DEF SignalNoWinner
<1>5. CASE GiveUp
  BY <1>5 DEF GiveUp, QueueChange
<1>6. CASE Reply \/ ReplyUnheard
  BY <1>6, LastOne DEF Reply, ReplyUnheard, Answered, At, QueueChange, IInv, JobFits
<1>7. CASE AcceptNothing \/ ReplyFails
  BY <1>7 DEF AcceptNothing, ReplyFails, Break, QueueChange
<1>8. CASE UNCHANGED <<queue, asked>>
  BY <1>8 DEF QueueChange
<1> QED
  BY <1>1, <1>3, <1>4, <1>5, <1>6, <1>7, <1>8
  DEF Next, Command, Serve, Accept, Verify, List, Post, Patch, Mentions, Pulls,
      VerifyBound, Store, VerifyClose, PatchPull, Confirm, IdleTimeout, CallFails,
      People, OtherComment, ChangePull, Mention, vars

\* The connections stay in their order, and the broker goes on with the same
\* request unless none is left.
LEMMA QueueKept ==
    ASSUME IInv, CommentsChange, QueueChange
    PROVE  /\ QueueFits'
           /\ queue # <<>> /\ queue' # <<>> =>
                /\ Request'.op = Request.op /\ Request'.kind = Request.kind
                /\ Request'.body = Request.body
<1> DEFINE Fits(c) ==
      /\ c.op = "comment" => c.kind \in Kinds /\ c.kind \in asked' /\ c.body \in Body
      /\ c.op = "close" => Own("final")' # {}
<1>k. ASSUME NEW k PROVE Own(k) \subseteq Own(k)'
  BY CommentsKept DEF Own, IInv
<1>q. /\ queue \in Seq(Connection) /\ Len(queue) \in Nat
      /\ DOMAIN queue = 1..Len(queue)
      /\ \A i \in 1..(Len(queue) - 1) : ~queue[i].open
      /\ \A i \in 1..Len(queue) : queue[i] \in Connection /\ ConnectionFits(queue[i])
  BY DEF IInv, QueueFits
<1>c. ASSUME NEW c, ConnectionFits(c), asked \subseteq asked'
      PROVE  Fits(c)
  BY <1>k, <1>c DEF ConnectionFits
<1>f. ASSUME queue' \in Seq(Connection),
             \A i \in 1..(Len(queue') - 1) : ~queue'[i].open,
             \A i \in 1..Len(queue') : Fits(queue'[i])
      PROVE  QueueFits'
  BY <1>f DEF QueueFits, ConnectionFits
<1> HIDE DEF Fits
<1>r. queue # <<>> => Request = queue[1] /\ 1 \in 1..Len(queue)
  BY <1>q DEF Request
<1>1. CASE UNCHANGED <<queue, asked>>
  BY <1>1, <1>q, <1>c, <1>f DEF Request
<1>2. CASE queue' = <<>>
  BY <1>2, <1>f
<1>3. ASSUME ~Waiting, asked \subseteq asked', NEW c \in Connection,
             queue' = Append(queue, c),
             c.op = "comment" => c.kind \in Kinds \cap asked' /\ c.body \in Body,
             c.op = "close" => Own("final") # {}
      PROVE  QueueFits' /\ (queue # <<>> => Request' = Request)
  <2>1. /\ queue' \in Seq(Connection) /\ Len(queue') = Len(queue) + 1
        /\ \A i \in 1..Len(queue) : queue'[i] = queue[i]
        /\ queue'[Len(queue) + 1] = c
    BY <1>3, <1>q
  <2>2. \A i \in 1..Len(queue) : ~queue[i].open
    BY <1>3, <1>q DEF Waiting
  <2>3. Fits(c)
    BY <1>3, <1>k DEF Fits
  <2>4. \A i \in 1..Len(queue) : Fits(queue'[i])
    BY <1>3, <1>q, <1>c, <2>1
  <2>5. \A i \in 1..Len(queue') : i \in 1..Len(queue) \/ i = Len(queue) + 1
    BY <1>q, <2>1
  <2>6. QueueFits'
    BY <1>q, <1>f, <2>1, <2>2, <2>3, <2>4, <2>5
  <2> QED
    BY <1>r, <2>1, <2>6 DEF Request
<1>4. ASSUME Waiting, UNCHANGED asked,
             queue' = [queue EXCEPT ![Len(queue)].open = FALSE]
      PROVE  /\ QueueFits'
             /\ Request'.op = Request.op /\ Request'.kind = Request.kind
             /\ Request'.body = Request.body
  <2>1. \A c \in Connection :
          LET d == [c EXCEPT !.open = FALSE]
          IN  /\ d \in Connection /\ ~d.open
              /\ d.op = c.op /\ d.kind = c.kind /\ d.body = c.body
    BY DEF Connection
  <2>2. /\ DOMAIN queue' = 1..Len(queue)
        /\ \A i \in 1..Len(queue) :
             queue'[i] = IF i = Len(queue) THEN [queue[i] EXCEPT !.open = FALSE]
                         ELSE queue[i]
    BY <1>4, <1>q
  <2>3. \A i \in 1..Len(queue) :
          /\ queue'[i] \in Connection
          /\ queue'[i].op = queue[i].op /\ queue'[i].kind = queue[i].kind
          /\ queue'[i].body = queue[i].body
    BY <1>q, <2>1, <2>2
  <2>4. queue' \in Seq(Connection) /\ Len(queue') = Len(queue)
    <3>1. queue' \in [1..Len(queue) -> Connection]
      BY <1>4, <1>q, <2>2, <2>3
    <3> QED
      BY <1>q, <3>1
  <2>5. \A i \in 1..Len(queue) : Fits(queue[i])
    BY <1>4, <1>q, <1>c
  <2>6. QueueFits'
    <3>1. \A i \in 1..Len(queue) : Fits(queue'[i])
      BY <2>3, <2>5 DEF Fits
    <3>2. \A i \in 1..(Len(queue') - 1) : ~queue'[i].open
      <4> SUFFICES ASSUME NEW i \in 1..(Len(queue) - 1)
                   PROVE  ~queue'[i].open
        BY <2>4
      <4>1. i \in 1..Len(queue) /\ i # Len(queue)
        <5>1. Len(queue) \in Nat
          BY <1>q
        <5> QED
          BY <5>1
      <4>2. queue'[i] = queue[i]
        BY <2>2, <4>1
      <4> QED
        BY <1>q, <4>1, <4>2
    <3> QED
      BY <1>f, <2>4, <3>1, <3>2
  <2>7. queue # <<>>
    BY <1>4 DEF Waiting
  <2>8. Request' = queue'[1]
    BY <2>4 DEF Request
  <2> QED
    BY <1>r, <2>3, <2>6, <2>7, <2>8
<1> QED
  BY <1>1, <1>2, <1>3, <1>4 DEF QueueChange
-----------------------------------------------------------------------------
(* The request the broker serves.                                          *)

LEMMA Responded ==
    ASSUME QueueFits, queue # <<>>, UNCHANGED queue,
           NEW ok \in BOOLEAN, NEW at \in 0..MaxComments \cup PullRequests,
           Respond(ok, at),
           ok /\ Request.op = "comment" =>
             at \in Own(Request.kind)' /\ comments'[at].body = Request.body
    PROVE  JobFits'
<1>1. job' = [pc |-> "reply", seen |-> 0, found |-> {}, at |-> at, ok |-> ok]
  BY DEF Respond, NoJob
<1>2. job' \in Job
  BY <1>1, BoundsAssumption DEF Job, Pcs
<1>3. Request' = Request
  BY DEF Request
<1> QED
  BY <1>1, <1>2, <1>3 DEF JobFits, Own

LEMMA Refused ==
    ASSUME QueueFits, queue # <<>>, UNCHANGED queue, Respond(FALSE, None)
    PROVE  JobFits'
<1>1. None \in 0..MaxComments \cup PullRequests
  BY BoundsAssumption DEF None
<1> QED
  BY <1>1, Responded

LEMMA Waits ==
    ASSUME job' = NoJob
    PROVE  JobFits'
BY BoundsAssumption DEF JobFits, NoJob, Job, Pcs, None

LEMMA OthersWritten ==
    ASSUME CommentsFit, NEW k \in Kinds \cup {"other"}, OthersWrite(k)
    PROVE  /\ DOMAIN comments' = 1..(Len(comments) + 1)
           /\ \A i \in DOMAIN comments : comments'[i] = comments[i]
           /\ ~comments'[Len(comments) + 1].own
<1> DEFINE c == [kind |-> k, body |-> None, own |-> FALSE]
<1>1. c \in Comment /\ comments' = Append(comments, c)
  BY DEF Comment, OthersWrite
<1>2. ~c.own
  OBVIOUS
<1> HIDE DEF c
<1>3. /\ comments' \in Seq(Comment) /\ Len(comments') = Len(comments) + 1
      /\ \A i \in 1..Len(comments) : comments'[i] = comments[i]
      /\ comments'[Len(comments) + 1] = c
  BY <1>1 DEF CommentsFit
<1>4. DOMAIN comments' = 1..Len(comments')
  BY <1>3
<1> QED
  BY <1>2, <1>3, <1>4, CommentTypes

\* A step of a command or of somebody else leaves the request and the comments
\* of the job alone.
LEMMA JobKept ==
    ASSUME IInv, CommentsChange, QueueChange, UNCHANGED <<job, binding>>,
           queue # <<>> => queue' # <<>>,
           UNCHANGED comments \/ \E k \in Kinds \cup {"other"} : OthersWrite(k)
    PROVE  JobFits'
<1>1. queue # <<>> => /\ Request'.op = Request.op /\ Request'.kind = Request.kind
                      /\ Request'.body = Request.body
  BY QueueKept
<1>t. /\ comments \in Seq(Comment) /\ Len(comments) \in Nat
      /\ DOMAIN comments = 1..Len(comments)
  BY CommentTypes DEF IInv, CommentsFit
<1>2. ASSUME NEW k \in Kinds \cup {"other"}, OthersWrite(k)
      PROVE  /\ DOMAIN comments' = 1..(Len(comments) + 1)
             /\ \A i \in DOMAIN comments : comments'[i] = comments[i]
             /\ ~comments'[Len(comments) + 1].own
  BY <1>2, OthersWritten DEF IInv
<1>3. \A i \in DOMAIN comments : i \in DOMAIN comments' /\ comments'[i] = comments[i]
  BY <1>2, <1>t
<1>4. \A i \in DOMAIN comments' : comments'[i].own => i \in DOMAIN comments
  BY <1>2, <1>t
<1>5. queue # <<>> => Own(Request.kind)' = Own(Request.kind)
  BY <1>1, <1>3, <1>4 DEF Own
<1>6. \A i \in Own(Request.kind) : comments'[i] = comments[i]
  BY <1>3 DEF Own
<1>7. /\ job' = job /\ binding' = binding /\ JobFits
  BY DEF IInv
<1> QED
  BY <1>1, <1>5, <1>6, <1>7 DEF JobFits

LEMMA JudgeFits ==
    ASSUME IInv, At("list"), UNCHANGED <<comments, queue, binding>>,
           Judge(Len(comments))
    PROVE  JobFits'
<1> DEFINE matching == {i \in 1..Len(comments) : comments[i].kind = Request.kind}
<1>t. /\ job \in Job /\ queue # <<>> /\ Request.op = "comment" /\ QueueFits
      /\ DOMAIN comments = 1..Len(comments) /\ Len(comments) \in Nat
      /\ Len(comments) <= MaxComments
  BY CommentTypes DEF IInv, At, JobFits, CommentsFit
<1>o. \A i : i \in Own(Request.kind) <=> i \in matching /\ comments[i].own
  BY <1>t DEF Own
<1>r. Request' = Request /\ \A k : Own(k)' = Own(k)
  BY DEF Request, Own
<1>1. CASE matching = {}
  <2>1. job' = [job EXCEPT !.pc = "post"]
    BY <1>1 DEF Judge, Goto
  <2>2. job' \in Job /\ job'.pc = "post"
    BY <1>t, <2>1 DEF Job, Pcs
  <2>3. Own(Request.kind) = {}
    BY <1>o, <1>1
  <2> QED
    BY <1>t, <1>r, <2>2, <2>3 DEF JobFits
<1>2. CASE matching # {} /\ \E i \in matching : matching # {i} \/ ~comments[i].own
  <2>1. Respond(FALSE, None)
    BY <1>2 DEF Judge
  <2> QED
    BY <1>t, <2>1, Refused
<1>3. CASE matching # {} /\ \A i \in matching : matching = {i} /\ comments[i].own
  <2> DEFINE i == CHOOSE i \in matching : TRUE
  <2>1. i \in matching /\ i \in Own(Request.kind) /\ i \in 0..MaxComments
    BY <1>3, <1>t, <1>o, BoundsAssumption
  <2>2. IF comments[i].body = Request.body THEN Respond(TRUE, i)
        ELSE job' = [job EXCEPT !.pc = "patch", !.at = i]
    BY <1>3 DEF Judge
  <2> HIDE DEF i, matching
  <2>3. CASE comments[i].body = Request.body
    BY <1>t, <1>r, <2>1, <2>2, <2>3, Responded
  <2>4. CASE comments[i].body # Request.body
    <3>1. job' \in Job /\ job'.pc = "patch" /\ job'.at = i
      BY <1>t, <2>1, <2>2, <2>4 DEF Job, Pcs
    <3> QED
      BY <1>t, <1>r, <2>1, <3>1 DEF JobFits
  <2> QED
    BY <2>3, <2>4
<1> QED
  BY <1>1, <1>2, <1>3
\* Requests of commands that have come in leave their place to none.
LEMMA QueueGrows ==
    ASSUME QueueFits, NEW c \in Connection,
           \/ queue' = Append(queue, c)
           \/ Waiting /\ queue' = [queue EXCEPT ![Len(queue)].open = FALSE]
    PROVE  queue' # <<>>
<1>1. CASE queue' = Append(queue, c)
  <2>1. queue' \in Seq(Connection) /\ Len(queue') = Len(queue) + 1 /\ Len(queue) \in Nat
    BY <1>1 DEF QueueFits
  <2> QED
    BY <2>1
<1>2. CASE Waiting /\ queue' = [queue EXCEPT ![Len(queue)].open = FALSE]
  <2>1. Len(queue) \in Nat \ {0} /\ DOMAIN queue' = 1..Len(queue)
    BY <1>2, EmptySeq DEF QueueFits, Waiting
  <2>2. 1 \in DOMAIN queue'
    BY <2>1
  <2> QED
    BY <2>2
<1> QED
  BY <1>1, <1>2

LEMMA CommandStep ==
    ASSUME IInv, Command \/ GiveUp
    PROVE  JobFits'
<1>1. PICK c \in Connection :
        \/ queue' = Append(queue, c)
        \/ Waiting /\ queue' = [queue EXCEPT ![Len(queue)].open = FALSE]
  <2>1. ASSUME NEW k \in Kinds, NEW b \in Bodies[k], UpsertComment(k, b)
        PROVE  \E c \in Connection : queue' = Append(queue, c)
    <3> DEFINE c == [op |-> "comment", kind |-> k, body |-> b, open |-> TRUE]
    <3>1. c \in Connection /\ queue' = Append(queue, c)
      BY <2>1 DEF Connection, Body, UpsertComment, Send
    <3> QED
      BY <3>1
  <2>2. ASSUME NEW op \in {"bind", "close"}, Send(op, "other", None)
        PROVE  \E c \in Connection : queue' = Append(queue, c)
    <3> DEFINE c == [op |-> op, kind |-> "other", body |-> None, open |-> TRUE]
    <3>1. c \in Connection /\ queue' = Append(queue, c)
      BY <2>2 DEF Connection, Send
    <3> QED
      BY <3>1
  <2>3. CASE GiveUp
    <3>1. [op |-> "bind", kind |-> "other", body |-> None, open |-> TRUE] \in Connection
      BY DEF Connection
    <3> QED
      BY <2>3, <3>1 DEF GiveUp
  <2> QED
    BY <2>1, <2>2, <2>3 DEF Command, SignalNoWinner, EnsureBinding
<1>2. queue' # <<>>
  BY <1>1, QueueGrows DEF IInv
<1>3. UNCHANGED <<github, binding, broker, job>>
  BY DEF Command, UpsertComment, SignalNoWinner, EnsureBinding, Send, GiveUp
<1>4. UNCHANGED comments /\ UNCHANGED <<job, binding>> /\ CommentsChange
  BY <1>3 DEF github, CommentsChange
<1>5. QueueChange
  BY QueueStep DEF Next
<1> QED
  BY <1>2, <1>4, <1>5, JobKept

LEMMA PeopleStep ==
    ASSUME IInv, People \/ IdleTimeout \/ UNCHANGED vars
    PROVE  JobFits'
<1>1. UNCHANGED <<job, queue, binding, asked>>
  BY DEF People, OtherComment, ChangePull, Mention, IdleTimeout, vars
<1>2. UNCHANGED comments \/ \E k \in Kinds \cup {"other"} : OthersWrite(k)
  BY DEF People, OtherComment, OthersWrite, ChangePull, Mention, IdleTimeout, vars, github
<1>3. CommentsChange /\ QueueChange
  BY CommentsStep, QueueStep DEF Next, Serve
<1> QED
  BY <1>1, <1>2, <1>3, JobKept

LEMMA ServeStep ==
    ASSUME IInv, Serve \/ AcceptNothing \/ CallFails \/ ReplyUnheard
    PROVE  JobFits'
<1>j. /\ job \in Job /\ QueueFits /\ JobFits
      /\ queue # <<>> => Request \in Connection
  BY RequestType DEF IInv, JobFits
<1>p. /\ binding \in PullRequests \cup {None}
      /\ None \in 0..MaxComments /\ NoJob.pc = "accept"
  BY BoundsAssumption DEF IInv, PullsFit, None, NoJob
<1>c. /\ Len(comments) \in Nat /\ DOMAIN comments = 1..Len(comments)
      /\ comments \in Seq(Comment)
  BY CommentTypes DEF IInv, CommentsFit
<1>r. UNCHANGED queue => Request' = Request
  BY DEF Request
<1>1. CASE Accept
  <2>1. queue # <<>> /\ UNCHANGED <<queue, binding, comments>>
    BY <1>1 DEF Accept, github
  <2>2. CASE Request.op = "close" /\ binding = None
    BY <1>1, <1>j, <2>1, <2>2, Refused DEF Accept
  <2>3. ASSUME NEW pc \in Pcs, Goto(pc)
        PROVE  job' \in Job /\ job'.pc = pc
    BY <1>j, <2>3 DEF Goto, Job
  <2>4. /\ Request.op \in {"comment", "bind", "close"}
        /\ Request' = Request
    BY <1>j, <1>r, <2>1 DEF Connection
  <2>5. CASE Request.op = "comment"
    <3>1. CASE binding = None
      <4>1. job' \in Job /\ job'.pc = "list"
        BY <1>1, <2>3, <2>5, <3>1 DEF Accept, Pcs
      <4> QED
        BY <2>1, <2>4, <2>5, <4>1 DEF JobFits
    <3>2. CASE binding # None
      <4>1. job' \in Job /\ job'.pc = "verify"
        BY <1>1, <2>3, <2>5, <3>2 DEF Accept, Pcs
      <4> QED
        BY <2>1, <2>4, <2>5, <3>2, <4>1 DEF JobFits
    <3> QED
      BY <3>1, <3>2
  <2>6. CASE Request.op = "bind"
    <3>1. CASE binding = None
      <4>1. job' \in Job /\ job'.pc = "mentions"
        BY <1>1, <2>3, <2>6, <3>1 DEF Accept, Pcs
      <4> QED
        BY <2>1, <2>4, <2>6, <3>1, <4>1 DEF JobFits
    <3>2. CASE binding # None
      <4>1. job' \in Job /\ job'.pc = "verifyBound"
        BY <1>1, <2>3, <2>6, <3>2 DEF Accept, Pcs
      <4> QED
        BY <2>1, <2>4, <2>6, <3>2, <4>1 DEF JobFits
    <3> QED
      BY <3>1, <3>2
  <2>7. CASE Request.op = "close" /\ binding # None
    <3>1. job' \in Job /\ job'.pc = "verifyClose"
      BY <1>1, <2>3, <2>7 DEF Accept, Pcs
    <3> QED
      BY <2>1, <2>4, <2>7, <3>1 DEF JobFits
  <2> QED
    BY <2>2, <2>4, <2>5, <2>6, <2>7
<1>2. CASE Verify
  <2>1. /\ queue # <<>> /\ UNCHANGED <<queue, binding, comments>>
        /\ Request.op = "comment"
    BY <1>2, <1>j DEF Verify, github, At, JobFits
  <2>2. CASE Respond(FALSE, None)
    BY <1>j, <2>1, <2>2, Refused
  <2>3. CASE Goto("list")
    <3>1. job' \in Job /\ job'.pc = "list"
      BY <1>j, <2>3 DEF Goto, Job, Pcs
    <3> QED
      BY <1>r, <2>1, <3>1 DEF JobFits
  <2> QED
    BY <1>2, <2>2, <2>3 DEF Verify
<1>3. CASE List
  <2>1. /\ queue # <<>> /\ UNCHANGED <<queue, binding, comments>>
        /\ Request.op = "comment" /\ At("list")
    BY <1>3, <1>j DEF List, github, At, JobFits
  <2>2. CASE Judge(Len(comments))
    BY <2>1, <2>2, JudgeFits
  <2>3. CASE Respond(FALSE, None)
    BY <1>j, <2>1, <2>3, Refused
  <2>4. CASE /\ ~(Len(comments) < job.seen + PerPage)
             /\ job' = [job EXCEPT !.seen = job.seen + PerPage]
    <3>1. job.seen \in Nat /\ job.seen + PerPage \in 0..MaxComments
      BY <1>j, <1>c, <2>4, NumbersAssumption, BoundsAssumption
      DEF Job, IInv, CommentsFit
    <3>2. job' \in Job /\ job'.pc = "list"
      BY <1>j, <2>1, <2>4, <3>1 DEF Job, At
    <3> QED
      BY <1>r, <2>1, <3>2 DEF JobFits
  <2> QED
    BY <1>3, <2>2, <2>3, <2>4 DEF List
<1>4. CASE Post
  <2>1. /\ queue # <<>> /\ UNCHANGED queue /\ Len(comments) < MaxComments
        /\ Respond(TRUE, Len(comments) + 1)
        /\ comments' = Append(comments, [kind |-> Request.kind, body |-> Request.body,
                                         own |-> TRUE])
    BY <1>4, <1>j, WrittenNew DEF Post, At, JobFits, IInv
  <2>2. /\ Len(comments) + 1 \in DOMAIN comments'
        /\ comments'[Len(comments) + 1] =
             [kind |-> Request.kind, body |-> Request.body, own |-> TRUE]
    BY <1>c, <2>1
  <2>3. /\ Len(comments) + 1 \in Own(Request.kind)'
        /\ comments'[Len(comments) + 1].body = Request.body
    BY <1>r, <2>1, <2>2 DEF Own
  <2>4. Len(comments) + 1 \in 0..MaxComments
    BY <1>c, <2>1, BoundsAssumption
  <2> QED
    BY <1>j, <2>1, <2>3, <2>4, Responded
<1>5. CASE Patch
  <2>1. /\ queue # <<>> /\ UNCHANGED queue /\ Respond(TRUE, job.at)
        /\ job.at \in Own(Request.kind) /\ Written(job.at)
    BY <1>5, <1>j DEF Patch, At, JobFits
  <2>2. /\ job.at \in DOMAIN comments /\ comments[job.at] \in Comment
        /\ comments[job.at].own /\ comments[job.at].kind = Request.kind
    BY <1>c, <2>1, CommentTypes DEF Own, IInv
  <2>3. /\ DOMAIN comments' = DOMAIN comments
        /\ comments'[job.at] = [comments[job.at] EXCEPT !.body = Request.body]
    BY <1>c, <2>1, <2>2 DEF Written
  <2>4. /\ comments'[job.at].own /\ comments'[job.at].kind = Request.kind
        /\ comments'[job.at].body = Request.body
    BY <2>2, <2>3 DEF Comment
  <2>5. job.at \in Own(Request.kind)'
    BY <1>r, <2>1, <2>2, <2>3, <2>4 DEF Own
  <2>6. job.at \in 0..MaxComments \cup PullRequests
    BY <1>j DEF Job
  <2> QED
    BY <1>j, <2>1, <2>4, <2>5, <2>6, Responded
<1>6. CASE Mentions
  <2>1. /\ queue # <<>> /\ UNCHANGED <<queue, binding>>
        /\ Request.op = "bind" /\ binding = None
        /\ job' = [job EXCEPT !.pc = "pulls", !.found = mentions]
    BY <1>6, <1>j DEF Mentions, At, JobFits
  <2>2. job' \in Job /\ job'.pc = "pulls"
    BY <1>j, <2>1 DEF Job, Pcs, IInv, PullsFit
  <2> QED
    BY <1>r, <2>1, <2>2 DEF JobFits
<1>7. CASE Pulls
  <2> DEFINE matches == {p \in job.found : pulls[p] = "open"}
             p0 == CHOOSE p \in PullRequests : matches = {p}
  <2>1. /\ queue # <<>> /\ UNCHANGED <<queue, binding>>
        /\ Request.op = "bind" /\ binding = None
    BY <1>7, <1>j DEF Pulls, At, JobFits
  <2>2. CASE \E p \in PullRequests : matches = {p}
    <3>1. p0 \in PullRequests
      BY <2>2
    <3>2. job' = [job EXCEPT !.pc = "store", !.at = p0]
      BY <1>7, <2>2 DEF Pulls
    <3> HIDE DEF p0
    <3>3. job' \in Job /\ job'.pc = "store" /\ job'.at = p0
      BY <1>j, <3>1, <3>2 DEF Job, Pcs
    <3> QED
      BY <1>r, <2>1, <3>1, <3>3 DEF JobFits
  <2>3. CASE ~\E p \in PullRequests : matches = {p}
    <3>1. Respond(FALSE, None)
      BY <1>7, <2>3 DEF Pulls
    <3> QED
      BY <1>j, <2>1, <3>1, Refused
  <2> QED
    BY <2>2, <2>3
<1>8. CASE VerifyBound
  <2>1. /\ queue # <<>> /\ UNCHANGED <<queue, binding>>
        /\ Request.op = "bind" /\ binding \in PullRequests
    BY <1>8, <1>j, <1>p DEF VerifyBound, At, JobFits
  <2>2. CASE Respond(FALSE, None)
    BY <1>j, <2>1, <2>2, Refused
  <2>3. CASE job' = [job EXCEPT !.pc = "store", !.at = binding]
    <3>1. job' \in Job /\ job'.pc = "store" /\ job'.at = binding
      BY <1>j, <2>1, <2>3 DEF Job, Pcs
    <3> QED
      BY <1>r, <2>1, <3>1 DEF JobFits
  <2> QED
    BY <1>8, <2>2, <2>3 DEF VerifyBound
<1>9. CASE Store
  <2>1. /\ queue # <<>> /\ UNCHANGED queue /\ Respond(TRUE, job.at)
        /\ Request.op = "bind" /\ job.at \in PullRequests
    BY <1>9, <1>j DEF Store, At, JobFits
  <2> QED
    BY <1>j, <2>1, Responded
<1>10. CASE VerifyClose \/ Confirm
  <2>1. /\ queue # <<>> /\ UNCHANGED <<queue, binding>>
        /\ Request.op = "close" /\ binding # None
    BY <1>10, <1>j DEF VerifyClose, Confirm, At, JobFits
  <2>2. CASE Respond(FALSE, None)
    BY <1>j, <2>1, <2>2, Refused
  <2>3. CASE Respond(TRUE, binding)
    BY <1>j, <1>p, <2>1, <2>3, Responded
  <2>4. CASE Goto("patchPull")
    <3>1. job' \in Job /\ job'.pc = "patchPull"
      BY <1>j, <2>4 DEF Goto, Job, Pcs
    <3> QED
      BY <1>r, <2>1, <3>1 DEF JobFits
  <2>5. Respond(FALSE, None) \/ Respond(TRUE, binding) \/ Goto("patchPull")
    BY <1>10 DEF VerifyClose, Confirm
  <2> QED
    BY <2>2, <2>3, <2>4, <2>5
<1>11. CASE PatchPull
  <2>1. /\ queue # <<>> /\ UNCHANGED <<queue, binding>>
        /\ Request.op = "close" /\ binding # None
    BY <1>11, <1>j DEF PatchPull, At, JobFits
  <2>2. job' \in Job /\ job'.pc = "confirm"
    BY <1>11, <1>j DEF PatchPull, Goto, Job, Pcs
  <2> QED
    BY <1>r, <2>1, <2>2 DEF JobFits
<1>12. CASE Reply \/ ReplyUnheard \/ ReplyFails \/ AcceptNothing
  BY <1>12, Waits DEF Reply, ReplyUnheard, ReplyFails, AcceptNothing, Answered, Break
<1>13. CASE CallFails
  <2>1. queue # <<>> /\ UNCHANGED queue /\ Respond(FALSE, None)
    BY <1>13, <1>j DEF CallFails, JobFits
  <2> QED
    BY <1>j, <2>1, Refused
<1> QED
  BY <1>1, <1>2, <1>3, <1>4, <1>5, <1>6, <1>7, <1>8, <1>9, <1>10, <1>11, <1>12, <1>13
  DEF Serve
-----------------------------------------------------------------------------
(* Pull requests, receipts, and the end of the broker.                     *)

LEMMA PullsStep ==
    ASSUME IInv, [Next]_vars
    PROVE  PullsFit'
<1>p. PullsFit /\ JobFits
  BY DEF IInv
<1>1. CASE UNCHANGED <<pulls, mentions, binding>>
  BY <1>1, <1>p DEF PullsFit
<1>2. ASSUME NEW p \in PullRequests, ChangePull(p)
      PROVE  PullsFit'
  BY <1>2, <1>p DEF ChangePull, PullsFit, PullStates
<1>3. ASSUME NEW p \in PullRequests, Mention(p)
      PROVE  PullsFit'
  BY <1>3, <1>p DEF Mention, PullsFit
<1>4. CASE Store
  BY <1>4, <1>p DEF Store, At, JobFits, PullsFit, github
<1>5. CASE UNCHANGED <<mentions, binding>> /\ (UNCHANGED pulls \/ ClosedPull)
  BY <1>5, <1>p DEF ClosedPull, PullsFit, PullStates
<1>6. CASE PatchPull \/ CallFails
  BY <1>5, <1>6 DEF PatchPull, CallFails
<1> QED
  BY <1>1, <1>2, <1>3, <1>4, <1>6
  DEF Next, Command, UpsertComment, SignalNoWinner, EnsureBinding, Send, GiveUp,
      Serve, Accept, Verify, List, Post, Patch, Mentions, Pulls, VerifyBound,
      VerifyClose, Confirm, Reply, ReplyFails, AcceptNothing, IdleTimeout,
      ReplyUnheard, People, OtherComment, vars, github

LEMMA EndStep ==
    ASSUME IInv, [Next]_vars
    PROVE  EndFits'
<1>e. EndFits
  BY DEF IInv
<1>1. UNCHANGED faults \/ Fault
  BY DEF Next, Command, UpsertComment, SignalNoWinner, EnsureBinding, Send, GiveUp,
      Serve, Accept, Verify, List, Post, Patch, Mentions, Pulls, VerifyBound, Store,
      VerifyClose, PatchPull, Confirm, Reply, ReplyFails, AcceptNothing, IdleTimeout,
      CallFails, ReplyUnheard, People, OtherComment, ChangePull, Mention, vars
<1>2. UNCHANGED broker \/ broker' \in {"idled", "broken"}
  BY DEF Next, Command, UpsertComment, SignalNoWinner, EnsureBinding, Send, GiveUp,
      Serve, Accept, Verify, List, Post, Patch, Mentions, Pulls, VerifyBound, Store,
      VerifyClose, PatchPull, Confirm, Reply, ReplyFails, AcceptNothing, IdleTimeout,
      CallFails, ReplyUnheard, People, OtherComment, ChangePull, Mention, vars,
      Answered, Break
<1> QED
  BY <1>e, <1>1, <1>2, BoundsAssumption DEF EndFits, Fault

\* Receipts change, and requests are forgotten, where an answer is read only.
LEMMA AskedStep ==
    ASSUME IInv, [Next]_vars, ~Reply
    PROVE  UNCHANGED receipts /\ asked \subseteq asked' /\ asked' \subseteq Kinds
<1>1. asked \subseteq Kinds
  BY DEF IInv, ReceiptsFit
<1>2. ASSUME NEW k \in Kinds, NEW b \in Bodies[k], UpsertComment(k, b)
      PROVE  UNCHANGED receipts /\ asked' = asked \cup {k}
  BY <1>2 DEF UpsertComment, Send
<1>3. ASSUME EnsureBinding \/ SignalNoWinner
      PROVE  UNCHANGED receipts /\ asked' = asked
  BY <1>3 DEF EnsureBinding, SignalNoWinner, Send
<1>5. \/ UNCHANGED <<receipts, asked>>
      \/ EnsureBinding \/ SignalNoWinner
      \/ \E k \in Kinds : \E b \in Bodies[k] : UpsertComment(k, b)
  BY DEF Next, Command, GiveUp,
      Serve, Accept, Verify, List, Post, Patch, Mentions, Pulls, VerifyBound, Store,
      VerifyClose, PatchPull, Confirm, ReplyFails, AcceptNothing, IdleTimeout,
      CallFails, ReplyUnheard, People, OtherComment, ChangePull, Mention, vars
<1>6. ASSUME NEW k \in Kinds, UNCHANGED receipts, asked' = asked \cup {k}
      PROVE  UNCHANGED receipts /\ asked \subseteq asked' /\ asked' \subseteq Kinds
  BY <1>1, <1>6
<1>7. CASE UNCHANGED receipts /\ asked' = asked
  BY <1>1, <1>7
<1>8. ASSUME NEW k \in Kinds, NEW b \in Bodies[k], UpsertComment(k, b)
      PROVE  UNCHANGED receipts /\ asked \subseteq asked' /\ asked' \subseteq Kinds
  BY <1>2, <1>6, <1>8
<1> QED
  BY <1>3, <1>5, <1>7, <1>8

LEMMA ReceiptsStep ==
    ASSUME IInv, [Next]_vars
    PROVE  ReceiptsFit'
<1>r. /\ receipts \in [Kinds -> Receipt \cup {NoReceipt}]
      /\ asked \subseteq Kinds /\ ReceiptsHold /\ JobFits
      /\ CommentsFit /\ QueueFits /\ CommentsChange
  BY CommentsStep DEF IInv, ReceiptsFit
<1>k. \A i \in DOMAIN comments :
        /\ i \in DOMAIN comments'
        /\ comments'[i].kind = comments[i].kind
        /\ comments'[i].own = comments[i].own
        /\ comments'[i].body # comments[i].body => OwnRewrite /\ i = job.at
  BY <1>r, CommentsKept
<1>a. OwnRewrite => comments[job.at].kind \in asked
  <2> SUFFICES ASSUME OwnRewrite
               PROVE  comments[job.at].kind \in asked
    OBVIOUS
  <2>1. queue # <<>> /\ Request.op = "comment" /\ comments[job.at].kind = Request.kind
    BY <1>r DEF OwnRewrite, JobFits, Own
  <2> QED
    BY <1>r, <2>1, RequestType DEF ConnectionFits
<1>1. CASE ~Reply
  <2>1. UNCHANGED receipts /\ asked \subseteq asked' /\ asked' \subseteq Kinds
    BY <1>1, AskedStep
  <2>2. ReceiptsHold'
    BY <1>r, <1>k, <1>a, <2>1 DEF ReceiptsHold
  <2> QED
    BY <1>r, <2>1, <2>2 DEF ReceiptsFit
<1>2. CASE Reply
  <2>1. UNCHANGED comments /\ At("reply") /\ queue # <<>>
    BY <1>2, <1>r DEF Reply, github, At, JobFits
  <2>2. CASE ~(job.ok /\ Request.op = "comment")
    <3>1. UNCHANGED <<receipts, asked>>
      BY <1>2, <2>2 DEF Reply
    <3> QED
      BY <1>r, <2>1, <3>1 DEF ReceiptsFit, ReceiptsHold
  <2>3. CASE job.ok /\ Request.op = "comment"
    <3> DEFINE k0 == Request.kind
               new == [at |-> job.at, body |-> Request.body]
    <3>1. /\ receipts' = [receipts EXCEPT ![k0] = new]
          /\ asked' = asked \ {k0}
      BY <1>2, <2>3 DEF Reply
    <3>2. k0 \in Kinds /\ Request.body \in Body
      BY <1>r, <2>1, <2>3, RequestType DEF ConnectionFits
    <3>3. /\ job.at \in DOMAIN comments /\ comments[job.at].own
          /\ comments[job.at].kind = k0 /\ comments[job.at].body = Request.body
      BY <1>r, <2>1, <2>3 DEF At, JobFits, Own
    <3>4. job.at \in 1..MaxComments
      <4>1. Len(comments) <= MaxComments
        BY <1>r DEF CommentsFit
      <4> QED
        BY <1>r, <3>3, <4>1, CommentTypes, BoundsAssumption
    <3>5. new \in Receipt /\ new.at = job.at /\ new.body = Request.body
      BY <3>2, <3>4 DEF Receipt
    <3> HIDE DEF k0, new
    <3>6. receipts' \in [Kinds -> Receipt \cup {NoReceipt}]
      BY <1>r, <3>1, <3>5
    <3>7. ReceiptsHold'
      <4> SUFFICES ASSUME NEW k \in Kinds, receipts'[k] # NoReceipt
                   PROVE  LET i == receipts'[k].at IN
                          /\ i \in DOMAIN comments'
                          /\ comments'[i].own /\ comments'[i].kind = k
                          /\ k \notin asked' => comments'[i].body = receipts'[k].body
        BY DEF ReceiptsHold, NoReceipt
      <4>1. CASE k = k0
        BY <1>r, <2>1, <3>1, <3>2, <3>3, <3>5, <4>1
      <4>2. CASE k # k0
        <5>1. receipts'[k] = receipts[k] /\ (k \notin asked' => k \notin asked)
          BY <1>r, <3>1, <4>2
        <5> QED
          BY <1>r, <2>1, <5>1 DEF ReceiptsHold
      <4> QED
        BY <4>1, <4>2
    <3> QED
      BY <1>r, <3>1, <3>6, <3>7 DEF ReceiptsFit
  <2> QED
    BY <2>2, <2>3
<1> QED
  BY <1>1, <1>2
-----------------------------------------------------------------------------
(* The invariant.                                                          *)

LEMMA InvInit ==
    ASSUME Init
    PROVE  IInv
<1>1. CommentsFit
  BY BoundsAssumption DEF Init, CommentsFit, OnePerKind
<1>2. PullsFit
  BY DEF Init, PullsFit, PullStates
<1>3. QueueFits
  BY DEF Init, QueueFits
<1>4. JobFits
  BY BoundsAssumption DEF Init, JobFits, NoJob, Job, Pcs, None
<1>5. ReceiptsFit
  BY DEF Init, ReceiptsFit, ReceiptsHold
<1>6. EndFits
  BY BoundsAssumption DEF Init, EndFits
<1> QED
  BY <1>1, <1>2, <1>3, <1>4, <1>5, <1>6 DEF IInv

LEMMA InvStep ==
    ASSUME IInv, [Next]_vars
    PROVE  IInv'
<1>1. CommentsFit' /\ QueueFits'
  BY CommentsStep, QueueStep, CommentsKept, QueueKept DEF IInv
<1>2. JobFits'
  BY CommandStep, PeopleStep, ServeStep DEF Next
<1>3. PullsFit' /\ ReceiptsFit' /\ EndFits'
  BY PullsStep, ReceiptsStep, EndStep
<1> QED
  BY <1>1, <1>2, <1>3 DEF IInv

\* The broker knows at each step of a request what the step relies on.
THEOREM Invariance == Spec => []IInv
<1>1. Init => IInv
  BY InvInit
<1>2. IInv /\ [Next]_vars => IInv'
  BY InvStep
<1> QED
  BY <1>1, <1>2, PTL DEF Spec

\* The state of the broker, of its commands and of GitHub keeps its types
\* (github.py: UnixSocketBrokerServer, GitHubRestBackend).
THEOREM TypeCorrect == Spec => []TypeOK
<1>1. IInv => TypeOK
  BY DEF IInv, CommentsFit, PullsFit, QueueFits, JobFits, ReceiptsFit, EndFits, TypeOK
<1> QED
  BY <1>1, Invariance, PTL

\* A receipt the runtime has stored names the comment of its kind, which says
\* what the receipt says unless another text has been asked for since
\* (runtime.py: BrokerIssueComments).
THEOREM ReceiptsStand == Spec => []ReceiptsHold
<1>1. IInv => ReceiptsHold
  BY DEF IInv, ReceiptsFit
<1> QED
  BY <1>1, Invariance, PTL

-----------------------------------------------------------------------------
(* The refinement.                                                         *)

Said == {[kind |-> comments[i].kind, at |-> i] :
            i \in {i \in DOMAIN comments : comments[i].own}}
Bound == {binding} \ {None}
Closed == {p \in PullRequests : pulls[p] = "noWinner"}

LEMMA SaidStep ==
    ASSUME IInv, CommentsChange
    PROVE  \/ Said' = Said
           \/ /\ OwnWrite
              /\ \E k \in Kinds, place \in 1..MaxComments :
                   /\ \A s \in Said : s.kind # k
                   /\ Said' = Said \cup {[kind |-> k, at |-> place]}
<1>f. CommentsFit /\ QueueFits /\ JobFits /\ CommentsFit'
  BY CommentsKept DEF IInv
<1>k. /\ \A i \in DOMAIN comments :
           /\ i \in DOMAIN comments'
           /\ comments'[i].kind = comments[i].kind
           /\ comments'[i].own = comments[i].own
      /\ \A i \in DOMAIN comments' :
           i \notin DOMAIN comments /\ comments'[i].own =>
             OwnWrite /\ comments'[i].kind = Request.kind
  BY <1>f, CommentsKept
<1>1. CASE \A i \in DOMAIN comments' : comments'[i].own => i \in DOMAIN comments
  BY <1>1, <1>k DEF Said
<1>2. ASSUME NEW n \in DOMAIN comments', comments'[n].own, n \notin DOMAIN comments
      PROVE  /\ OwnWrite
             /\ \E k \in Kinds, place \in 1..MaxComments :
                  /\ \A s \in Said : s.kind # k
                  /\ Said' = Said \cup {[kind |-> k, at |-> place]}
  <2>1. OwnWrite /\ comments'[n].kind = Request.kind
    BY <1>k, <1>2
  <2>2. queue # <<>> /\ Request.op = "comment" /\ Own(Request.kind) = {}
    BY <1>f, <2>1 DEF OwnWrite, JobFits
  <2>3. Request.kind \in Kinds
    BY <1>f, <2>2, RequestType DEF ConnectionFits
  <2>4. n \in 1..MaxComments
    <3>1. /\ Len(comments') \in Nat /\ DOMAIN comments' = 1..Len(comments')
          /\ Len(comments') <= MaxComments
      BY <1>f DEF CommentsFit
    <3> QED
      BY <1>2, <3>1, BoundsAssumption
  <2>5. \A s \in Said : s.kind # Request.kind
    BY <2>2 DEF Said, Own
  <2>6. \A i \in DOMAIN comments' :
          comments'[i].own => i \in DOMAIN comments \/ i = n
    <3> SUFFICES ASSUME NEW i \in DOMAIN comments', comments'[i].own,
                        i \notin DOMAIN comments
                 PROVE  i = n
      OBVIOUS
    <3>1. comments'[i].kind = comments'[n].kind
      BY <1>k, <2>1
    <3> QED
      BY <1>2, <1>f, <3>1 DEF CommentsFit, OnePerKind
  <2>7. Said' = Said \cup {[kind |-> Request.kind, at |-> n]}
    BY <1>k, <1>2, <2>1, <2>6 DEF Said
  <2> QED
    BY <2>1, <2>3, <2>4, <2>5, <2>7
<1> QED
  BY <1>1, <1>2

LEMMA ClosedStep ==
    ASSUME IInv, At("patchPull"), ClosedPull
    PROVE  \/ Closed' = Closed
           \/ /\ binding \in Bound /\ binding \in PullRequests
              /\ \E s \in Said : s.kind = "final"
              /\ Closed' = Closed \cup {binding}
<1>1. /\ binding \in PullRequests /\ binding # None /\ queue # <<>>
      /\ Request.op = "close" /\ pulls \in [PullRequests -> PullStates] /\ QueueFits
  BY DEF IInv, JobFits, PullsFit, At
<1>2. Own("final") # {}
  BY <1>1, RequestType DEF ConnectionFits
<1>3. \E s \in Said : s.kind = "final"
  <2>1. PICK i \in Own("final") : TRUE
    BY <1>2
  <2>2. [kind |-> comments[i].kind, at |-> i] \in Said
    BY <2>1 DEF Own, Said
  <2> QED
    BY <2>1, <2>2 DEF Own
<1>4. CASE pulls[binding] # "open"
  BY <1>4 DEF ClosedPull, Closed
<1>5. CASE pulls[binding] = "open"
  <2>1. pulls' = [pulls EXCEPT ![binding] = "noWinner"]
    BY <1>5 DEF ClosedPull
  <2>2. Closed' = Closed \cup {binding}
    BY <1>1, <2>1 DEF Closed
  <2> QED
    BY <1>1, <1>3, <2>2 DEF Bound
<1> QED
  BY <1>4, <1>5
LEMMA ThreadInit ==
    ASSUME Init
    PROVE  Thread!Init
<1>1. Said = {} /\ Bound = {} /\ Closed = {}
  BY DEF Init, Said, Bound, Closed
<1> QED
  BY <1>1 DEF Thread!Init, Said, Bound, Closed

LEMMA ThreadStep ==
    ASSUME IInv, [Next]_vars
    PROVE  [Thread!Next]_(Thread!vars)
<1> DEFINE SayStep(k, place) ==
             /\ \A s \in Said : s.kind # k
             /\ Said' = Said \cup {[kind |-> k, at |-> place]}
             /\ Bound' = Bound /\ Closed' = Closed
           BindStep(p) ==
             Bound = {} /\ Bound' = {p} /\ Said' = Said /\ Closed' = Closed
           CloseStep(p) ==
             /\ p \in Bound /\ \E s \in Said : s.kind = "final"
             /\ Closed' = Closed \cup {p} /\ Said' = Said /\ Bound' = Bound
           ReopenStep(p) ==
             Closed' = Closed \ {p} /\ Said' = Said /\ Bound' = Bound
           Stutter == Said' = Said /\ Bound' = Bound /\ Closed' = Closed
           Mapped == \/ Stutter
                     \/ \E k \in Kinds, place \in 1..MaxComments : SayStep(k, place)
                     \/ \E p \in PullRequests :
                          BindStep(p) \/ CloseStep(p) \/ ReopenStep(p)
<1>0. JobFits /\ PullsFit
  BY DEF IInv
<1>s. \/ Said' = Said
      \/ \E k \in Kinds, place \in 1..MaxComments :
           /\ \A s \in Said : s.kind # k
           /\ Said' = Said \cup {[kind |-> k, at |-> place]}
  BY CommentsStep, SaidStep
<1>c. ASSUME UNCHANGED comments
      PROVE  Said' = Said
  BY <1>c DEF Said
<1>b. ASSUME UNCHANGED binding
      PROVE  Bound' = Bound
  BY <1>b DEF Bound
<1>p. ASSUME UNCHANGED pulls
      PROVE  Closed' = Closed
  BY <1>p DEF Closed
<1>1. ASSUME UNCHANGED <<pulls, binding>>
      PROVE  Mapped
  <2>1. Bound' = Bound /\ Closed' = Closed
    BY <1>1, <1>b, <1>p
  <2> HIDE DEF Said, Bound, Closed
  <2> QED
    BY <1>s, <2>1
<1>2. ASSUME Store
      PROVE  Mapped
  <2>1. /\ UNCHANGED <<comments, pulls>> /\ binding' = job.at
        /\ job.at \in PullRequests /\ binding \in {None, job.at}
    BY <1>2, <1>0 DEF Store, At, JobFits, github
  <2>2. Said' = Said /\ Closed' = Closed
    BY <2>1, <1>c, <1>p
  <2>3. Bound' = {job.at} /\ (Bound = {} \/ Bound = {job.at})
    BY <2>1, NumbersAssumption DEF Bound
  <2> HIDE DEF Said, Bound, Closed
  <2> QED
    BY <2>1, <2>2, <2>3
<1>3. ASSUME At("patchPull") /\ ClosedPull /\ UNCHANGED <<comments, binding>>
      PROVE  Mapped
  <2>1. Said' = Said /\ Bound' = Bound
    BY <1>3, <1>c, <1>b
  <2>2. \/ Closed' = Closed
        \/ /\ binding \in Bound /\ binding \in PullRequests
           /\ \E s \in Said : s.kind = "final"
           /\ Closed' = Closed \cup {binding}
    BY <1>3, ClosedStep
  <2> HIDE DEF Said, Bound, Closed
  <2> QED
    BY <2>1, <2>2
<1>4. ASSUME NEW p \in PullRequests, ChangePull(p)
      PROVE  Mapped
  <2>1. Said' = Said /\ Bound' = Bound
    BY <1>4, <1>c, <1>b DEF ChangePull
  <2>2. PICK change \in {<<"absent", "open">>, <<"open", "closed">>,
                         <<"closed", "open">>, <<"noWinner", "open">>,
                         <<"open", "merged">>} :
          pulls[p] = change[1] /\ pulls' = [pulls EXCEPT ![p] = change[2]]
    BY <1>4 DEF ChangePull
  <2>3. pulls'[p] # "noWinner"
    BY <1>0, <2>2 DEF PullsFit
  <2>4. \A q \in PullRequests : q # p => pulls'[q] = pulls[q]
    BY <1>0, <2>2 DEF PullsFit
  <2>5. Closed' = Closed \ {p}
    BY <2>3, <2>4 DEF Closed
  <2> HIDE DEF Said, Bound, Closed
  <2> QED
    BY <2>1, <2>5
<1>5. ASSUME PatchPull \/ CallFails
      PROVE  Mapped
  BY <1>1, <1>3, <1>5 DEF PatchPull, CallFails
<1>6. Mapped
  <2> HIDE DEF Mapped
  <2> QED
    BY <1>1, <1>2, <1>4, <1>5
    DEF Next, Command, UpsertComment, SignalNoWinner, EnsureBinding, Send, GiveUp,
        Serve, Accept, Verify, List, Post, Patch, Mentions, Pulls, VerifyBound,
        VerifyClose, Confirm, Reply, ReplyFails, AcceptNothing, IdleTimeout,
        ReplyUnheard, People, OtherComment, Mention, vars, github
<1> QED
  BY <1>6
  DEF Thread!Next, Thread!Say, Thread!Bind, Thread!Close, Thread!Reopen,
      Thread!vars, Said, Bound, Closed

\* Whatever fails and whoever gives up, the job has one comment of each kind,
\* keeps the pull request it was bound to, and closes none before its final
\* comment is written (docs/decisions/0008; github.py: GitHubRestBackend).
THEOREM ThreadKept == Spec => KeepsThread
<1>1. Init => Thread!Init
  BY ThreadInit
<1>2. IInv /\ [Next]_vars => [Thread!Next]_(Thread!vars)
  BY ThreadStep
<1> QED
  BY <1>1, <1>2, Invariance, PTL DEF Spec, KeepsThread, Thread!Spec
=============================================================================

---------------------------- MODULE IssueThread ----------------------------
(***************************************************************************)
(* What the broker promises of its writes (docs/decisions/0008): one       *)
(* comment of its own per logical kind, which it updates in place; one     *)
(* pull request, for good; and that pull request is closed as unsuccessful *)
(* only after the final comment has been written.                          *)
(***************************************************************************)
CONSTANTS
    Kinds,          \* logical kinds of comments, "final" among them
    PullRequests,
    Places          \* where comments stand on the issue

VARIABLES
    said,           \* own comments: their kinds and places
    bound,          \* the trusted pull request, if there is one
    closed          \* pull requests the broker has closed

vars == <<said, bound, closed>>

Init ==
    /\ said = {}
    /\ bound = {}
    /\ closed = {}

Say(k, place) ==
    /\ \A s \in said : s.kind # k
    /\ said' = said \cup {[kind |-> k, at |-> place]}
    /\ UNCHANGED <<bound, closed>>

Bind(p) ==
    /\ bound = {}
    /\ bound' = {p}
    /\ UNCHANGED <<said, closed>>

Close(p) ==
    /\ p \in bound
    /\ \E s \in said : s.kind = "final"
    /\ closed' = closed \cup {p}
    /\ UNCHANGED <<said, bound>>

\* The owner opens it again.
Reopen(p) ==
    /\ closed' = closed \ {p}
    /\ UNCHANGED <<said, bound>>

Next ==
    \/ \E k \in Kinds, place \in Places : Say(k, place)
    \/ \E p \in PullRequests : Bind(p) \/ Close(p) \/ Reopen(p)

Spec == Init /\ [][Next]_vars
=============================================================================

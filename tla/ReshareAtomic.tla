---------------------------- MODULE ReshareAtomic ----------------------------
(***************************************************************************)
(* What a reshare request promises its RPC caller (spec: reshare retries   *)
(* up to recalc_times times and reports a timeout when every attempt       *)
(* failed), with the worker, the channels and the loop counter left out.   *)
(* Attempts are made one after another while the request is unanswered     *)
(* and none has succeeded, at most RecalcTimes of them.  The caller gets   *)
(* one answer: after a success the group is told, the acceptance record    *)
(* written and the answer taken from whether that write succeeded, in one  *)
(* step; an error comes before any attempt, a timeout after RecalcTimes    *)
(* failed ones.                                                            *)
(***************************************************************************)
EXTENDS Naturals, Sequences

CONSTANTS
    RecalcTimes,  \* how many attempts a request may make
    Outcome       \* what one attempt may return; "ok" is its success

VARIABLES
    outcomes,     \* the result of each attempt, in order
    reply,        \* the answers given to the caller
    notified,     \* the group was told of the success
    accepted      \* the acceptance record says Success

\* Some attempt succeeded.
Ok == \E k \in 1..Len(outcomes) : outcomes[k] = "ok"

Init ==
    /\ outcomes = <<>>
    /\ reply = <<>>
    /\ notified = FALSE
    /\ accepted = FALSE

\* One more attempt, returning o.
Try(o) ==
    /\ reply = <<>>
    /\ ~Ok
    /\ Len(outcomes) < RecalcTimes
    /\ outcomes' = Append(outcomes, o)
    /\ UNCHANGED <<reply, notified, accepted>>

\* The success is announced and recorded; the answer says whether the
\* record was written.
Succeed(acceptOk) ==
    /\ reply = <<>>
    /\ Ok
    /\ notified' = TRUE
    /\ accepted' = acceptOk
    /\ reply' = <<IF acceptOk THEN "success" ELSE "error">>
    /\ UNCHANGED outcomes

\* The request is refused before it makes any attempt.
Refuse ==
    /\ reply = <<>>
    /\ outcomes = <<>>
    /\ reply' = <<"error">>
    /\ UNCHANGED <<outcomes, notified, accepted>>

\* Every allowed attempt failed.
GiveUp ==
    /\ reply = <<>>
    /\ ~Ok
    /\ Len(outcomes) = RecalcTimes
    /\ reply' = <<"timeout">>
    /\ UNCHANGED <<outcomes, notified, accepted>>

Next ==
    \/ \E o \in Outcome : Try(o)
    \/ \E acceptOk \in BOOLEAN : Succeed(acceptOk)
    \/ Refuse
    \/ GiveUp

Spec == Init /\ [][Next]_<<outcomes, reply, notified, accepted>>

=============================================================================

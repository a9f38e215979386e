----------------------------- MODULE ReshareRetry -----------------------------
(***************************************************************************)
(* One reshare request on one node, smpc/reqreshare.go: _reshare calls    *)
(* smpc_reshare, which runs ReShare_ec2 up to recalc_times times (clearing *)
(* the worker and sleeping between attempts) and puts the first success on *)
(* rch; _reshare then waits ch_t for rch, and on a result broadcasts      *)
(* SendReShareRes:Success, records it with AcceptReShare and answers the  *)
(* RPC channel ch.  Every step runs on the request's goroutine, in order.  *)
(* What ReShare_ec2 finds in the node's tables and in the group (the      *)
(* profile) is fixed for the request; whether the group is ready and      *)
(* whether processReshare succeeds is chosen per attempt.  Session ids are *)
(* the msgprex the attempt runs under.                                    *)
(***************************************************************************)
EXTENDS Naturals, Sequences

CONSTANTS
    RecalcTimes,   \* recalc_times
    Wsid           \* the request's session id (msgprex / wsid)

ASSUME RecalcAssumption == RecalcTimes \in Nat

\* What FindWorker, GetPubKeyData, getSkU1FromLocalDb and
\* GetIdReshareByGroupId find for this request.
Profile == [worker : BOOLEAN,   \* FindWorker(msgprex) succeeds
            groupid : BOOLEAN,  \* w.groupid != ""
            exists : BOOLEAN,   \* GetPubKeyData(pubkey) finds the key
            pkdata : BOOLEAN,   \* ... as a *PubKeyData with a GroupId
            sku1 : BOOLEAN,     \* the node's share is in the local db
            found : BOOLEAN]    \* the node is in the old group's id list

Outcome == {"ok", "err_groupid", "err_notready", "err_db", "err_proc"}
\* A value on rch: Ret and whether Err is set.
Res == [ret : BOOLEAN, err : BOOLEAN]
Reply == {"success", "error", "timeout"}

VARIABLES
    prof,       \* the request's profile
    pc,         \* where the request goroutine is
    i,          \* the loop counter of smpc_reshare
    sessions,   \* msgprex of each ReShare_ec2 attempt, in order
    outcomes,   \* result of each attempt, in order
    rch,        \* contents of rch (capacity 1)
    reply,      \* values sent on the RPC channel ch
    accepted,   \* AcceptReShare(..., "Success", ret) was called and succeeded
    notified    \* SendReShareRes:Success was sent to the group

vars == <<prof, pc, i, sessions, outcomes, rch, reply, accepted, notified>>

TypeOK ==
    /\ prof \in Profile
    /\ pc \in {"find", "attempt", "collect", "finish", "done"}
    /\ i \in 0..RecalcTimes
    /\ sessions \in Seq({Wsid})
    /\ outcomes \in Seq(Outcome)
    /\ rch \in Seq(Res)
    /\ reply \in Seq(Reply)
    /\ accepted \in BOOLEAN
    /\ notified \in BOOLEAN

Init ==
    /\ prof \in Profile
    /\ pc = "find"
    /\ i = 0
    /\ sessions = <<>>
    /\ outcomes = <<>>
    /\ rch = <<>>
    /\ reply = <<>>
    /\ accepted = FALSE
    /\ notified = FALSE

\* ReShare_ec2's early returns, in their order; then the DNode runs and
\* processReshare decides.
AttemptOutcome(p, ready, procOk) ==
    CASE ~p.groupid                         -> "err_groupid"
      [] ~ready                             -> "err_notready"
      [] p.exists /\ ~p.pkdata              -> "err_db"
      [] p.exists /\ ~p.sku1                -> "err_db"
      [] procOk                             -> "ok"
      [] OTHER                              -> "err_proc"

\* smpc_reshare: FindWorker, then the loop (which recalc_times = 0 skips).
FindWorker ==
    /\ pc = "find"
    /\ IF prof.worker
         THEN /\ pc' = IF RecalcTimes > 0 THEN "attempt" ELSE "collect"
              /\ UNCHANGED rch
         ELSE /\ rch' = <<[ret |-> FALSE, err |-> TRUE]>>
              /\ pc' = "collect"
    /\ UNCHANGED <<prof, i, sessions, outcomes, reply, accepted, notified>>

\* Mutant: the loop runs one attempt fewer than recalc_times.
Attempt_Short(ready, procOk) ==
    LET o == AttemptOutcome(prof, ready, procOk) IN
    /\ pc = "attempt"
    /\ sessions' = Append(sessions, Wsid)
    /\ outcomes' = Append(outcomes, o)
    /\ IF o = "ok"
         THEN /\ rch' = Append(rch, [ret |-> TRUE, err |-> FALSE])
              /\ pc' = "collect"
              /\ UNCHANGED i
         ELSE /\ i' = i + 1
              /\ pc' = IF i + 2 < RecalcTimes THEN "attempt" ELSE "collect"
              /\ UNCHANGED rch
    /\ UNCHANGED <<prof, reply, accepted, notified>>

\* Mutant: a failed attempt does not count against the loop bound.
Attempt_Unbounded(ready, procOk) ==
    LET o == AttemptOutcome(prof, ready, procOk) IN
    /\ pc = "attempt"
    /\ Len(outcomes) <= RecalcTimes
    /\ sessions' = Append(sessions, Wsid)
    /\ outcomes' = Append(outcomes, o)
    /\ IF o = "ok"
         THEN /\ rch' = Append(rch, [ret |-> TRUE, err |-> FALSE])
              /\ pc' = "collect"
              /\ UNCHANGED i
         ELSE /\ i' = i + 1
              /\ pc' = "attempt"
              /\ UNCHANGED rch
    /\ UNCHANGED <<prof, reply, accepted, notified>>

\* One iteration: drain ch1 (empty: ReShare_ec2 answers before it
\* returns), ReShare_ec2, GetChannelValue(ch_t, ch1); a success goes to
\* rch and breaks, a failure runs w.Clear2() and sleeps one second.
Attempt(ready, procOk) ==
    LET o == AttemptOutcome(prof, ready, procOk) IN
    /\ pc = "attempt"
    /\ sessions' = Append(sessions, Wsid)
    /\ outcomes' = Append(outcomes, o)
    /\ IF o = "ok"
         THEN /\ rch' = Append(rch, [ret |-> TRUE, err |-> FALSE])
              /\ pc' = "collect"
              /\ UNCHANGED i
         ELSE /\ i' = i + 1
              /\ pc' = IF i + 1 < RecalcTimes THEN "attempt" ELSE "collect"
              /\ UNCHANGED rch
    /\ UNCHANGED <<prof, reply, accepted, notified>>

\* Mutant: a plain receive on rch instead of the timed one.
Collect_NoTimer ==
    /\ pc = "collect"
    /\ rch # <<>>
    /\ IF Head(rch).ret
         THEN /\ pc' = "finish"
              /\ UNCHANGED reply
         ELSE /\ reply' = Append(reply, "error")
              /\ pc' = "done"
    /\ rch' = Tail(rch)
    /\ UNCHANGED <<prof, i, sessions, outcomes, accepted, notified>>

\* _reshare: GetChannelValue(ch_t, rch).  No value within ch_t is a
\* timeout error; an error value is passed on; a result goes on to finish.
Collect ==
    /\ pc = "collect"
    /\ IF rch # <<>> /\ Head(rch).ret
         THEN /\ pc' = "finish"
              /\ UNCHANGED reply
         ELSE /\ reply' = Append(reply, IF rch = <<>> THEN "timeout" ELSE "error")
              /\ pc' = "done"
    /\ rch' = IF rch = <<>> THEN rch ELSE Tail(rch)
    /\ UNCHANGED <<prof, i, sessions, outcomes, accepted, notified>>

\* Mutant: the error of AcceptReShare is answered and the success is too.
Finish_NoReturn(acceptOk) ==
    /\ pc = "finish"
    /\ notified' = TRUE
    /\ accepted' = acceptOk
    /\ reply' = IF acceptOk THEN Append(reply, "success")
                ELSE reply \o <<"error", "success">>
    /\ pc' = "done"
    /\ UNCHANGED <<prof, i, sessions, outcomes, rch>>

\* Mutant: the reply of AcceptReShare is not looked at.
Finish_IgnoreAccept(acceptOk) ==
    /\ pc = "finish"
    /\ notified' = TRUE
    /\ accepted' = acceptOk
    /\ reply' = Append(reply, "success")
    /\ pc' = "done"
    /\ UNCHANGED <<prof, i, sessions, outcomes, rch>>

\* FindWorker(wsid), SendMsgToSmpcGroup(...Success...), AcceptReShare with
\* status "Success"; its error is answered as an error, else the result.
Finish(acceptOk) ==
    /\ pc = "finish"
    /\ notified' = TRUE
    /\ accepted' = acceptOk
    /\ reply' = Append(reply, IF acceptOk THEN "success" ELSE "error")
    /\ pc' = "done"
    /\ UNCHANGED <<prof, i, sessions, outcomes, rch>>

Next ==
    \/ FindWorker
    \/ \E ready, procOk \in BOOLEAN : Attempt(ready, procOk)
    \/ Collect
    \/ \E acceptOk \in BOOLEAN : Finish(acceptOk)

\* The request goroutine runs until it returns.
Spec == Init /\ [][Next]_vars /\ WF_vars(Next)

-----------------------------------------------------------------------------
(* Properties.                                                             *)

\* The RPC caller of _reshare is answered exactly once: never twice, and
\* eventually, whatever the attempts return.
AtMostOneReply == Len(reply) <= 1
Answered == <>(Len(reply) = 1)

\* A "success" answer means an attempt produced the new share, the group
\* was told and the acceptance record says Success.
SuccessRecorded ==
    (\E k \in 1..Len(reply) : reply[k] = "success") =>
        /\ \E k \in 1..Len(outcomes) : outcomes[k] = "ok"
        /\ notified
        /\ accepted

\* The caller sees a timeout only when the node had a worker and all
\* recalc_times attempts failed.
TimeoutAfterRetries ==
    (\E k \in 1..Len(reply) : reply[k] = "timeout") =>
        /\ prof.worker
        /\ Len(outcomes) = RecalcTimes
        /\ \A k \in 1..Len(outcomes) : outcomes[k] # "ok"

\* The retry loop and the answer of _reshare as the spec describes them:
\* seen through the attempts, the answer and the two records, every step
\* of the request is a step of ReshareAtomic -- attempts stop at the first
\* success and after recalc_times, an error is answered only without a
\* worker or when AcceptReShare fails, and the group is told only of a
\* success.
Atomic == INSTANCE ReshareAtomic WITH outcomes <- outcomes, reply <- reply,
              notified <- notified, accepted <- accepted
AtomicReshare == Atomic!Spec

\* "Storage errors are reported immediately": no attempt follows one that
\* failed reading the node's tables.
NoRetryAfterStorageError ==
    \A k \in 1..Len(outcomes) : outcomes[k] = "err_db" => k = Len(outcomes)

====

-------------------------- MODULE ReshareRetryProofs --------------------------
(***************************************************************************)
(* Proofs about the reshare request goroutine, for every recalc_times.    *)
(***************************************************************************)
EXTENDS ReshareRetry, TLAPS

USE RecalcAssumption

\* Some attempt of ReShare_ec2 produced the new share.
Ok == \E k \in 1..Len(outcomes) : outcomes[k] = "ok"

\* Where the goroutine is, and what it has done by then: the loop counter
\* counts the failed attempts, rch holds at most the one value
\* smpc_reshare put on it, and the RPC channel is answered only at the end.
Progress ==
    /\ pc # "done" => reply = <<>>
    /\ pc = "done" => Len(reply) = 1
    /\ pc = "find" => i = 0 /\ outcomes = <<>> /\ rch = <<>>
    /\ pc = "attempt" =>
         /\ prof.worker /\ rch = <<>> /\ ~Ok
         /\ Len(outcomes) = i /\ i < RecalcTimes
    /\ pc = "collect" =>
         /\ Len(rch) <= 1
         /\ rch = <<>> => prof.worker /\ ~Ok /\ Len(outcomes) = RecalcTimes
         /\ rch # <<>> /\ rch[1].ret => Ok
    /\ pc = "finish" => Ok

\* The inductive invariant of the three safety properties.
IInv == TypeOK /\ Progress /\ SuccessRecorded /\ TimeoutAfterRetries

LEMMA IInvInit == Init => IInv
<1> SUFFICES ASSUME Init PROVE IInv
  OBVIOUS
<1>1. /\ prof \in Profile /\ pc = "find" /\ i = 0
      /\ sessions = <<>> /\ outcomes = <<>> /\ rch = <<>> /\ reply = <<>>
      /\ accepted = FALSE /\ notified = FALSE
  BY DEF Init
<1>2. TypeOK
  <2>1. accepted \in BOOLEAN /\ notified \in BOOLEAN
    BY <1>1, Zenon
  <2>2. /\ sessions \in Seq({Wsid}) /\ outcomes \in Seq(Outcome)
        /\ rch \in Seq(Res) /\ reply \in Seq(Reply)
    BY <1>1
  <2> QED
    BY <1>1, <2>1, <2>2 DEF TypeOK
<1>3. Progress
  BY <1>1 DEF Progress
<1>4. SuccessRecorded /\ TimeoutAfterRetries
  BY <1>1 DEF SuccessRecorded, TimeoutAfterRetries
<1> QED
  BY <1>2, <1>3, <1>4 DEF IInv


\* The outcome of an attempt is one of Outcome.
LEMMA OutcomeType ==
    ASSUME NEW p \in Profile, NEW ready \in BOOLEAN, NEW procOk \in BOOLEAN
    PROVE  AttemptOutcome(p, ready, procOk) \in Outcome
BY DEF AttemptOutcome, Outcome

LEMMA IInvStep == IInv /\ [Next]_vars => IInv'
<1> SUFFICES ASSUME IInv, [Next]_vars PROVE IInv'
  OBVIOUS
<1>0. TypeOK /\ Progress
  BY DEF IInv
<1>1. CASE FindWorker
  <2>1. /\ pc = "find" /\ i = 0 /\ outcomes = <<>> /\ rch = <<>> /\ reply = <<>>
    BY <1>0, <1>1 DEF FindWorker, Progress
  <2>2. /\ UNCHANGED <<prof, i, sessions, outcomes, reply, accepted, notified>>
        /\ \/ prof.worker /\ RecalcTimes > 0 /\ pc' = "attempt" /\ rch' = rch
           \/ prof.worker /\ RecalcTimes = 0 /\ pc' = "collect" /\ rch' = rch
           \/ ~prof.worker /\ pc' = "collect"
              /\ rch' = <<[ret |-> FALSE, err |-> TRUE]>>
    <3>1. /\ UNCHANGED <<prof, i, sessions, outcomes, reply, accepted, notified>>
          /\ IF prof.worker
               THEN /\ pc' = IF RecalcTimes > 0 THEN "attempt" ELSE "collect"
                    /\ UNCHANGED rch
               ELSE /\ rch' = <<[ret |-> FALSE, err |-> TRUE]>>
                    /\ pc' = "collect"
      BY <1>1, Zenon DEF FindWorker
    <3> QED
      BY <3>1, RecalcAssumption
  <2>3. TypeOK'
    <3>1. /\ prof' \in Profile /\ i' \in 0..RecalcTimes /\ sessions' \in Seq({Wsid})
          /\ outcomes' \in Seq(Outcome) /\ reply' \in Seq(Reply)
      BY <1>0, <2>2 DEF TypeOK
    <3>2. accepted' \in BOOLEAN /\ notified' \in BOOLEAN
      BY <1>0, <2>2, Zenon DEF TypeOK
    <3>3. [ret |-> FALSE, err |-> TRUE] \in Res
      BY Zenon DEF Res
    <3>4. /\ rch' = <<>> \/ rch' = <<[ret |-> FALSE, err |-> TRUE]>>
          /\ pc' \in {"attempt", "collect"}
      BY <2>1, <2>2, Zenon
    <3>5. rch' \in Seq(Res)
      <4>1. <<[ret |-> FALSE, err |-> TRUE]>> \in Seq(Res)
        BY <3>3
      <4>2. << >> \in Seq(Res)
        OBVIOUS
      <4> QED
        BY <3>4, <4>1, <4>2, Zenon
    <3>6. pc' \in {"find", "attempt", "collect", "finish", "done"}
      BY <3>4
    <3> QED
      BY <3>1, <3>2, <3>5, <3>6 DEF TypeOK
  <2>4. Progress'
    <3>1. CASE pc' = "attempt" /\ rch' = rch /\ RecalcTimes > 0
      BY <2>1, <2>2, <3>1 DEF Progress, Ok
    <3>2. CASE pc' = "collect" /\ rch' = rch /\ RecalcTimes = 0
      BY <2>1, <2>2, <3>2 DEF Progress, Ok
    <3>3. CASE pc' = "collect" /\ rch' = <<[ret |-> FALSE, err |-> TRUE]>>
      BY <2>1, <2>2, <3>3 DEF Progress, Ok
    <3> QED
      BY <2>2, <3>1, <3>2, <3>3, Zenon
  <2> QED
    BY <2>1, <2>2, <2>3, <2>4 DEF IInv, SuccessRecorded, TimeoutAfterRetries
<1>2. ASSUME NEW ready \in BOOLEAN, NEW procOk \in BOOLEAN, Attempt(ready, procOk)
      PROVE  IInv'
  <2> DEFINE o == AttemptOutcome(prof, ready, procOk)
  <2>1. /\ pc = "attempt"
        /\ sessions' = Append(sessions, Wsid)
        /\ outcomes' = Append(outcomes, o)
        /\ UNCHANGED <<prof, reply, accepted, notified>>
    BY <1>2, Zenon DEF Attempt
  <2>2. /\ prof.worker /\ rch = <<>> /\ ~Ok /\ Len(outcomes) = i
        /\ i < RecalcTimes /\ reply = <<>> /\ o \in Outcome
    BY <1>0, <2>1, OutcomeType DEF Progress, TypeOK
  <2>3. Ok' <=> o = "ok"
    BY <1>0, <2>1, <2>2, SMTT(30) DEF Ok, TypeOK
  <2>4. CASE o = "ok"
    <3>0. rch' = Append(rch, [ret |-> TRUE, err |-> FALSE]) /\ pc' = "collect" /\ i' = i
      BY <1>2, <2>4, Zenon DEF Attempt
    <3>1. rch' = <<[ret |-> TRUE, err |-> FALSE]>> /\ pc' = "collect" /\ i' = i
      BY <2>2, <3>0
    <3> QED
      BY <1>0, <2>1, <2>2, <2>3, <2>4, <3>1
         DEF IInv, TypeOK, Progress, SuccessRecorded, TimeoutAfterRetries, Res
  <2>5. CASE o # "ok"
    <3>1. /\ i' = i + 1 /\ rch' = rch
          /\ pc' = IF i + 1 < RecalcTimes THEN "attempt" ELSE "collect"
      BY <1>2, <2>5, Zenon DEF Attempt
    <3>2. TypeOK'
      BY <1>0, <2>1, <2>2, <3>1 DEF TypeOK
    <3>3. Progress'
      BY <2>1, <2>2, <2>3, <2>5, <3>1 DEF Progress
    <3> QED
      BY <2>1, <2>2, <3>2, <3>3 DEF IInv, SuccessRecorded, TimeoutAfterRetries
  <2> QED
    BY <2>4, <2>5
<1>3. CASE Collect
  <2>1. /\ pc = "collect" /\ reply = <<>>
        /\ UNCHANGED <<prof, i, sessions, outcomes, accepted, notified>>
    BY <1>0, <1>3, Zenon DEF Collect, Progress
  <2>2. /\ Len(rch) <= 1
        /\ rch = <<>> => prof.worker /\ ~Ok /\ Len(outcomes) = RecalcTimes
        /\ rch # <<>> /\ rch[1].ret => Ok
    BY <1>0, <2>1 DEF Progress
  <2>3. CASE rch # <<>> /\ Head(rch).ret
    <3>1. pc' = "finish" /\ reply' = reply /\ rch' = Tail(rch)
      BY <1>3, <2>3, Zenon DEF Collect
    <3> QED
      BY <1>0, <2>1, <2>2, <2>3, <3>1
         DEF IInv, TypeOK, Progress, Ok, SuccessRecorded, TimeoutAfterRetries
  <2>4. CASE rch = <<>>
    <3>0. /\ pc' = "done" /\ rch' = rch
          /\ reply' = Append(reply, IF rch = <<>> THEN "timeout" ELSE "error")
      BY <1>3, <2>4, Zenon DEF Collect
    <3>1. pc' = "done" /\ reply' = <<"timeout">> /\ rch' = rch
      BY <2>1, <2>4, <3>0
    <3> QED
      BY <1>0, <2>1, <2>2, <2>4, <3>1
         DEF IInv, TypeOK, Progress, Ok, SuccessRecorded, TimeoutAfterRetries, Reply
  <2>5. CASE rch # <<>> /\ ~Head(rch).ret
    <3>0. /\ pc' = "done" /\ rch' = Tail(rch)
          /\ reply' = Append(reply, IF rch = <<>> THEN "timeout" ELSE "error")
      BY <1>3, <2>5, Zenon DEF Collect
    <3>1. pc' = "done" /\ reply' = <<"error">> /\ rch' = Tail(rch)
      BY <2>1, <2>5, <3>0
    <3> QED
      BY <1>0, <2>1, <2>2, <2>5, <3>1
         DEF IInv, TypeOK, Progress, Ok, SuccessRecorded, TimeoutAfterRetries, Reply
  <2> QED
    BY <2>3, <2>4, <2>5
<1>4. ASSUME NEW acceptOk \in BOOLEAN, Finish(acceptOk) PROVE IInv'
  <2>1. /\ pc = "finish" /\ pc' = "done"
        /\ notified' = TRUE /\ accepted' = acceptOk
        /\ reply' = Append(reply, IF acceptOk THEN "success" ELSE "error")
        /\ UNCHANGED <<prof, i, sessions, outcomes, rch>>
    BY <1>4, Zenon DEF Finish
  <2>2. Ok /\ reply = <<>>
    BY <1>0, <2>1 DEF Progress
  <2>3. TypeOK'
    <3>1. accepted' \in BOOLEAN /\ notified' \in BOOLEAN
      BY <2>1, Zenon
    <3> QED
      BY <1>0, <2>1, <3>1 DEF TypeOK, Reply
  <2>4. SuccessRecorded'
    <3>1. CASE acceptOk
      BY <2>1, <2>2, <3>1, Zenon DEF SuccessRecorded, Ok
    <3>2. CASE ~acceptOk
      BY <2>1, <2>2, <3>2 DEF SuccessRecorded
    <3> QED
      BY <3>1, <3>2
  <2> QED
    BY <2>1, <2>2, <2>3, <2>4 DEF IInv, Progress, TimeoutAfterRetries
<1>5. CASE UNCHANGED vars
  BY <1>5 DEF vars, IInv, TypeOK, Progress, Ok, SuccessRecorded, TimeoutAfterRetries
<1> QED
  BY <1>1, <1>2, <1>3, <1>4, <1>5 DEF Next


\* For every recalc_times: the RPC caller of _reshare gets at most one
\* answer, whatever each attempt of ReShare_ec2 and AcceptReShare return.
THEOREM OneReply == Spec => []AtMostOneReply
<1>1. IInv => AtMostOneReply
  <2> SUFFICES ASSUME IInv PROVE AtMostOneReply
    OBVIOUS
  <2>1. pc # "done" => reply = <<>>
    BY DEF IInv, Progress
  <2>2. pc = "done" => Len(reply) = 1
    BY DEF IInv, Progress
  <2>4. CASE pc = "done"
    <3>1. Len(reply) = 1
      BY <2>2, <2>4
    <3> QED
      BY <3>1 DEF AtMostOneReply
  <2>5. CASE pc # "done"
    <3>1. reply = <<>>
      BY <2>1, <2>5
    <3>2. Len(reply) = 0
      BY <3>1
    <3> QED
      BY <3>2 DEF AtMostOneReply
  <2> QED
    BY <2>4, <2>5
<1> QED
  BY <1>1, IInvInit, IInvStep, PTL DEF Spec

\* For every recalc_times: _reshare answers "success" only after an attempt
\* produced the new share, SendReShareRes:Success went to the group and
\* AcceptReShare recorded the result.
THEOREM Recorded == Spec => []SuccessRecorded
<1> QED
  BY IInvInit, IInvStep, PTL DEF Spec, IInv

\* For every recalc_times: a timeout answer means the node had a worker
\* and each of the recalc_times attempts failed.
THEOREM TimeoutOnlyAfterRetries == Spec => []TimeoutAfterRetries
<1> QED
  BY IInvInit, IInvStep, PTL DEF Spec, IInv


\* For every recalc_times: the request goroutine's state stays well typed;
\* in particular the loop counter of smpc_reshare never passes
\* recalc_times and rch never holds a value of another shape.
THEOREM TypeCorrect == Spec => []TypeOK
<1> QED
  BY IInvInit, IInvStep, PTL DEF Spec, IInv


-----------------------------------------------------------------------------
(* The request refines the atomic reshare of ReshareAtomic.               *)

\* An error value on rch is the one FindWorker puts there when the node
\* has no worker, before any attempt.
ErrorFirst ==
    pc = "collect" /\ rch # <<>> /\ ~rch[1].ret => outcomes = <<>>

\* The invariant the refinement rests on.
RInv == IInv /\ ErrorFirst


LEMMA RInvInit == Init => RInv
BY IInvInit DEF Init, RInv, ErrorFirst

LEMMA RInvStep == RInv /\ [Next]_vars => RInv'
<1> SUFFICES ASSUME RInv, [Next]_vars PROVE RInv'
  OBVIOUS
<1>0. IInv' /\ TypeOK /\ Progress
  BY IInvStep DEF RInv, IInv
<1>1. CASE FindWorker
  <2>1. outcomes = <<>> /\ outcomes' = outcomes
    BY <1>0, <1>1 DEF FindWorker, Progress
  <2> QED
    BY <1>0, <2>1 DEF RInv, ErrorFirst
<1>2. ASSUME NEW ready \in BOOLEAN, NEW procOk \in BOOLEAN, Attempt(ready, procOk)
      PROVE  RInv'
  <2> DEFINE o == AttemptOutcome(prof, ready, procOk)
  <2>1. pc = "attempt" /\ rch = <<>>
    BY <1>0, <1>2 DEF Attempt, Progress
  <2>2. CASE o = "ok"
    <3>1. rch' = Append(rch, [ret |-> TRUE, err |-> FALSE])
      BY <1>2, <2>2, Zenon DEF Attempt
    <3> QED
      BY <1>0, <2>1, <3>1 DEF RInv, ErrorFirst
  <2>3. CASE o # "ok"
    <3>1. rch' = rch
      BY <1>2, <2>3, Zenon DEF Attempt
    <3> QED
      BY <1>0, <2>1, <3>1 DEF RInv, ErrorFirst
  <2> QED
    BY <2>2, <2>3
<1>3. CASE Collect
  <2>1. pc' \in {"finish", "done"}
    BY <1>3, Zenon DEF Collect
  <2> QED
    BY <1>0, <2>1 DEF RInv, ErrorFirst
<1>4. ASSUME NEW acceptOk \in BOOLEAN, Finish(acceptOk) PROVE RInv'
  <2>1. pc' = "done"
    BY <1>4, Zenon DEF Finish
  <2> QED
    BY <1>0, <2>1 DEF RInv, ErrorFirst
<1>5. CASE UNCHANGED vars
  BY <1>0, <1>5 DEF vars, RInv, ErrorFirst
<1> QED
  BY <1>1, <1>2, <1>3, <1>4, <1>5 DEF Next

LEMMA RefInit == Init => Atomic!Init
BY DEF Init, Atomic!Init

\* Every step of the request is a step of ReshareAtomic on the attempts,
\* the answer and the two records, or leaves them unchanged.
LEMMA RefStep ==
    RInv /\ [Next]_vars => [Atomic!Next]_<<outcomes, reply, notified, accepted>>
<1> SUFFICES ASSUME RInv, [Next]_vars
             PROVE  [Atomic!Next]_<<outcomes, reply, notified, accepted>>
  OBVIOUS
<1>0. TypeOK /\ Progress /\ ErrorFirst
  BY DEF RInv, IInv
<1>1. CASE FindWorker
  BY <1>1, Zenon DEF FindWorker
<1>2. ASSUME NEW ready \in BOOLEAN, NEW procOk \in BOOLEAN, Attempt(ready, procOk)
      PROVE  Atomic!Try(AttemptOutcome(prof, ready, procOk))
  <2> DEFINE o == AttemptOutcome(prof, ready, procOk)
  <2>1. /\ pc = "attempt"
        /\ outcomes' = Append(outcomes, o)
        /\ UNCHANGED <<reply, accepted, notified>>
    BY <1>2, Zenon DEF Attempt
  <2>2. reply = <<>> /\ ~Ok /\ Len(outcomes) < RecalcTimes
    BY <1>0, <2>1 DEF Progress
  <2> QED
    BY <2>1, <2>2 DEF Atomic!Try, Atomic!Ok, Ok
<1>3. CASE Collect
  <2>1. /\ pc = "collect" /\ reply = <<>>
        /\ UNCHANGED <<outcomes, accepted, notified>>
    BY <1>0, <1>3, Zenon DEF Collect, Progress
  <2>2. CASE rch # <<>> /\ Head(rch).ret
    <3>1. reply' = reply
      BY <1>3, <2>2, Zenon DEF Collect
    <3> QED
      BY <2>1, <3>1
  <2>3. CASE rch = <<>>
    <3>1. reply' = Append(reply, "timeout")
      BY <1>3, <2>3, Zenon DEF Collect
    <3>2. ~Ok /\ Len(outcomes) = RecalcTimes
      BY <1>0, <2>1, <2>3 DEF Progress
    <3> QED
      BY <2>1, <3>1, <3>2 DEF Atomic!Next, Atomic!GiveUp, Atomic!Ok, Ok
  <2>4. CASE rch # <<>> /\ ~Head(rch).ret
    <3>1. reply' = Append(reply, "error")
      BY <1>3, <2>4, Zenon DEF Collect
    <3>2. outcomes = <<>>
      BY <1>0, <2>1, <2>4 DEF ErrorFirst, TypeOK
    <3> QED
      BY <2>1, <3>1, <3>2 DEF Atomic!Next, Atomic!Refuse
  <2> QED
    BY <2>2, <2>3, <2>4
<1>4. ASSUME NEW acceptOk \in BOOLEAN, Finish(acceptOk)
      PROVE  Atomic!Succeed(acceptOk)
  <2>1. /\ pc = "finish"
        /\ notified' = TRUE /\ accepted' = acceptOk
        /\ reply' = Append(reply, IF acceptOk THEN "success" ELSE "error")
        /\ UNCHANGED outcomes
    BY <1>4, Zenon DEF Finish
  <2>2. Ok /\ reply = <<>>
    BY <1>0, <2>1 DEF Progress
  <2> QED
    BY <2>1, <2>2 DEF Atomic!Succeed, Atomic!Ok, Ok
<1>5. CASE UNCHANGED vars
  BY <1>5 DEF vars
<1>6. \A ready, procOk \in BOOLEAN : AttemptOutcome(prof, ready, procOk) \in Outcome
  BY <1>0, OutcomeType DEF TypeOK
<1> QED
  BY <1>1, <1>2, <1>3, <1>4, <1>5, <1>6 DEF Next, Atomic!Next

\* For every recalc_times, whatever each attempt of ReShare_ec2 and
\* AcceptReShare return, _reshare implements the atomic reshare of
\* ReshareAtomic: attempts stop at the first success and after
\* recalc_times, the group is told and the record written only after a
\* success, an error is answered only before any attempt or when the
\* record is not written, and a timeout only after every attempt failed.
THEOREM Refinement == Spec => AtomicReshare
<1> QED
  BY RInvInit, RInvStep, RefInit, RefStep, PTL
     DEF Spec, AtomicReshare, Atomic!Spec

=============================================================================

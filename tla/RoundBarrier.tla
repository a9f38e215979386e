---------------------------- MODULE RoundBarrier ----------------------------
(***************************************************************************)
(* What the smpc.Round contract promises a session (spec section 4.3),     *)
(* with the messages left out: every party walks the rounds 0 ..           *)
(* LastRound one at a time, and a party leaves round r only once every     *)
(* party has reached round r, a barrier between consecutive rounds.  A     *)
(* party ends with its save data only in the terminal round, aborts only   *)
(* when the Start of a round after 0 and before LastRound fails, and may   *)
(* time out while running; an ended party takes no further step.          *)
(***************************************************************************)
EXTENDS Naturals

CONSTANTS
    Party,        \* the parties of the session
    LastRound     \* the terminal round

VARIABLES
    round,        \* round[p]: the round p is in
    status        \* "running", "done", "aborted" or "timeout"

Init ==
    /\ round = [p \in Party |-> 0]
    /\ status = [p \in Party |-> "running"]

\* p leaves its round, which every party has reached.
Advance(p) ==
    /\ status[p] = "running"
    /\ round[p] < LastRound
    /\ \A q \in Party : round[p] <= round[q]
    /\ round' = [round EXCEPT ![p] = @ + 1]
    /\ UNCHANGED status

\* p hands out its save data in the terminal round.
Finish(p) ==
    /\ status[p] = "running"
    /\ round[p] = LastRound
    /\ status' = [status EXCEPT ![p] = "done"]
    /\ UNCHANGED round

\* The Start of one of the rounds between 0 and LastRound fails at p: a
\* local error, or the commitment check of the verifying round.
Abort(p) ==
    /\ status[p] = "running"
    /\ 0 < round[p] /\ round[p] < LastRound
    /\ status' = [status EXCEPT ![p] = "aborted"]
    /\ UNCHANGED round

\* p stops waiting.
Expire(p) ==
    /\ status[p] = "running"
    /\ status' = [status EXCEPT ![p] = "timeout"]
    /\ UNCHANGED round

Next == \E p \in Party : Advance(p) \/ Finish(p) \/ Abort(p) \/ Expire(p)

Spec == Init /\ [][Next]_<<round, status>>

=============================================================================

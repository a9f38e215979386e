----------------------------- MODULE RoundEngine -----------------------------
(***************************************************************************)
(* One MPC session (keygen, signing or reshare) run by N parties, each     *)
(* driven by its DNode engine through the smpc.Round contract:             *)
(*   Start()     -- round_N.go Start: resetOK, local step, broadcast       *)
(*   CanAccept() -- the message type matches and it is a broadcast         *)
(*   Update()    -- walk the round's message slice, mark ok[j], complete   *)
(*                  when every slot holds an accepted message              *)
(*   NextRound() -- started := false, move to round N+1                    *)
(* Round 0 collects presence messages by append (kgRound0Messages,         *)
(* reshareRound0Messages); rounds 1 .. LastRound-1 keep one slot per       *)
(* party index (signRound1Messages[curIndex] = srm); round VerifyRound     *)
(* checks, in Start, every decommitment of round VerifyRound-1 against its *)
(* commitment (eddsa signing round_6: ed.Verify(CSB, DSB)); round          *)
(* LastRound is terminal: Start writes the save data to the end channel.   *)
(* Cryptographic data is abstracted to whether a message is consistent     *)
(* with its sender's commitment (Good) or not (Bad).                       *)
(***************************************************************************)
EXTENDS Naturals, Sequences, FiniteSets

CONSTANTS
    N,            \* number of parties in the session (dnodecount / len(idsign))
    LastRound,    \* the terminal round (round7)
    VerifyRound,  \* the round whose Start verifies the decommitments (round6)
    Faulty,       \* parties whose own decommitment does not open their commitment
                  \* and who may send either version to each peer
    Lossy,        \* whether the transport may lose a message
    StartErrors,  \* whether a slot round's Start may fail on a local error
    MaxDup        \* bound on duplicated deliveries

ASSUME NAssumption == N \in Nat \ {0}
ASSUME RoundAssumption ==
    /\ LastRound \in Nat /\ VerifyRound \in Nat
    /\ 1 < VerifyRound /\ VerifyRound < LastRound
ASSUME FaultyAssumption == Faulty \subseteq 1..N
ASSUME LossyAssumption == Lossy \in BOOLEAN
ASSUME StartErrorsAssumption == StartErrors \in BOOLEAN
ASSUME MaxDupAssumption == MaxDup \in Nat

Party == 1..N
DecommitRound == VerifyRound - 1
\* Rounds whose messages live in an indexed slice (round 0 uses append).
SlotRound == 1..(LastRound - 1)
Nil == "nil"
Good == "good"
Bad == "bad"
Msg == [from : Party, to : Party, rnd : 0..(LastRound - 1), val : {Good, Bad}]

VARIABLES
    round,    \* round[p]: round.number of p's current round object
    started,  \* started[p]: round.started
    ok,       \* ok[p][j]: round.ok, make([]bool, dnodecount)
    list0,    \* list0[p]: senders appended to temp.kgRound0Messages
    store,    \* store[p][r][j]: temp.signRound<r>Messages[j], Nil if none
    status,   \* "running", "done" (save sent on end), "aborted", "timeout"
    net,      \* messages written to out and not yet received
    sent,     \* every message ever sent (for duplicated delivery)
    dups,     \* duplicated deliveries so far
    lost      \* whether some message has been lost

vars == <<round, started, ok, list0, store, status, net, sent, dups, lost>>

TypeOK ==
    /\ round \in [Party -> 0..LastRound]
    /\ started \in [Party -> BOOLEAN]
    /\ ok \in [Party -> [Party -> BOOLEAN]]
    /\ list0 \in [Party -> Seq(Party)]
    /\ store \in [Party -> [SlotRound -> [Party -> {Nil, Good, Bad}]]]
    /\ status \in [Party -> {"running", "done", "aborted", "timeout"}]
    /\ net \subseteq Msg
    /\ sent \subseteq Msg
    /\ dups \in 0..MaxDup
    /\ lost \in BOOLEAN

Init ==
    /\ round = [p \in Party |-> 0]
    /\ started = [p \in Party |-> FALSE]
    /\ ok = [p \in Party |-> [j \in Party |-> FALSE]]
    /\ list0 = [p \in Party |-> <<>>]
    /\ store = [p \in Party |-> [r \in SlotRound |-> [j \in Party |-> Nil]]]
    /\ status = [p \in Party |-> "running"]
    /\ net = {}
    /\ sent = {}
    /\ dups = 0
    /\ lost = FALSE

-----------------------------------------------------------------------------
(* Helpers of the Round implementations.                                   *)

\* resetOK(): every entry of round.ok back to false.
resetOK == [j \in Party |-> FALSE]

\* The values p's message of round r may carry, to itself or to a peer: a
\* faulty party may equivocate on its decommitment.
Sendable(p, r) == IF r = DecommitRound /\ p \in Faulty THEN {Good, Bad} ELSE {Good}

\* round.out <- msg: the transport fans a broadcast out to every other
\* party; vals[q] is the version q receives.
Bcast(p, r, vals) == {[from |-> p, to |-> q, rnd |-> r, val |-> vals[q]] :
                         q \in Party \ {p}}

\* The indices Update walks: the appended round-0 slice, or the fixed slice.
Slots(p) == IF round[p] = 0 THEN 1..Len(list0[p]) ELSE Party

\* msg != nil && CanAccept(msg): appended round-0 entries are never nil.
Present(p, j) == round[p] = 0 \/ store[p][round[p]][j] # Nil

\* The loop of Update reaches index j: no earlier index stopped it.
Reached(p, j) == \A i \in 1..j : ok[p][i] \/ Present(p, i)

\* Update returns (true, nil).
Complete(p) == \A j \in Slots(p) : ok[p][j] \/ Present(p, j)

\* round6 Start: ed.Verify(msg4.CSB, msg5.DSB) for every k in idsign.
DecommitsVerify(p) == \A k \in Party : store[p][DecommitRound][k] = Good

-----------------------------------------------------------------------------
(* Actions.                                                                *)

\* Mutant: Start that leaves the ok bitmap of the previous round in place.
StartSend_NoReset(p) ==
    /\ status[p] = "running"
    /\ ~started[p]
    /\ round[p] < LastRound
    /\ round[p] = VerifyRound => DecommitsVerify(p)
    /\ \E vals \in [Party -> Sendable(p, round[p])] :
        /\ started' = [started EXCEPT ![p] = TRUE]
        /\ UNCHANGED ok
        /\ IF round[p] = 0
             THEN /\ list0' = [list0 EXCEPT ![p] = Append(@, p)]
                  /\ UNCHANGED store
             ELSE /\ store' = [store EXCEPT ![p][round[p]][p] = vals[p]]
                  /\ UNCHANGED list0
        /\ net' = net \cup Bcast(p, round[p], vals)
        /\ sent' = sent \cup Bcast(p, round[p], vals)
        /\ UNCHANGED <<round, status, dups, lost>>

\* Mutant: the round bound off by one, the terminal round also broadcasting.
StartSend_PastLast(p) ==
    /\ status[p] = "running"
    /\ ~started[p]
    /\ round[p] <= LastRound
    /\ round[p] = VerifyRound => DecommitsVerify(p)
    /\ \E vals \in [Party -> Sendable(p, round[p])] :
        /\ started' = [started EXCEPT ![p] = TRUE]
        /\ ok' = [ok EXCEPT ![p] = resetOK]
        /\ IF round[p] = 0
             THEN /\ list0' = [list0 EXCEPT ![p] = Append(@, p)]
                  /\ UNCHANGED store
             ELSE /\ store' = [store EXCEPT ![p][round[p]][p] = vals[p]]
                  /\ UNCHANGED list0
        /\ net' = net \cup Bcast(p, round[p], vals)
        /\ sent' = sent \cup Bcast(p, round[p], vals)
        /\ UNCHANGED <<round, status, dups, lost>>

\* Mutant: round6 Start that skips the commitment check.
StartSend_NoVerify(p) ==
    /\ status[p] = "running"
    /\ ~started[p]
    /\ round[p] < LastRound
    /\ \E vals \in [Party -> Sendable(p, round[p])] :
        /\ started' = [started EXCEPT ![p] = TRUE]
        /\ ok' = [ok EXCEPT ![p] = resetOK]
        /\ IF round[p] = 0
             THEN /\ list0' = [list0 EXCEPT ![p] = Append(@, p)]
                  /\ UNCHANGED store
             ELSE /\ store' = [store EXCEPT ![p][round[p]][p] = vals[p]]
                  /\ UNCHANGED list0
        /\ net' = net \cup Bcast(p, round[p], vals)
        /\ sent' = sent \cup Bcast(p, round[p], vals)
        /\ UNCHANGED <<round, status, dups, lost>>

\* Start() of a round that broadcasts: round 0 appends its own presence
\* message, a slot round stores its own message at its index; both send.
StartSend(p) ==
    /\ status[p] = "running"
    /\ ~started[p]
    /\ round[p] < LastRound
    /\ round[p] = VerifyRound => DecommitsVerify(p)
    /\ \E vals \in [Party -> Sendable(p, round[p])] :
        /\ started' = [started EXCEPT ![p] = TRUE]
        /\ ok' = [ok EXCEPT ![p] = resetOK]
        /\ IF round[p] = 0
             THEN /\ list0' = [list0 EXCEPT ![p] = Append(@, p)]
                  /\ UNCHANGED store
             ELSE /\ store' = [store EXCEPT ![p][round[p]][p] = vals[p]]
                  /\ UNCHANGED list0
        /\ net' = net \cup Bcast(p, round[p], vals)
        /\ sent' = sent \cup Bcast(p, round[p], vals)
        /\ UNCHANGED <<round, status, dups, lost>>

\* round6 Start: a commitment does not open, Start returns an error and the
\* session aborts.
StartVerifyFail(p) ==
    /\ status[p] = "running"
    /\ ~started[p]
    /\ round[p] = VerifyRound
    /\ ~DecommitsVerify(p)
    /\ started' = [started EXCEPT ![p] = TRUE]
    /\ ok' = [ok EXCEPT ![p] = resetOK]
    /\ status' = [status EXCEPT ![p] = "aborted"]
    /\ UNCHANGED <<round, list0, store, net, sent, dups, lost>>

\* round1 Start after started := true and ResetOK: GetDNodeIDIndex, the
\* unsigned hash, the randomness, Commit or Prove2 fails, Start returns the
\* error before it sends, and the session aborts.  Round 0 and the terminal
\* round have no such error.
StartError(p) ==
    /\ StartErrors
    /\ status[p] = "running"
    /\ ~started[p]
    /\ round[p] \in SlotRound
    /\ started' = [started EXCEPT ![p] = TRUE]
    /\ ok' = [ok EXCEPT ![p] = resetOK]
    /\ status' = [status EXCEPT ![p] = "aborted"]
    /\ UNCHANGED <<round, list0, store, net, sent, dups, lost>>

\* round7 Start: round.end <- *round.Save.
StartTerminal(p) ==
    /\ status[p] = "running"
    /\ ~started[p]
    /\ round[p] = LastRound
    /\ started' = [started EXCEPT ![p] = TRUE]
    /\ ok' = [ok EXCEPT ![p] = resetOK]
    /\ status' = [status EXCEPT ![p] = "done"]
    /\ UNCHANGED <<round, list0, store, net, sent, dups, lost>>

\* Mutant: a message for another round than the current one is dropped
\* instead of buffered.
StoreMsg_NoBuffer(p, m) ==
    IF m.rnd # round[p]
      THEN UNCHANGED <<list0, store>>
      ELSE IF m.rnd = 0
      THEN /\ list0' = [list0 EXCEPT ![p] =
                          IF \E i \in 1..Len(@) : @[i] = m.from
                            THEN @ ELSE Append(@, m.from)]
           /\ UNCHANGED store
      ELSE /\ store' = [store EXCEPT ![p][m.rnd][m.from] = m.val]
           /\ UNCHANGED list0

\* The DNode stores an inbound message under its round, for the current
\* round or buffered for a later one; round 0 messages are appended once
\* per sender, as messages are addressed by (session, sender, round).
StoreMsg(p, m) ==
    IF m.rnd = 0
      THEN /\ list0' = [list0 EXCEPT ![p] =
                          IF \E i \in 1..Len(@) : @[i] = m.from
                            THEN @ ELSE Append(@, m.from)]
           /\ UNCHANGED store
      ELSE /\ store' = [store EXCEPT ![p][m.rnd][m.from] = m.val]
           /\ UNCHANGED list0

Deliver(p, m) ==
    /\ m \in net
    /\ m.to = p
    /\ status[p] = "running"
    /\ StoreMsg(p, m)
    /\ net' = net \ {m}
    /\ UNCHANGED <<round, started, ok, status, sent, dups, lost>>

\* Update() after a delivery; when it returns true, NextRound().
UpdateRound(p) ==
    /\ status[p] = "running"
    /\ started[p]
    /\ round[p] < LastRound
    /\ ok' = [ok EXCEPT ![p] =
                [j \in Party |-> ok[p][j] \/ (j \in Slots(p) /\ Reached(p, j))]]
    /\ IF Complete(p)
         THEN /\ started' = [started EXCEPT ![p] = FALSE]
              /\ round' = [round EXCEPT ![p] = @ + 1]
         ELSE UNCHANGED <<started, round>>
    /\ UNCHANGED <<list0, store, status, net, sent, dups, lost>>

\* The transport delivers a message that was already received once more.
Duplicate(m) ==
    /\ m \in sent \ net
    /\ dups < MaxDup
    /\ net' = net \cup {m}
    /\ dups' = dups + 1
    /\ UNCHANGED <<round, started, ok, list0, store, status, sent, lost>>

\* The transport loses a message.
Lose(m) ==
    /\ Lossy
    /\ m \in net
    /\ net' = net \ {m}
    /\ lost' = TRUE
    /\ UNCHANGED <<round, started, ok, list0, store, status, sent, dups>>

\* p waits in a round it cannot complete with nothing in flight to it, or
\* its session has ended.
Stalled(p) ==
    \/ status[p] # "running"
    \/ /\ started[p]
       /\ round[p] < LastRound
       /\ ~Complete(p)
       /\ \A m \in net : m.to # p

\* Mutant: the timer watches the whole transport, not p's own inbox.
Timeout_WholeNet(p) ==
    /\ status[p] = "running"
    /\ \A q \in Party : Stalled(q)
    /\ net = {}
    /\ status' = [status EXCEPT ![p] = "timeout"]
    /\ UNCHANGED <<round, started, ok, list0, store, net, sent, dups, lost>>

\* wait_msg expires.  The timer is taken to be longer than any step of a
\* live peer, so it fires only once no running party can move any more.
Timeout(p) ==
    /\ status[p] = "running"
    /\ \A q \in Party : Stalled(q)
    /\ status' = [status EXCEPT ![p] = "timeout"]
    /\ UNCHANGED <<round, started, ok, list0, store, net, sent, dups, lost>>

Next ==
    \/ \E p \in Party :
         \/ StartSend(p) \/ StartError(p) \/ StartVerifyFail(p)
         \/ StartTerminal(p) \/ UpdateRound(p) \/ Timeout(p)
         \/ \E m \in net : Deliver(p, m)
    \/ \E m \in sent : Duplicate(m) \/ Lose(m)

\* Each DNode loop runs until its session ends, the transport drains the out
\* channel, and the wait_msg timer always fires.
Fairness ==
    \A p \in Party :
        /\ WF_vars(StartSend(p) \/ StartError(p) \/ StartVerifyFail(p)
                   \/ StartTerminal(p))
        /\ WF_vars(UpdateRound(p))
        /\ WF_vars(Timeout(p))
        /\ \A m \in Msg : WF_vars(Deliver(p, m))

Spec == Init /\ [][Next]_vars /\ Fairness

-----------------------------------------------------------------------------
(* Properties.                                                             *)

\* Round lock-step (Update/NextRound with the ok bitmap reset by Start): no
\* party is ever two rounds ahead of another, since it cannot leave a round
\* before every party's message of that round is in its slice.
Lockstep == \A p, q \in Party : round[p] <= round[q] + 1

\* Commitment check of round6 Start: a party writes its save data to the
\* end channel only if every decommitment it holds opened its commitment.
VerifiedBeforeOutput ==
    \A p \in Party : status[p] = "done" => DecommitsVerify(p)

\* Round-0 Update contract (spec 4.3: complete means every expected sender
\* delivered): a party leaves round 0 only with every party's presence.
Round0WaitsForAll == \A p \in Party : round[p] > 0 => Len(list0[p]) = N

\* Unless the transport loses a message or a Start fails before the
\* verifying round, every party gets through the rounds before it:
\* messages of a later round are kept until the party reaches it, and
\* Update then finds them.
EarlyAbort == \E p \in Party : status[p] = "aborted" /\ round[p] < VerifyRound
ReachesVerifyRound ==
    <>(lost \/ EarlyAbort \/ \A p \in Party : round[p] >= VerifyRound)

\* Whatever is lost or faulty, every party's session ends (wait_msg).
EveryoneTerminates == <>[](\A p \in Party : status[p] # "running")


\* The Round contract as a barrier (spec 4.3): seen through round and status
\* alone, every step of a session is a step of RoundBarrier -- a party's
\* Update completes, and NextRound moves it on, only once every party has
\* reached its round; the save data goes out only in round LastRound, and
\* a session aborts only in a round whose Start can fail (not round 0).
Barrier == INSTANCE RoundBarrier WITH round <- round, status <- status
BarrierRounds == Barrier!Spec

=============================================================================

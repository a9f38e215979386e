--------------------------- MODULE RoundEngineProofs ---------------------------
(***************************************************************************)
(* Proofs about the round engine, for every number of parties and rounds  *)
(* the assumptions of RoundEngine allow.                                   *)
(***************************************************************************)
EXTENDS RoundEngine, FiniteSetTheorems, TLAPS

USE NAssumption, RoundAssumption, MaxDupAssumption, LossyAssumption

\* A broadcast of a party in a round below LastRound is a set of messages.
LEMMA BcastType ==
    ASSUME NEW p \in Party, NEW r \in 0..(LastRound - 1),
           NEW vals \in [Party -> Sendable(p, r)]
    PROVE  Bcast(p, r, vals) \subseteq Msg
BY DEF Bcast, Sendable, Msg, Good, Bad

\* The effect of StartSend once the versions vals of its message are chosen.
SendStep(p, vals) ==
    /\ started' = [started EXCEPT ![p] = TRUE]
    /\ ok' = [ok EXCEPT ![p] = resetOK]
    /\ IF round[p] = 0
         THEN /\ list0' = [list0 EXCEPT ![p] = Append(@, p)]
              /\ UNCHANGED store
         ELSE /\ store' = [store EXCEPT ![p][round[p]][p] = vals[p]]
              /\ UNCHANGED list0
    /\ net' = net \cup Bcast(p, round[p], vals)
    /\ sent' = sent \cup Bcast(p, round[p], vals)
    /\ UNCHANGED <<round, status, dups, lost>>

\* StartSend is its guards and a SendStep.
LEMMA StartSendSplit ==
    ASSUME NEW p \in Party, StartSend(p)
    PROVE  /\ ~started[p] /\ round[p] < LastRound /\ status[p] = "running"
           /\ round[p] = VerifyRound => DecommitsVerify(p)
           /\ \E vals \in [Party -> Sendable(p, round[p])] : SendStep(p, vals)
BY Zenon DEF StartSend, SendStep

\* The initial state of every DNode is well typed.
LEMMA TypeInit == Init => TypeOK
<1> SUFFICES ASSUME Init PROVE TypeOK
  OBVIOUS
<1>1. round \in [Party -> 0..LastRound]
  <2>1. round = [p \in Party |-> 0]
    BY Zenon DEF Init
  <2> QED
    BY <2>1
<1>2. ok \in [Party -> [Party -> BOOLEAN]] /\ started \in [Party -> BOOLEAN]
  <2>1. ok = [p \in Party |-> [j \in Party |-> FALSE]]
    BY Zenon DEF Init
  <2>2. started = [p \in Party |-> FALSE]
    BY Zenon DEF Init
  <2> QED
    BY <2>1, <2>2
<1>3. list0 \in [Party -> Seq(Party)]
  <2>1. list0 = [p \in Party |-> <<>>]
    BY Zenon DEF Init
  <2> QED
    BY <2>1
<1>4. store \in [Party -> [SlotRound -> [Party -> {Nil, Good, Bad}]]]
  <2>1. store = [p \in Party |-> [r \in SlotRound |-> [j \in Party |-> Nil]]]
    BY Zenon DEF Init
  <2> QED
    BY <2>1
<1>5. status \in [Party -> {"running", "done", "aborted", "timeout"}]
  <2>1. status = [p \in Party |-> "running"]
    BY Zenon DEF Init
  <2> QED
    BY <2>1
<1>6. net \subseteq Msg /\ sent \subseteq Msg /\ dups \in 0..MaxDup /\ lost \in BOOLEAN
  <2>1. net = {} /\ sent = {} /\ dups = 0 /\ lost = FALSE
    BY Zenon DEF Init
  <2>2. net \subseteq Msg /\ sent \subseteq Msg
    BY <2>1
  <2>3. dups \in 0..MaxDup
    BY <2>1
  <2>4. lost \in BOOLEAN
    BY <2>1, Zenon
  <2> QED
    BY <2>2, <2>3, <2>4
<1> QED
  BY <1>1, <1>2, <1>3, <1>4, <1>5, <1>6 DEF TypeOK

\* Every step of every party and of the transport keeps each variable in
\* its type.
LEMMA TypeStep == TypeOK /\ [Next]_vars => TypeOK'
<1> SUFFICES ASSUME TypeOK, [Next]_vars PROVE TypeOK'
  OBVIOUS
<1>1. ASSUME NEW p \in Party, StartSend(p) PROVE TypeOK'
  <2>0. PICK vals \in [Party -> Sendable(p, round[p])] : SendStep(p, vals)
    BY <1>1, StartSendSplit
  <2>1. round[p] \in 0..(LastRound - 1)
    BY <1>1, StartSendSplit DEF TypeOK
  <2>2. /\ net' = net \cup Bcast(p, round[p], vals)
        /\ sent' = sent \cup Bcast(p, round[p], vals)
        /\ started' = [started EXCEPT ![p] = TRUE]
        /\ ok' = [ok EXCEPT ![p] = resetOK]
        /\ UNCHANGED <<round, status, dups, lost>>
    BY <2>0, Zenon DEF SendStep
  <2>3. /\ net' \subseteq Msg /\ sent' \subseteq Msg
        /\ started' \in [Party -> BOOLEAN]
        /\ ok' \in [Party -> [Party -> BOOLEAN]]
        /\ round' \in [Party -> 0..LastRound]
        /\ status' \in [Party -> {"running", "done", "aborted", "timeout"}]
        /\ dups' \in 0..MaxDup /\ lost' \in BOOLEAN
    <3>1. Bcast(p, round[p], vals) \subseteq Msg
      BY <2>1, BcastType
    <3> QED
      BY <2>2, <3>1 DEF TypeOK, resetOK
  <2>4. CASE round[p] = 0
    <3>1. list0' = [list0 EXCEPT ![p] = Append(@, p)] /\ store' = store
      BY <2>0, <2>4, Zenon DEF SendStep
    <3>2. list0' \in [Party -> Seq(Party)]
      BY <3>1 DEF TypeOK
    <3> QED
      BY <2>3, <3>1, <3>2 DEF TypeOK
  <2>5. CASE round[p] # 0
    <3>1. store' = [store EXCEPT ![p][round[p]][p] = vals[p]]
          /\ list0' = list0
      BY <2>0, <2>5, Zenon DEF SendStep
    <3>2. round[p] \in SlotRound
      BY <2>1, <2>5 DEF SlotRound
    <3>3. vals[p] \in {Nil, Good, Bad}
      BY DEF Sendable
    <3>4. store' \in [Party -> [SlotRound -> [Party -> {Nil, Good, Bad}]]]
      BY <3>1, <3>2, <3>3 DEF TypeOK
    <3> QED
      BY <2>3, <3>1, <3>4 DEF TypeOK
  <2> QED
    BY <2>4, <2>5
<1>2. ASSUME NEW p \in Party, StartVerifyFail(p) \/ StartError(p) PROVE TypeOK'
  <2>1. CASE StartVerifyFail(p)
    BY <2>1 DEF StartVerifyFail, TypeOK, resetOK
  <2>2. CASE StartError(p)
    BY <2>2 DEF StartError, TypeOK, resetOK
  <2> QED
    BY <1>2, <2>1, <2>2
<1>3. ASSUME NEW p \in Party, StartTerminal(p) PROVE TypeOK'
  BY <1>3 DEF StartTerminal, TypeOK, resetOK
<1>4. ASSUME NEW p \in Party, UpdateRound(p) PROVE TypeOK'
  <2>1. ok' = [ok EXCEPT ![p] =
                [j \in Party |-> ok[p][j] \/ (j \in Slots(p) /\ Reached(p, j))]]
        /\ UNCHANGED <<list0, store, status, net, sent, dups, lost>>
    BY <1>4, Zenon DEF UpdateRound
  <2>2. ok' \in [Party -> [Party -> BOOLEAN]]
    BY <2>1 DEF TypeOK
  <2>3. round' \in [Party -> 0..LastRound] /\ started' \in [Party -> BOOLEAN]
    <3>1. round[p] < LastRound
      BY <1>4 DEF UpdateRound
    <3>2. CASE Complete(p)
      <4>1. started' = [started EXCEPT ![p] = FALSE]
            /\ round' = [round EXCEPT ![p] = @ + 1]
        BY <1>4, <3>2, Zenon DEF UpdateRound
      <4> QED
        BY <3>1, <4>1 DEF TypeOK
    <3>3. CASE ~Complete(p)
      <4>1. UNCHANGED <<started, round>>
        BY <1>4, <3>3, Zenon DEF UpdateRound
      <4> QED
        BY <4>1 DEF TypeOK
    <3> QED
      BY <3>2, <3>3
  <2> QED
    BY <2>1, <2>2, <2>3 DEF TypeOK
<1>5. ASSUME NEW p \in Party, Timeout(p) PROVE TypeOK'
  BY <1>5 DEF Timeout, TypeOK
<1>6. ASSUME NEW p \in Party, NEW m \in net, Deliver(p, m) PROVE TypeOK'
  <2>1. m \in Msg
    BY DEF TypeOK
  <2>2. net' = net \ {m}
        /\ UNCHANGED <<round, started, ok, status, sent, dups, lost>>
    BY <1>6, Zenon DEF Deliver
  <2>3. CASE m.rnd = 0
    <3>1. list0' = [list0 EXCEPT ![p] =
                      IF \E i \in 1..Len(@) : @[i] = m.from
                        THEN @ ELSE Append(@, m.from)]
          /\ store' = store
      BY <1>6, <2>3, Zenon DEF Deliver, StoreMsg
    <3>2. m.from \in Party
      BY <2>1 DEF Msg
    <3>3. list0' \in [Party -> Seq(Party)]
      BY <3>1, <3>2 DEF TypeOK
    <3> QED
      BY <2>2, <3>1, <3>3 DEF TypeOK
  <2>4. CASE m.rnd # 0
    <3>1. store' = [store EXCEPT ![p][m.rnd][m.from] = m.val] /\ list0' = list0
      BY <1>6, <2>4, Zenon DEF Deliver, StoreMsg
    <3>2. m.rnd \in SlotRound /\ m.from \in Party /\ m.val \in {Nil, Good, Bad}
      BY <2>1, <2>4 DEF Msg, SlotRound
    <3>3. store' \in [Party -> [SlotRound -> [Party -> {Nil, Good, Bad}]]]
      BY <3>1, <3>2 DEF TypeOK
    <3> QED
      BY <2>2, <3>1, <3>3 DEF TypeOK
  <2> QED
    BY <2>3, <2>4
<1>7. ASSUME NEW m \in sent, Duplicate(m) PROVE TypeOK'
  BY <1>7 DEF Duplicate, TypeOK
<1>8. ASSUME NEW m \in sent, Lose(m) PROVE TypeOK'
  BY <1>8 DEF Lose, TypeOK
<1>9. CASE UNCHANGED vars
  BY <1>9 DEF vars, TypeOK
<1> QED
  BY <1>1, <1>2, <1>3, <1>4, <1>5, <1>6, <1>7, <1>8, <1>9 DEF Next

\* Type correctness of the round engine: the round counter never passes
\* LastRound, every store index is a slot round, and everything on the
\* transport is a message.
THEOREM TypeCorrect == Spec => []TypeOK
BY TypeInit, TypeStep, PTL DEF Spec

-----------------------------------------------------------------------------
(* The transport.                                                          *)

\* No party sends to itself: the transport fans a broadcast out to the
\* other parties only, and what is in flight was sent.
NoSelfSend == \A m \in sent : m.from # m.to
NetSent == net \subseteq sent

\* Typing and the transport facts the later invariants build on.
IInv == TypeOK /\ NoSelfSend /\ NetSent

LEMMA IInvInit == Init => IInv
<1> SUFFICES ASSUME Init PROVE IInv
  OBVIOUS
<1>1. sent = {} /\ net = {}
  BY Zenon DEF Init
<1> QED
  BY <1>1, TypeInit DEF IInv, NoSelfSend, NetSent

LEMMA IInvStep == IInv /\ [Next]_vars => IInv'
<1> SUFFICES ASSUME IInv, [Next]_vars PROVE IInv'
  OBVIOUS
<1>0. TypeOK'
  BY TypeStep DEF IInv
<1>1. ASSUME NEW p \in Party, StartSend(p) PROVE IInv'
  <2>0. PICK vals \in [Party -> Sendable(p, round[p])] : SendStep(p, vals)
    BY <1>1, StartSendSplit
  <2>1. /\ net' = net \cup Bcast(p, round[p], vals)
        /\ sent' = sent \cup Bcast(p, round[p], vals)
    BY <2>0, Zenon DEF SendStep
  <2> QED
    BY <1>0, <2>1 DEF IInv, NoSelfSend, NetSent, Bcast
<1>2. ASSUME NEW p \in Party, NEW m \in net, Deliver(p, m) PROVE IInv'
  <2>1. net' = net \ {m} /\ sent' = sent
    BY <1>2, Zenon DEF Deliver
  <2> QED
    BY <1>0, <2>1 DEF IInv, NoSelfSend, NetSent
<1>3. ASSUME NEW m \in sent, Duplicate(m) \/ Lose(m) PROVE IInv'
  <2>1. sent' = sent /\ net' \subseteq net \cup {m}
    BY <1>3, Zenon DEF Duplicate, Lose
  <2> QED
    BY <1>0, <2>1 DEF IInv, NoSelfSend, NetSent
<1>4. ASSUME NEW p \in Party,
             \/ StartError(p) \/ StartVerifyFail(p) \/ StartTerminal(p)
             \/ UpdateRound(p) \/ Timeout(p)
      PROVE  IInv'
  <2>1. UNCHANGED <<net, sent>>
    BY <1>4, Zenon
       DEF StartError, StartVerifyFail, StartTerminal, UpdateRound, Timeout
  <2> QED
    BY <1>0, <2>1 DEF IInv, NoSelfSend, NetSent
<1>5. CASE UNCHANGED vars
  BY <1>0, <1>5 DEF vars, IInv, NoSelfSend, NetSent
<1> QED
  BY <1>1, <1>2, <1>3, <1>4, <1>5 DEF Next

-----------------------------------------------------------------------------
(* The commitment check: no save data without verified decommitments.    *)

\* A sender sends one version of its message of a round to each peer.
OneVersion ==
    \A m1, m2 \in sent :
        m1.from = m2.from /\ m1.to = m2.to /\ m1.rnd = m2.rnd => m1.val = m2.val

\* A party has sent only messages of the rounds it has started.
SentBefore ==
    \A m \in sent :
        m.rnd < round[m.from] \/ (m.rnd = round[m.from] /\ started[m.from])

\* A peer's slot holds the version that peer sent.
StoredSent ==
    \A p, q \in Party, r \in SlotRound :
        q # p /\ store[p][r][q] # Nil =>
            [from |-> q, to |-> p, rnd |-> r, val |-> store[p][r][q]] \in sent

\* A party past the check of round VerifyRound still holds decommitments
\* that open.
Verified ==
    \A p \in Party :
        (\/ round[p] > VerifyRound
         \/ round[p] = VerifyRound /\ started[p] /\ status[p] # "aborted")
        => DecommitsVerify(p)

\* A party ends with its save data only in the terminal round.
DoneAtLast == \A p \in Party : status[p] = "done" => round[p] = LastRound

\* The inductive invariant of VerifiedBeforeOutput.
VInv == IInv /\ OneVersion /\ SentBefore /\ StoredSent /\ Verified /\ DoneAtLast

\* The decommit round is a slot round before the verifying one.
LEMMA DecommitSlot == DecommitRound \in SlotRound /\ DecommitRound < VerifyRound
BY DEF DecommitRound, SlotRound

\* The messages a broadcast adds.
LEMMA BcastMember ==
    ASSUME NEW p \in Party, NEW r, NEW vals, NEW m \in Bcast(p, r, vals)
    PROVE  /\ m.from = p /\ m.rnd = r /\ m.to \in Party \ {p}
           /\ m.val = vals[m.to]
BY DEF Bcast

LEMMA VInvInit == Init => VInv
<1> SUFFICES ASSUME Init PROVE VInv
  OBVIOUS
<1>1. IInv
  BY IInvInit
<1>2. /\ sent = {}
      /\ store = [p \in Party |-> [r \in SlotRound |-> [j \in Party |-> Nil]]]
      /\ round = [p \in Party |-> 0]
      /\ status = [p \in Party |-> "running"]
  BY Zenon DEF Init
<1> QED
  BY <1>1, <1>2, RoundAssumption
     DEF VInv, OneVersion, SentBefore, StoredSent, Verified, DoneAtLast

LEMMA VInvStep == VInv /\ [Next]_vars => VInv'
<1> SUFFICES ASSUME VInv, [Next]_vars PROVE VInv'
  OBVIOUS
<1>0. /\ IInv' /\ TypeOK /\ TypeOK'
      /\ OneVersion /\ SentBefore /\ StoredSent /\ Verified /\ DoneAtLast
  BY IInvStep, TypeStep DEF VInv, IInv
<1>1. ASSUME NEW p \in Party, StartSend(p) PROVE VInv'
  <2>0. PICK vals \in [Party -> Sendable(p, round[p])] : SendStep(p, vals)
    BY <1>1, StartSendSplit
  <2> DEFINE B == Bcast(p, round[p], vals)
  <2>1. /\ ~started[p] /\ round[p] < LastRound
        /\ round[p] = VerifyRound => DecommitsVerify(p)
    BY <1>1, StartSendSplit
  <2>2. /\ sent' = sent \cup B
        /\ started' = [started EXCEPT ![p] = TRUE]
        /\ UNCHANGED <<round, status>>
    BY <2>0, Zenon DEF SendStep
  <2>3. \/ store' = store
        \/ round[p] # 0 /\ store' = [store EXCEPT ![p][round[p]][p] = vals[p]]
    BY <2>0, Zenon DEF SendStep
  <2>4. \A m \in sent : m.from = p => m.rnd < round[p]
    BY <1>0, <2>1 DEF SentBefore
  <2>5. OneVersion'
    <3> SUFFICES ASSUME NEW m1 \in sent', NEW m2 \in sent',
                        m1.from = m2.from, m1.to = m2.to, m1.rnd = m2.rnd
                 PROVE  m1.val = m2.val
      BY DEF OneVersion
    <3>1. CASE m1 \in sent /\ m2 \in sent
      BY <1>0, <3>1 DEF OneVersion
    <3>2. CASE m1 \in B /\ m2 \in B
      BY <3>2, BcastMember
    <3>3. CASE m1 \in B /\ m2 \in sent
      <4>1. m1.from = p /\ m1.rnd = round[p]
        BY <3>3, BcastMember
      <4>2. m2.from = p
        BY <4>1
      <4>3. m2.rnd < round[p]
        BY <3>3, <4>2, <2>4
      <4>4. m2.rnd \in Int
        BY <3>3, <1>0 DEF TypeOK, Msg
      <4> QED
        BY <4>1, <4>3, <4>4
    <3>4. CASE m1 \in sent /\ m2 \in B
      <4>1. m2.from = p /\ m2.rnd = round[p]
        BY <3>4, BcastMember
      <4>2. m1.from = p
        BY <4>1
      <4>3. m1.rnd < round[p]
        BY <3>4, <4>2, <2>4
      <4>4. m1.rnd \in Int
        BY <3>4, <1>0 DEF TypeOK, Msg
      <4> QED
        BY <4>1, <4>3, <4>4
    <3> QED
      BY <2>2, <3>1, <3>2, <3>3, <3>4
  <2>6. SentBefore'
    <3> SUFFICES ASSUME NEW m \in sent'
                 PROVE  m.rnd < round'[m.from] \/ (m.rnd = round'[m.from] /\ started'[m.from])
      BY DEF SentBefore
    <3>1. CASE m \in B
      BY <1>0, <2>2, <3>1, BcastMember DEF TypeOK
    <3>2. CASE m \in sent
      BY <1>0, <2>2, <3>2 DEF SentBefore, TypeOK, Msg
    <3> QED
      BY <2>2, <3>1, <3>2
  <2>6a. round[p] # 0 => round[p] \in SlotRound
    BY <1>0, <2>1 DEF TypeOK, SlotRound
  <2>6b. \A q \in Party : q # p => store'[q] = store[q]
    <3>1. CASE store' = store
      BY <3>1
    <3>2. CASE store' = [store EXCEPT ![p][round[p]][p] = vals[p]]
      BY <3>2, <1>0 DEF TypeOK
    <3> QED
      BY <2>3, <3>1, <3>2
  <2>6c. \A r \in SlotRound : r # round[p] => store'[p][r] = store[p][r]
    BY <1>0, <2>3, <2>6a, SMTT(30) DEF TypeOK
  <2>6d. \A j \in Party : j # p => store'[p][round[p]][j] = store[p][round[p]][j]
    BY <1>0, <2>3, <2>6a, SMTT(30) DEF TypeOK
  <2>7. StoredSent'
    <3>1. \A q, j \in Party, r \in SlotRound : j # q => store'[q][r][j] = store[q][r][j]
      BY <2>6b, <2>6c, <2>6d
    <3> QED
      BY <1>0, <2>2, <3>1 DEF StoredSent
  <2>8. Verified'
    <3>1. DecommitRound < VerifyRound /\ DecommitRound \in SlotRound
      BY DecommitSlot
    <3>2. round[p] >= VerifyRound => store'[p][DecommitRound] = store[p][DecommitRound]
      BY <2>6c, <3>1, <1>0 DEF TypeOK, SlotRound
    <3>3. \A q \in Party : q # p => store'[q][DecommitRound] = store[q][DecommitRound]
      BY <2>6b
    <3> QED
      BY <1>0, <2>1, <2>2, <3>2, <3>3 DEF Verified, DecommitsVerify, TypeOK
  <2>9. DoneAtLast'
    BY <1>0, <2>2, SMTT(30) DEF DoneAtLast
  <2> QED
    BY <1>0, <2>5, <2>6, <2>7, <2>8, <2>9 DEF VInv
<1>2. ASSUME NEW p \in Party, StartVerifyFail(p) \/ StartError(p) PROVE VInv'
  <2>1. /\ started' = [started EXCEPT ![p] = TRUE]
        /\ status' = [status EXCEPT ![p] = "aborted"]
        /\ UNCHANGED <<round, store, sent>>
    BY <1>2, Zenon DEF StartVerifyFail, StartError
  <2>2. SentBefore'
    BY <1>0, <2>1 DEF SentBefore, TypeOK, Msg
  <2>3. Verified'
    BY <1>0, <2>1, SMTT(30) DEF Verified, DecommitsVerify, TypeOK
  <2>4. DoneAtLast'
    BY <1>0, <2>1 DEF DoneAtLast, TypeOK
  <2> QED
    BY <1>0, <2>1, <2>2, <2>3, <2>4 DEF VInv, OneVersion, StoredSent
<1>3. ASSUME NEW p \in Party, StartTerminal(p) PROVE VInv'
  <2>1. /\ started' = [started EXCEPT ![p] = TRUE]
        /\ status' = [status EXCEPT ![p] = "done"]
        /\ UNCHANGED <<round, store, sent>>
        /\ round[p] = LastRound
    BY <1>3, Zenon DEF StartTerminal
  <2>2. SentBefore'
    BY <1>0, <2>1 DEF SentBefore, TypeOK, Msg
  <2>3. Verified'
    BY <1>0, <2>1, RoundAssumption, SMTT(30) DEF Verified, DecommitsVerify, TypeOK
  <2>4. DoneAtLast'
    BY <1>0, <2>1 DEF DoneAtLast, TypeOK
  <2> QED
    BY <1>0, <2>1, <2>2, <2>3, <2>4 DEF VInv, OneVersion, StoredSent
<1>4. ASSUME NEW p \in Party, UpdateRound(p) PROVE VInv'
  <2>1. /\ status[p] = "running" /\ started[p]
        /\ UNCHANGED <<store, status, sent>>
        /\ \/ started' = [started EXCEPT ![p] = FALSE]
              /\ round' = [round EXCEPT ![p] = @ + 1]
           \/ UNCHANGED <<started, round>>
    BY <1>4, Zenon DEF UpdateRound
  <2>2. SentBefore'
    BY <1>0, <2>1, SMTT(30) DEF SentBefore, TypeOK, Msg
  <2>3. Verified'
    <3> SUFFICES ASSUME NEW q \in Party,
                        \/ round'[q] > VerifyRound
                        \/ round'[q] = VerifyRound /\ started'[q] /\ status'[q] # "aborted"
                 PROVE  DecommitsVerify(q)'
      BY DEF Verified
    <3>1. DecommitsVerify(q)' = DecommitsVerify(q)
      BY <2>1 DEF DecommitsVerify
    <3>2. CASE UNCHANGED <<started, round>>
      BY <1>0, <2>1, <3>1, <3>2 DEF Verified
    <3>3. CASE started' = [started EXCEPT ![p] = FALSE]
               /\ round' = [round EXCEPT ![p] = @ + 1]
      <4>1. CASE q = p
        <5>1. round[p] >= VerifyRound /\ round'[p] = round[p] + 1 /\ ~started'[p]
          BY <1>0, <3>3, <4>1, RoundAssumption DEF TypeOK
        <5>2. \/ round[p] > VerifyRound
              \/ round[p] = VerifyRound /\ started[p] /\ status[p] # "aborted"
          BY <1>0, <2>1, <5>1, RoundAssumption DEF TypeOK
        <5> QED
          BY <1>0, <3>1, <4>1, <5>2 DEF Verified
      <4>2. CASE q # p
        BY <1>0, <2>1, <3>1, <3>3, <4>2 DEF Verified, TypeOK
      <4> QED
        BY <4>1, <4>2
    <3> QED
      BY <2>1, <3>2, <3>3
  <2>4. DoneAtLast'
    BY <1>0, <2>1, SMTT(30) DEF DoneAtLast, TypeOK
  <2> QED
    BY <1>0, <2>1, <2>2, <2>3, <2>4 DEF VInv, OneVersion, StoredSent
<1>5. ASSUME NEW p \in Party, Timeout(p) PROVE VInv'
  <2>1. /\ status[p] = "running"
        /\ status' = [status EXCEPT ![p] = "timeout"]
        /\ UNCHANGED <<round, started, store, sent>>
    BY <1>5, Zenon DEF Timeout
  <2> QED
    BY <1>0, <2>1, SMTT(30) DEF VInv, OneVersion, SentBefore, StoredSent, Verified,
                      DecommitsVerify, DoneAtLast, TypeOK
<1>6. ASSUME NEW m \in sent, Duplicate(m) \/ Lose(m) PROVE VInv'
  <2>1. UNCHANGED <<round, started, store, status, sent>>
    BY <1>6, Zenon DEF Duplicate, Lose
  <2> QED
    BY <1>0, <2>1 DEF VInv, OneVersion, SentBefore, StoredSent, Verified,
                      DecommitsVerify, DoneAtLast
<1>7. CASE UNCHANGED vars
  <2>1. UNCHANGED <<round, started, store, status, sent>>
    BY <1>7 DEF vars
  <2> QED
    BY <1>0, <2>1 DEF VInv, OneVersion, SentBefore, StoredSent, Verified,
                      DecommitsVerify, DoneAtLast
<1>8. ASSUME NEW p \in Party, NEW m \in net, Deliver(p, m) PROVE VInv'
  <2>1. /\ m.to = p
        /\ UNCHANGED <<round, started, status, sent>>
    BY <1>8, Zenon DEF Deliver
  <2>2. /\ m \in sent /\ m \in Msg /\ m.from # p
    BY <1>0, <2>1, SMTT(30) DEF VInv, IInv, NetSent, NoSelfSend, TypeOK
  <2>3. /\ OneVersion' /\ SentBefore' /\ DoneAtLast'
    BY <1>0, <2>1 DEF OneVersion, SentBefore, DoneAtLast
  <2>4. CASE m.rnd = 0
    <3>1. UNCHANGED store
      BY <1>8, <2>4, Zenon DEF Deliver, StoreMsg
    <3> QED
      BY <1>0, <2>1, <2>3, <3>1 DEF VInv, StoredSent, Verified, DecommitsVerify
  <2>5. CASE m.rnd # 0
    <3>1. store' = [store EXCEPT ![p][m.rnd][m.from] = m.val]
      BY <1>8, <2>5, Zenon DEF Deliver, StoreMsg
    <3>2. /\ m.rnd \in SlotRound /\ m.from \in Party /\ m.val \in {Good, Bad}
          /\ m = [from |-> m.from, to |-> p, rnd |-> m.rnd, val |-> m.val]
      BY <2>1, <2>2, <2>5 DEF Msg, SlotRound
    <3>3. \A q, j \in Party, r \in SlotRound :
            store'[q][r][j] = IF q = p /\ r = m.rnd /\ j = m.from
                                THEN m.val ELSE store[q][r][j]
      <4>1. store \in [Party -> [SlotRound -> [Party -> {Nil, Good, Bad}]]]
        BY <1>0 DEF TypeOK
      <4> QED
        BY <4>1, <3>1, <3>2, SMTT(30)
    <3>4. StoredSent'
      BY <2>1, <2>2, <3>2, <3>3, <1>0 DEF StoredSent
    <3>5. \A j \in Party : store[p][m.rnd][j] = Good => store'[p][m.rnd][j] = Good
      <4> SUFFICES ASSUME NEW j \in Party, store[p][m.rnd][j] = Good, j = m.from
                   PROVE  m.val = Good
        BY <3>2, <3>3
      <4>1. j # p /\ store[p][m.rnd][j] # Nil
        BY <2>2 DEF Good, Nil
      <4>2. [from |-> j, to |-> p, rnd |-> m.rnd, val |-> store[p][m.rnd][j]] \in sent
        BY <1>0, <3>2, <4>1 DEF StoredSent
      <4>3. [from |-> j, to |-> p, rnd |-> m.rnd, val |-> Good] \in sent
        BY <4>2
      <4> QED
        BY <4>3, <2>1, <2>2, <1>0 DEF OneVersion
    <3>6. \A q \in Party : DecommitsVerify(q) => DecommitsVerify(q)'
      BY <3>3, <3>5, DecommitSlot DEF DecommitsVerify
    <3>7. Verified'
      BY <1>0, <2>1, <3>6 DEF Verified
    <3> QED
      BY <1>0, <2>3, <3>4, <3>7 DEF VInv
  <2> QED
    BY <2>4, <2>5
<1>10. QED
  BY <1>1, <1>2, <1>3, <1>4, <1>5, <1>6, <1>7, <1>8 DEF Next

\* For every number of parties and every round layout: a DNode reaches the
\* end of its session (round7 Start sends save data) only after the
\* commitment check of round6 Start succeeded on every peer's decommitment,
\* whatever the transport duplicates, loses or buffers.
THEOREM VerifiedDecommits == Spec => []VerifiedBeforeOutput
<1>1. VInv => VerifiedBeforeOutput
  BY RoundAssumption DEF VInv, DoneAtLast, Verified, VerifiedBeforeOutput
<1> QED
  BY <1>1, VInvInit, VInvStep, PTL DEF Spec


-----------------------------------------------------------------------------
(* Lock-step rounds.                                                       *)

\* While p runs a slot round, ok[p][j] marks a slot that holds a message:
\* Update sets ok[j] only after finding msg != nil, and Start resets ok.
OkPresent ==
    \A p, j \in Party :
        started[p] /\ round[p] \in SlotRound /\ ok[p][j] =>
            store[p][round[p]][j] # Nil

\* The inductive invariant of Lockstep.
LInv == VInv /\ OkPresent /\ Lockstep


LEMMA LInvInit == Init => LInv
<1> SUFFICES ASSUME Init PROVE LInv
  OBVIOUS
<1>1. VInv
  BY VInvInit
<1>2. round = [p \in Party |-> 0] /\ started = [p \in Party |-> FALSE]
  BY Zenon DEF Init
<1> QED
  BY <1>1, <1>2 DEF LInv, OkPresent, Lockstep

\* Update completes a round only once every party has reached it: each
\* peer's slot of p's round holds a message that peer sent in that round.
LEMMA CompleteBarrier ==
  ASSUME LInv, NEW p \in Party, started[p], round[p] < LastRound, Complete(p)
  PROVE  \A q \in Party : round[p] <= round[q]
<1>1. /\ TypeOK /\ OkPresent /\ StoredSent /\ SentBefore
  BY DEF LInv, VInv, IInv
<1> SUFFICES ASSUME NEW q \in Party PROVE round[p] <= round[q]
  OBVIOUS
<1>2. CASE round[p] = 0 \/ q = p
  BY <1>1, <1>2 DEF TypeOK
<1>3. CASE round[p] # 0 /\ q # p
  <2>1. round[p] \in SlotRound
    BY <1>1, <1>3 DEF TypeOK, SlotRound
  <2>2. ok[p][q] \/ store[p][round[p]][q] # Nil
    <3>1. Slots(p) = Party
      BY <1>3 DEF Slots
    <3>2. ok[p][q] \/ Present(p, q)
      BY <3>1 DEF Complete
    <3> QED
      BY <1>3, <3>2 DEF Present
  <2>3. store[p][round[p]][q] # Nil
    BY <1>1, <2>1, <2>2, SMTT(30) DEF OkPresent
  <2> DEFINE mq == [from |-> q, to |-> p, rnd |-> round[p],
                    val |-> store[p][round[p]][q]]
  <2>4. mq \in sent
    BY <1>1, <1>3, <2>1, <2>3, SMTT(30) DEF StoredSent
  <2>5. mq.rnd < round[mq.from] \/ mq.rnd = round[mq.from]
    BY <1>1, <2>4 DEF SentBefore
  <2> QED
    BY <1>1, <2>5 DEF TypeOK
<1> QED
  BY <1>2, <1>3

LEMMA LInvStep == LInv /\ [Next]_vars => LInv'
<1> SUFFICES ASSUME LInv, [Next]_vars PROVE LInv'
  OBVIOUS
<1>0. /\ VInv' /\ TypeOK /\ TypeOK' /\ OkPresent /\ Lockstep
      /\ StoredSent /\ SentBefore /\ IInv
  BY VInvStep, TypeStep DEF LInv, VInv, IInv
<1>1. ASSUME NEW p \in Party, StartSend(p) PROVE LInv'
  <2>0. PICK vals \in [Party -> Sendable(p, round[p])] : SendStep(p, vals)
    BY <1>1, StartSendSplit
  <2>1. /\ ok' = [ok EXCEPT ![p] = resetOK]
        /\ started' = [started EXCEPT ![p] = TRUE]
        /\ UNCHANGED round
    BY <2>0, Zenon DEF SendStep
  <2>2. \/ store' = store
        \/ store' = [store EXCEPT ![p][round[p]][p] = vals[p]]
    BY <2>0, Zenon DEF SendStep
  <2>3. \A q \in Party \ {p} : store'[q] = store[q]
    <3>1. CASE store' = store
      BY <3>1
    <3>2. CASE store' = [store EXCEPT ![p][round[p]][p] = vals[p]]
      BY <3>2, <1>0 DEF TypeOK
    <3> QED
      BY <2>2, <3>1, <3>2
  <2>4. \A j \in Party : ~ok'[p][j]
    BY <1>0, <2>1 DEF resetOK, TypeOK
  <2>5. \A q \in Party \ {p} : ok'[q] = ok[q] /\ started'[q] = started[q]
    BY <1>0, <2>1, SMTT(30) DEF resetOK, TypeOK
  <2>6. OkPresent'
    BY <1>0, <2>1, <2>3, <2>4, <2>5 DEF OkPresent
  <2> QED
    BY <1>0, <2>1, <2>6 DEF LInv, Lockstep
<1>2. ASSUME NEW p \in Party,
             StartVerifyFail(p) \/ StartError(p) \/ StartTerminal(p)
      PROVE  LInv'
  <2>1. /\ ok' = [ok EXCEPT ![p] = resetOK]
        /\ started' = [started EXCEPT ![p] = TRUE]
        /\ UNCHANGED <<round, store>>
    BY <1>2, Zenon DEF StartVerifyFail, StartError, StartTerminal
  <2>2. \A j \in Party : ~ok'[p][j]
    BY <1>0, <2>1 DEF resetOK, TypeOK
  <2>3. \A q \in Party \ {p} : ok'[q] = ok[q] /\ started'[q] = started[q]
    BY <1>0, <2>1 DEF resetOK, TypeOK
  <2>4. OkPresent'
    BY <1>0, <2>1, <2>2, <2>3 DEF OkPresent
  <2> QED
    BY <1>0, <2>1, <2>4 DEF LInv, Lockstep
<1>3. ASSUME NEW p \in Party, UpdateRound(p) PROVE LInv'
  <2>1. /\ started[p] /\ round[p] < LastRound
        /\ ok' = [ok EXCEPT ![p] =
                    [j \in Party |-> ok[p][j] \/ (j \in Slots(p) /\ Reached(p, j))]]
        /\ UNCHANGED store
        /\ IF Complete(p)
             THEN /\ started' = [started EXCEPT ![p] = FALSE]
                  /\ round' = [round EXCEPT ![p] = @ + 1]
             ELSE UNCHANGED <<started, round>>
    BY <1>3, Zenon DEF UpdateRound
  <2>2. \A q \in Party \ {p} : ok'[q] = ok[q]
    BY <1>0, <2>1 DEF TypeOK
  <2>3. CASE Complete(p)
    <3>1. /\ started' = [started EXCEPT ![p] = FALSE]
          /\ round' = [round EXCEPT ![p] = @ + 1]
      BY <2>1, <2>3
    <3>2. \A q \in Party : round[p] <= round[q]
      BY <1>0, <2>1, <2>3, CompleteBarrier DEF LInv
    <3>3. Lockstep'
      BY <1>0, <3>1, <3>2, SMTT(30) DEF Lockstep, TypeOK
    <3>4. OkPresent'
      BY <1>0, <2>1, <2>2, <3>1 DEF OkPresent, TypeOK
    <3> QED
      BY <1>0, <3>3, <3>4 DEF LInv
  <2>4. CASE ~Complete(p)
    <3>1. UNCHANGED <<started, round>>
      BY <2>1, <2>4
    <3>2. ASSUME NEW j \in Party, round[p] \in SlotRound, ok'[p][j]
          PROVE  store[p][round[p]][j] # Nil
      <4>1. ok[p][j] \/ Reached(p, j)
        BY <1>0, <2>1, <3>2 DEF TypeOK
      <4>2. Reached(p, j) => ok[p][j] \/ Present(p, j)
        BY SMTT(30) DEF Reached, Party
      <4> QED
        BY <1>0, <2>1, <3>2, <4>1, <4>2 DEF OkPresent, Present, SlotRound
    <3>3. OkPresent'
      BY <1>0, <2>1, <2>2, <3>1, <3>2 DEF OkPresent
    <3> QED
      BY <1>0, <3>1, <3>3 DEF LInv, Lockstep
  <2> QED
    BY <2>3, <2>4
<1>4. ASSUME NEW p \in Party, Timeout(p) PROVE LInv'
  <2>1. UNCHANGED <<round, started, ok, store>>
    BY <1>4, Zenon DEF Timeout
  <2> QED
    BY <1>0, <2>1 DEF LInv, OkPresent, Lockstep
<1>5. ASSUME NEW p \in Party, NEW m \in net, Deliver(p, m) PROVE LInv'
  <2>1. UNCHANGED <<round, started, ok>>
    BY <1>5, Zenon DEF Deliver
  <2>2. \A q, j \in Party, r \in SlotRound :
          store[q][r][j] # Nil => store'[q][r][j] # Nil
    <3>1. CASE m.rnd = 0
      <4>1. UNCHANGED store
        BY <1>5, <3>1, Zenon DEF Deliver, StoreMsg
      <4> QED
        BY <4>1
    <3>2. CASE m.rnd # 0
      <4>1. store' = [store EXCEPT ![p][m.rnd][m.from] = m.val]
        BY <1>5, <3>2, Zenon DEF Deliver, StoreMsg
      <4>2. m \in Msg
        BY <1>0 DEF IInv, NetSent, TypeOK
      <4> QED
        BY <1>0, <4>1, <4>2, SMTT(30) DEF TypeOK, Msg, Nil, Good, Bad
    <3> QED
      BY <3>1, <3>2
  <2> QED
    BY <1>0, <2>1, <2>2 DEF LInv, OkPresent, Lockstep, TypeOK
<1>6. ASSUME NEW m \in sent, Duplicate(m) \/ Lose(m) PROVE LInv'
  <2>1. UNCHANGED <<round, started, ok, store>>
    BY <1>6, Zenon DEF Duplicate, Lose
  <2> QED
    BY <1>0, <2>1 DEF LInv, OkPresent, Lockstep
<1>7. CASE UNCHANGED vars
  BY <1>0, <1>7 DEF vars, LInv, OkPresent, Lockstep
<1>9. QED
  BY <1>1, <1>2, <1>3, <1>4, <1>5, <1>6, <1>7 DEF Next


\* For every number of parties and rounds, over a transport that loses,
\* duplicates and buffers: no DNode is ever two rounds ahead of another,
\* since Update completes a slot round only with every peer's message of
\* that round stored, and a peer sends it only once it has started it.
THEOREM RoundsInLockstep == Spec => []Lockstep
<1>1. LInv => Lockstep
  BY DEF LInv
<1> QED
  BY <1>1, LInvInit, LInvStep, PTL DEF Spec


-----------------------------------------------------------------------------
(* The Round contract refines the round barrier.                           *)

LEMMA BarrierInit == Init => Barrier!Init
BY DEF Init, Barrier!Init

\* Every step of a session, seen through round and status, is a step of
\* RoundBarrier or leaves both unchanged.
LEMMA BarrierStep == LInv /\ [Next]_vars => [Barrier!Next]_<<round, status>>
<1> SUFFICES ASSUME LInv, [Next]_vars
             PROVE  [Barrier!Next]_<<round, status>>
  OBVIOUS
<1>1. ASSUME NEW p \in Party, StartSend(p) PROVE UNCHANGED <<round, status>>
  <2>1. PICK vals \in [Party -> Sendable(p, round[p])] : SendStep(p, vals)
    BY <1>1, StartSendSplit
  <2> QED
    BY <2>1, Zenon DEF SendStep
<1>2. ASSUME NEW p \in Party, StartVerifyFail(p) \/ StartError(p)
      PROVE  Barrier!Abort(p)
  <2>1. /\ status[p] = "running" /\ round[p] \in {VerifyRound} \cup SlotRound
        /\ status' = [status EXCEPT ![p] = "aborted"] /\ UNCHANGED round
    BY <1>2, Zenon DEF StartVerifyFail, StartError
  <2>2. 0 < round[p] /\ round[p] < LastRound
    BY <2>1 DEF SlotRound
  <2> QED
    BY <2>1, <2>2, Zenon DEF Barrier!Abort
<1>3. ASSUME NEW p \in Party, StartTerminal(p) PROVE Barrier!Finish(p)
  BY <1>3, Zenon DEF StartTerminal, Barrier!Finish
<1>4. ASSUME NEW p \in Party, Timeout(p) PROVE Barrier!Expire(p)
  BY <1>4, Zenon DEF Timeout, Barrier!Expire
<1>5. ASSUME NEW p \in Party, UpdateRound(p)
      PROVE  Barrier!Advance(p) \/ UNCHANGED <<round, status>>
  <2>1. /\ status[p] = "running" /\ started[p] /\ round[p] < LastRound
        /\ UNCHANGED status
        /\ IF Complete(p)
             THEN round' = [round EXCEPT ![p] = @ + 1]
             ELSE UNCHANGED round
    BY <1>5, Zenon DEF UpdateRound
  <2>2. CASE Complete(p)
    <3>1. \A q \in Party : round[p] <= round[q]
      BY <2>1, <2>2, CompleteBarrier
    <3> QED
      BY <2>1, <2>2, <3>1, Zenon DEF Barrier!Advance
  <2>3. CASE ~Complete(p)
    BY <2>1, <2>3
  <2> QED
    BY <2>2, <2>3
<1>6. ASSUME NEW p \in Party, NEW m \in net, Deliver(p, m)
      PROVE  UNCHANGED <<round, status>>
  BY <1>6, Zenon DEF Deliver
<1>7. ASSUME NEW m \in sent, Duplicate(m) \/ Lose(m)
      PROVE  UNCHANGED <<round, status>>
  BY <1>7, Zenon DEF Duplicate, Lose
<1>8. CASE UNCHANGED vars
  BY <1>8 DEF vars
<1> QED
  BY <1>1, <1>2, <1>3, <1>4, <1>5, <1>6, <1>7, <1>8 DEF Next, Barrier!Next

\* For every number of parties and rounds, over a transport that loses,
\* duplicates and buffers, a session implements the round barrier: a DNode
\* moves one round at a time and leaves a round only once every party has
\* reached it, writes its save data only in round LastRound, aborts only
\* in a round between 0 and LastRound whose Start fails (a local error of
\* a slot round or the commitment check of round VerifyRound), and an
\* ended session takes no further step.
THEOREM ImplementsBarrier == Spec => BarrierRounds
<1> QED
  BY LInvInit, LInvStep, BarrierInit, BarrierStep, PTL
     DEF Spec, BarrierRounds, Barrier!Spec

=============================================================================

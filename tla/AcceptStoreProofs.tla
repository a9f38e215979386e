--------------------------- MODULE AcceptStoreProofs ---------------------------
(***************************************************************************)
(* The type invariant of the Accept calls, for any number of callers and  *)
(* of calls in flight, with crashes and failing Puts.  The properties     *)
(* about the records themselves fail once two calls overlap and are left  *)
(* to TLC's runs.                                                          *)
(***************************************************************************)
EXTENDS AcceptStore, TLAPS

USE CallerAssumption, BoundAssumption, FlagAssumption

-----------------------------------------------------------------------------
(* Type correctness, for every value of the constants.                    *)

\* A merge of a stored record with a call's arguments is a record.
LEMMA MergeType ==
    ASSUME kind \in Kind, NEW r \in Rec, NEW a \in Arg
    PROVE  Merge(r, a) \in Rec
<1>1. [status |-> Keep(r.status, a.status), res |-> Keep(r.res, a.res)] \in Rec
  BY DEF Keep, Rec, Arg, Status, Empty
<1> QED
  BY <1>1 DEF Merge, MergeReqAddr, MergeSign, MergeReShare, Kind

LEMMA TypeInit == Init => TypeOK
<1> SUFFICES ASSUME Init PROVE TypeOK
  OBVIOUS
<1>1. /\ kind \in Kind
      /\ info = [status |-> "Pending", res |-> Empty]
      /\ pub = None
      /\ pc = [c \in Caller |-> "idle"]
      /\ arg = [c \in Caller |-> [status |-> Empty, res |-> Empty]]
      /\ ac2 = [c \in Caller |-> None]
      /\ calls = 0 /\ crashed = FALSE
  BY Zenon DEF Init
<1>2. info \in Rec \cup {None} /\ pub \in Rec \cup {None}
  BY <1>1 DEF Rec, Status, Empty
<1>3. pc \in [Caller -> PC] /\ arg \in [Caller -> Arg] /\ ac2 \in [Caller -> Rec \cup {None}]
  BY <1>1 DEF PC, Arg, Empty
<1>4. kind \in Kind /\ calls \in 0..MaxCalls /\ crashed \in BOOLEAN
  <2>1. calls = 0 /\ kind \in Kind /\ crashed = FALSE
    BY <1>1
  <2>2. MaxCalls \in Nat
    BY BoundAssumption
  <2>3. crashed \in BOOLEAN
    BY <2>1, Zenon
  <2> QED
    BY <2>1, <2>2, <2>3
<1> QED
  BY <1>2, <1>3, <1>4, Zenon DEF TypeOK

LEMMA TypeStep == TypeOK /\ [Next]_vars => TypeOK'
<1> SUFFICES ASSUME TypeOK, [Next]_vars PROVE TypeOK'
  OBVIOUS
<1>1. ASSUME NEW c \in Caller, NEW a \in Arg, Call(c, a) PROVE TypeOK'
  BY <1>1 DEF Call, TypeOK, PC
<1>2. ASSUME NEW c \in Caller, CheckPub(c) PROVE TypeOK'
  BY <1>2 DEF CheckPub, TypeOK, PC
<1>3. ASSUME NEW c \in Caller, GetInfo(c) PROVE TypeOK'
  <2>1. CASE info = None
    <3>1. pc' = [pc EXCEPT ![c] = "idle"] /\ UNCHANGED <<kind, info, pub, arg, ac2, calls, crashed>>
      BY <1>3, <2>1, Zenon DEF GetInfo
    <3> QED
      BY <3>1 DEF TypeOK, PC
  <2>2. CASE info # None
    <3>1. /\ ac2' = [ac2 EXCEPT ![c] = Merge(info, arg[c])]
          /\ pc' = [pc EXCEPT ![c] = IF Merge(info, arg[c]).status # "Pending"
                                       THEN "del" ELSE "putinfo"]
          /\ UNCHANGED <<kind, info, pub, arg, calls, crashed>>
      BY <1>3, <2>2, Zenon DEF GetInfo
    <3>2. Merge(info, arg[c]) \in Rec
      BY <2>2, MergeType DEF TypeOK, Kind
    <3> QED
      BY <3>1, <3>2 DEF TypeOK, PC
  <2> QED
    BY <2>1, <2>2
<1>4. ASSUME NEW c \in Caller, DelInfo(c) PROVE TypeOK'
  BY <1>4 DEF DelInfo, TypeOK, PC
<1>5. ASSUME NEW c \in Caller, PutPub(c) PROVE TypeOK'
  BY <1>5 DEF PutPub, TypeOK, PC
<1>6. ASSUME NEW c \in Caller, PutInfo(c) PROVE TypeOK'
  BY <1>6 DEF PutInfo, TypeOK, PC
<1>7. ASSUME NEW c \in Caller, PutFail(c) PROVE TypeOK'
  BY <1>7 DEF PutFail, TypeOK, PC
<1>8. CASE Crash
  BY <1>8 DEF Crash, TypeOK, PC
<1>9. CASE UNCHANGED vars
  BY <1>9 DEF vars, TypeOK
<1> QED
  BY <1>1, <1>2, <1>3, <1>4, <1>5, <1>6, <1>7, <1>8, <1>9 DEF Next

\* Every reachable state of the Accept calls is well typed.
THEOREM TypeCorrect == Spec => []TypeOK
BY TypeInit, TypeStep, PTL DEF Spec

=============================================================================

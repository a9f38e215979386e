----------------------------- MODULE AcceptStore -----------------------------
(***************************************************************************)
(* The acceptance record of one request (reqaddr, sign or reshare) and the *)
(* calls that update it: AcceptReqAddr, AcceptSign, AcceptReShare of       *)
(* smpc/accept.go.  A pending record lives in the request kind's info      *)
(* table (reqaddr_info / sign_info / reshare_info); a record whose status  *)
(* is no longer "Pending" is moved to pubkey_data.  Each call reads        *)
(* pubkey_data, reads the info table, merges its arguments into the record *)
(* and writes it back: DeleteXInfoData then PutPubKeyData for a terminal   *)
(* status, PutXInfoData otherwise.  Every table access is one atomic       *)
(* LevelDB operation; nothing locks the sequence, so calls of several      *)
(* goroutines interleave between the accesses.  The record keeps the       *)
(* fields the calls treat differently: Status and the result field         *)
(* (PubKey, Rsv or NewSk); the other fields merge the same way.            *)
(***************************************************************************)
EXTENDS Naturals, FiniteSets

CONSTANTS
    Caller,       \* goroutines calling AcceptX for this request
    Result,       \* result values (PubKey / Rsv / NewSk strings)
    MaxCalls,     \* bound on the number of calls
    MaxInFlight,  \* how many calls may overlap
    Crashes,      \* whether the process may crash and restart
    PutFails      \* whether a LevelDB Put may return an error

ASSUME CallerAssumption == Caller # {} /\ IsFiniteSet(Caller)
ASSUME BoundAssumption == MaxCalls \in Nat /\ MaxInFlight \in Nat \ {0}
ASSUME FlagAssumption == Crashes \in BOOLEAN /\ PutFails \in BOOLEAN

Kind == {"reqaddr", "sign", "reshare"}
Status == {"Pending", "Success", "Failure", "Timeout"}
Empty == ""
\* An absent table entry.
None == [status |-> "Absent", res |-> Empty]
Rec == [status : Status, res : Result \cup {Empty}]
\* The status and result arguments of a call ("" keeps the stored value).
Arg == [status : Status \cup {Empty}, res : Result \cup {Empty}]
PC == {"idle", "chkpub", "getinfo", "del", "putpub", "putinfo"}

VARIABLES
    kind,     \* which Accept function the request's callers use
    info,     \* the request's entry in its info table, or None
    pub,      \* the request's entry in pubkey_data, or None
    pc,       \* pc[c]: where caller c is inside its Accept call
    arg,      \* arg[c]: the status and result c passes
    ac2,      \* ac2[c]: the merged record c is about to write
    calls,    \* calls made so far
    crashed   \* whether the process has crashed once

vars == <<kind, info, pub, pc, arg, ac2, calls, crashed>>

TypeOK ==
    /\ kind \in Kind
    /\ info \in Rec \cup {None}
    /\ pub \in Rec \cup {None}
    /\ pc \in [Caller -> PC]
    /\ arg \in [Caller -> Arg]
    /\ ac2 \in [Caller -> Rec \cup {None}]
    /\ calls \in 0..MaxCalls
    /\ crashed \in BOOLEAN

\* After SaveAcceptXData: a pending record with no result in the info table.
Init ==
    /\ kind \in Kind
    /\ info = [status |-> "Pending", res |-> Empty]
    /\ pub = None
    /\ pc = [c \in Caller |-> "idle"]
    /\ arg = [c \in Caller |-> [status |-> Empty, res |-> Empty]]
    /\ ac2 = [c \in Caller |-> None]
    /\ calls = 0
    /\ crashed = FALSE

-----------------------------------------------------------------------------
(* The parts of the three functions that differ.                           *)

\* Mutant: the test of the argument inverted.
Keep_Inverted(old, new) == IF new # Empty THEN old ELSE new

\* x := ac.X; if x' != "" { x = x' }.
Keep(old, new) == IF new # Empty THEN new ELSE old

\* AcceptReqAddr early return: ac.Status != "Pending".
ProcessedReqAddr(r) == r.status # "Pending"
\* AcceptSign early return: ac.Status != "Pending" || ac.Rsv != "".
ProcessedSign(r) == r.status # "Pending" \/ r.res # Empty
\* AcceptReShare early return: ac.Status != "Pending".
ProcessedReShare(r) == r.status # "Pending"

Processed(r) ==
    CASE kind = "reqaddr" -> ProcessedReqAddr(r)
      [] kind = "sign"    -> ProcessedSign(r)
      [] kind = "reshare" -> ProcessedReShare(r)

\* ac2 of AcceptReqAddr: PubKey and Status merged from the arguments.
MergeReqAddr(r, a) == [status |-> Keep(r.status, a.status), res |-> Keep(r.res, a.res)]
\* Mutant: Rsv taken from the argument even when it is "".
MergeSign_NoKeep(r, a) == [status |-> Keep(r.status, a.status), res |-> a.res]
\* ac2 of AcceptSign: Rsv and Status merged from the arguments.
MergeSign(r, a) == [status |-> Keep(r.status, a.status), res |-> Keep(r.res, a.res)]
\* ac2 of AcceptReShare: NewSk and Status merged from the arguments.
MergeReShare(r, a) == [status |-> Keep(r.status, a.status), res |-> Keep(r.res, a.res)]

Merge(r, a) ==
    CASE kind = "reqaddr" -> MergeReqAddr(r, a)
      [] kind = "sign"    -> MergeSign(r, a)
      [] kind = "reshare" -> MergeReShare(r, a)

InFlight == {c \in Caller : pc[c] # "idle"}

-----------------------------------------------------------------------------
(* One action per table access of an Accept call.                          *)

\* A goroutine calls AcceptX(..., status, ..., result, ...).
Call(c, a) ==
    /\ pc[c] = "idle"
    /\ calls < MaxCalls
    /\ Cardinality(InFlight) < MaxInFlight
    /\ pc' = [pc EXCEPT ![c] = "chkpub"]
    /\ arg' = [arg EXCEPT ![c] = a]
    /\ calls' = calls + 1
    /\ UNCHANGED <<kind, info, pub, ac2, crashed>>

\* exsit, da := GetPubKeyData(key): a processed record ends the call.
CheckPub(c) ==
    /\ pc[c] = "chkpub"
    /\ pc' = [pc EXCEPT ![c] = IF pub # None /\ Processed(pub)
                                 THEN "idle" ELSE "getinfo"]
    /\ UNCHANGED <<kind, info, pub, arg, ac2, calls, crashed>>

\* exsit, da = GetXInfoData(key), then ac2 := merge of ac and the arguments;
\* no info record returns "get accept data fail from db".
GetInfo(c) ==
    /\ pc[c] = "getinfo"
    /\ IF info = None
         THEN /\ pc' = [pc EXCEPT ![c] = "idle"]
              /\ UNCHANGED ac2
         ELSE LET new == Merge(info, arg[c])
              IN /\ ac2' = [ac2 EXCEPT ![c] = new]
                 /\ pc' = [pc EXCEPT ![c] =
                             IF new.status # "Pending" THEN "del" ELSE "putinfo"]
    /\ UNCHANGED <<kind, info, pub, arg, calls, crashed>>

\* Mutant: the record is written to pubkey_data without deleting the
\* pending copy.
DelInfo_NoDelete(c) ==
    /\ pc[c] = "del"
    /\ pc' = [pc EXCEPT ![c] = "putpub"]
    /\ UNCHANGED <<kind, info, pub, arg, ac2, calls, crashed>>

\* Mutant: the call returns after the delete and never writes pubkey_data.
DelInfo_NoPut(c) ==
    /\ pc[c] = "del"
    /\ info' = None
    /\ pc' = [pc EXCEPT ![c] = "idle"]
    /\ UNCHANGED <<kind, pub, arg, ac2, calls, crashed>>

\* if ac2.Status != "Pending" { DeleteXInfoData(key) ...
DelInfo(c) ==
    /\ pc[c] = "del"
    /\ info' = None
    /\ pc' = [pc EXCEPT ![c] = "putpub"]
    /\ UNCHANGED <<kind, pub, arg, ac2, calls, crashed>>

\* ... err = PutPubKeyData(key, es) }
PutPub(c) ==
    /\ pc[c] = "putpub"
    /\ pub' = ac2[c]
    /\ pc' = [pc EXCEPT ![c] = "idle"]
    /\ UNCHANGED <<kind, info, arg, ac2, calls, crashed>>

\* else { err = PutXInfoData(key, es) }
PutInfo(c) ==
    /\ pc[c] = "putinfo"
    /\ info' = ac2[c]
    /\ pc' = [pc EXCEPT ![c] = "idle"]
    /\ UNCHANGED <<kind, pub, arg, ac2, calls, crashed>>

\* A Put returns an error: the call returns err.Error(), nothing written.
PutFail(c) ==
    /\ PutFails
    /\ pc[c] \in {"putpub", "putinfo"}
    /\ pc' = [pc EXCEPT ![c] = "idle"]
    /\ UNCHANGED <<kind, info, pub, arg, ac2, calls, crashed>>

\* The process dies; the tables persist, the calls in flight are gone.
Crash ==
    /\ Crashes
    /\ ~crashed
    /\ InFlight # {}
    /\ pc' = [c \in Caller |-> "idle"]
    /\ crashed' = TRUE
    /\ UNCHANGED <<kind, info, pub, arg, ac2, calls>>

Next ==
    \/ \E c \in Caller :
         \/ \E a \in Arg : Call(c, a)
         \/ CheckPub(c) \/ GetInfo(c) \/ DelInfo(c) \/ PutPub(c) \/ PutInfo(c)
         \/ PutFail(c)
    \/ Crash

Spec == Init /\ [][Next]_vars

-----------------------------------------------------------------------------
(* Properties.                                                             *)

\* "the sign has been processed": a record in pubkey_data that no longer
\* waits is final; no later call of AcceptX changes it.
TerminalFinal ==
    [][pub # None /\ pub.status # "Pending" => pub' = pub]_vars

\* Moving a record to pubkey_data removes it from the info table: a request
\* with a final record never also has a pending one, which
\* GetCurNodeReShareInfo would list and CheckReply would read first.
NoPendingShadow ==
    ~(pub # None /\ pub.status # "Pending" /\ info # None)

\* Outside a call the request's record is in one of the two tables, so
\* GetReShareStatus and CheckReply can find it once the calls have returned.
RecordAtRest == InFlight = {} => (info # None \/ pub # None)

\* The table entry t, holding a result, is deleted or still holds one.
KeptIn(t) == (t # None /\ t.res # Empty) => (t' = None \/ t'.res # Empty)

\* A result written by one call (the signature, public key or new share)
\* stays in the table it was written to: no later AcceptX call, one that
\* passes "" for it or one a crash or a failed Put cut short included,
\* writes a record without it there (a later result may replace it; moving
\* the record to pubkey_data deletes the info entry).
ResultKept == [][KeptIn(info) /\ KeptIn(pub)]_vars

=============================================================================

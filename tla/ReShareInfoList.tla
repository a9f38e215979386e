--------------------------- MODULE ReShareInfoList ---------------------------
(***************************************************************************)
(* GetCurNodeReShareInfo of smpc/reqreshare.go.  The caller iterates over *)
(* reshare_info; for each record it starts a goroutine that filters it    *)
(* (not Deal, status "Pending") and sends the survivors on a buffered     *)
(* channel of capacity Cap (1000 in the code).  After the loop the caller *)
(* waits for every goroutine (wg.Wait), then reads len(data) values from  *)
(* the channel and sorts them by TimeStamp, newest first.  Records are    *)
(* model values; a record's fields are fixed for the call.                *)
(***************************************************************************)
EXTENDS Naturals, Sequences, FiniteSets, Functions

CONSTANTS
    Key,        \* keys of reshare_info
    Cap,        \* capacity of the data channel
    MaxStamp    \* timestamps are 1..MaxStamp

ASSUME KeyAssumption == IsFiniteSet(Key)
ASSUME CapAssumption == Cap \in Nat /\ MaxStamp \in Nat \ {0}

Status == {"Pending", "Success", "Failure", "Timeout"}
Record == [status : Status, deal : BOOLEAN, ts : 1..MaxStamp]

VARIABLES
    rec,       \* rec[k]: the AcceptReShareData stored under k
    toVisit,   \* keys the iterator has not reached yet
    running,   \* keys whose goroutine has not returned
    data,      \* contents of the data channel
    ret,       \* the returned slice
    phase      \* "iter", "wait" (wg.Wait), "done"

vars == <<rec, toVisit, running, data, ret, phase>>

TypeOK ==
    /\ rec \in [Key -> Record]
    /\ toVisit \subseteq Key
    /\ running \subseteq Key
    /\ data \in Seq(Key)
    /\ ret \in Seq(Key)
    /\ phase \in {"iter", "wait", "done"}

Init ==
    /\ rec \in [Key -> Record]
    /\ toVisit = Key
    /\ running = {}
    /\ data = <<>>
    /\ ret = <<>>
    /\ phase = "iter"

\* The goroutine's filter: Deal == "true" or Status == "Success" returns,
\* and so does any status other than "Pending".
Listed(r) ==
    /\ ~r.deal
    /\ r.status # "Success"
    /\ r.status = "Pending"

\* Less(i, j): itime.Cmp(jtime) >= 0, newest first.
SortedByStamp(s) ==
    \A i, j \in 1..Len(s) : i < j => rec[s[i]].ts >= rec[s[j]].ts

\* The orders sort.Sort may leave the elements of s in.
Sorted(s) ==
    {t \in [1..Len(s) -> Range(s)] :
        /\ \A k \in Range(s) :
             Cardinality({i \in 1..Len(t) : t[i] = k})
               = Cardinality({i \in 1..Len(s) : s[i] = k})
        /\ SortedByStamp(t)}

\* iter.Next(), GetReShareInfoData(key2), wg.Add(1), go func(...).
IterNext(k) ==
    /\ phase = "iter"
    /\ k \in toVisit
    /\ toVisit' = toVisit \ {k}
    /\ running' = running \cup {k}
    /\ UNCHANGED <<rec, data, ret, phase>>

\* iter.Next() is false: iter.Release(), then wg.Wait().
IterEnd ==
    /\ phase = "iter"
    /\ toVisit = {}
    /\ phase' = "wait"
    /\ UNCHANGED <<rec, toVisit, running, data, ret>>

\* Mutant: the goroutine forgets the Deal test.
Goroutine_NoDeal(k) ==
    /\ k \in running
    /\ IF rec[k].status = "Pending"
         THEN /\ Len(data) < Cap
              /\ data' = Append(data, k)
         ELSE UNCHANGED data
    /\ running' = running \ {k}
    /\ UNCHANGED <<rec, toVisit, ret, phase>>

\* Mutant: the send blocks one slot early.
Goroutine_OffByOne(k) ==
    /\ k \in running
    /\ IF Listed(rec[k])
         THEN /\ Len(data) < Cap - 1
              /\ data' = Append(data, k)
         ELSE UNCHANGED data
    /\ running' = running \ {k}
    /\ UNCHANGED <<rec, toVisit, ret, phase>>

\* The goroutine of key k: filter, then ch <- los, which blocks while the
\* channel is full; defer wg.Done().
Goroutine(k) ==
    /\ k \in running
    /\ IF Listed(rec[k])
         THEN /\ Len(data) < Cap
              /\ data' = Append(data, k)
         ELSE UNCHANGED data
    /\ running' = running \ {k}
    /\ UNCHANGED <<rec, toVisit, ret, phase>>

\* wg.Wait() returns; the len(data) values are read and sorted.
Collect ==
    /\ phase = "wait"
    /\ running = {}
    /\ ret' \in Sorted(data)
    /\ data' = <<>>
    /\ phase' = "done"
    /\ UNCHANGED <<rec, toVisit, running>>

Next ==
    \/ \E k \in Key : IterNext(k) \/ Goroutine(k)
    \/ IterEnd
    \/ Collect

\* The goroutines are scheduled and the caller runs whenever it can.
Fairness ==
    /\ \A k \in Key : WF_vars(Goroutine(k)) /\ WF_vars(IterNext(k))
    /\ WF_vars(IterEnd)
    /\ WF_vars(Collect)

Spec == Init /\ [][Next]_vars /\ Fairness

-----------------------------------------------------------------------------
(* Properties.                                                             *)

\* The returned list holds each pending, undealt record exactly once and no
\* other, newest first, whatever order the goroutines ran in.
ListingExact ==
    phase = "done" =>
        /\ Range(ret) = {k \in Key : Listed(rec[k])}
        /\ Len(ret) = Cardinality(Range(ret))
        /\ SortedByStamp(ret)

\* GetCurNodeReShareInfo returns: the goroutines never all block on the
\* channel while the caller waits for them in wg.Wait().
Returns == <>(phase = "done")

====

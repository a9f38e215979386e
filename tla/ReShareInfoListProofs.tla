----------------------- MODULE ReShareInfoListProofs -----------------------
(***************************************************************************)
(* Proof that GetCurNodeReShareInfo returns each pending, undealt record  *)
(* exactly once, newest first, for every set of keys, every channel       *)
(* capacity and every order of the goroutines.                            *)
(***************************************************************************)
EXTENDS ReShareInfoList, FiniteSetTheorems, TLAPS

USE KeyAssumption, CapAssumption

\* The keys whose goroutine has returned.
Finished == Key \ (toVisit \cup running)

\* No key occurs twice in s.
NoDup(s) == \A i, j \in 1..Len(s) : i # j => s[i] # s[j]

\* The positions of s that hold k.
Count(s, k) == {i \in 1..Len(s) : s[i] = k}

\* The iterator hands out each key once, and wg.Wait ends the loop.
Phases ==
    /\ toVisit \cap running = {}
    /\ phase # "iter" => toVisit = {}
    /\ phase = "done" => running = {}

\* Until the values are read, the channel holds each finished goroutine's
\* key once when its record passed the filter, and nothing else.
Channel ==
    /\ NoDup(data)
    /\ phase # "done" => Range(data) = {k \in Finished : Listed(rec[k])}

\* After sort.Sort the returned slice is the exact listing.
Returned ==
    phase = "done" =>
        /\ Range(ret) = {k \in Key : Listed(rec[k])}
        /\ NoDup(ret)
        /\ SortedByStamp(ret)

IInv == TypeOK /\ Phases /\ Channel /\ Returned

-----------------------------------------------------------------------------
(* Lemmas on sequences without repetition.                                 *)

\* A function on 1..n is a sequence of length n.
LEMMA FunSeq ==
    ASSUME NEW S, NEW n \in Nat, NEW t \in [1..n -> S]
    PROVE  t \in Seq(S) /\ Len(t) = n
OBVIOUS

\* Appending a key that is absent keeps a sequence free of repetition and
\* adds the key to its range.
LEMMA AppendNew ==
    ASSUME NEW S, NEW s \in Seq(S), NEW x \in S, NoDup(s), x \notin Range(s)
    PROVE  /\ Append(s, x) \in Seq(S)
           /\ NoDup(Append(s, x))
           /\ Range(Append(s, x)) = Range(s) \cup {x}
BY DEF NoDup, Range

\* A sequence without repetition has as many elements as positions.
LEMMA NoDupCard ==
    ASSUME NEW S, NEW s \in Seq(S), NoDup(s)
    PROVE  IsFiniteSet(Range(s)) /\ Cardinality(Range(s)) = Len(s)
<1>1. s \in Bijection(1..Len(s), Range(s))
  BY DEF NoDup, Range, Bijection, Injection, Surjection, IsInjective
<1>2. ExistsBijection(1..Len(s), Range(s))
  BY <1>1 DEF ExistsBijection
<1>3. IsFiniteSet(1..Len(s)) /\ Cardinality(1..Len(s)) = Len(s)
  <2>1. Len(s) \in Nat
    OBVIOUS
  <2> QED
    BY <2>1, FS_Interval
<1> QED
  BY <1>2, <1>3, FS_Bijection

\* The positions that hold one value form a finite set.
LEMMA CountFinite ==
    ASSUME NEW S, NEW s \in Seq(S), NEW k
    PROVE  IsFiniteSet(Count(s, k)) /\ Count(s, k) \subseteq 1..Len(s)
<1>1. IsFiniteSet(1..Len(s))
  BY FS_Interval
<1> QED
  BY <1>1, FS_Subset DEF Count

\* In a sequence without repetition a value of its range occurs once.
LEMMA CountOne ==
    ASSUME NEW S, NEW s \in Seq(S), NoDup(s), NEW k \in Range(s)
    PROVE  Cardinality(Count(s, k)) = 1
<1>1. PICK i \in 1..Len(s) : s[i] = k
  BY DEF Range
<1>2. Count(s, k) = {i}
  BY <1>1 DEF Count, NoDup
<1> QED
  BY <1>2, FS_Singleton, Zenon

\* Two distinct positions that hold one value make a count of at least two.
LEMMA CountTwo ==
    ASSUME NEW S, NEW s \in Seq(S), NEW k, NEW i \in 1..Len(s),
           NEW j \in 1..Len(s), i # j, s[i] = k, s[j] = k
    PROVE  Cardinality(Count(s, k)) >= 2
<1>1. IsFiniteSet(Count(s, k))
  BY CountFinite
<1>2. {i, j} \subseteq Count(s, k)
  BY DEF Count
<1>3. Cardinality({i, j}) = 2
  <2>1. IsFiniteSet({i}) /\ Cardinality({i}) = 1
    BY FS_Singleton, Zenon
  <2>2. Cardinality({i} \cup {j}) = Cardinality({i}) + 1
    BY <2>1, FS_AddElement, Zenon
  <2> QED
    BY <2>1, <2>2
<1> QED
  BY <1>1, <1>2, <1>3, FS_Subset

\* What sort.Sort leaves in the slice: a reordering of the channel's keys,
\* newest first, so without repetition when the channel had none.
LEMMA SortedPerm ==
    ASSUME NEW s \in Seq(Key), NoDup(s), NEW t \in Sorted(s)
    PROVE  /\ t \in Seq(Key)
           /\ Range(t) = Range(s)
           /\ NoDup(t)
           /\ SortedByStamp(t)
<1>1. t \in [1..Len(s) -> Range(s)]
  BY DEF Sorted
<1>2. \A k \in Range(s) : Cardinality(Count(t, k)) = Cardinality(Count(s, k))
  BY DEF Sorted, Count
<1>3. Range(s) \subseteq Key
  BY DEF Range
<1>4. t \in Seq(Key) /\ Len(t) = Len(s)
  BY <1>1, <1>3, FunSeq
<1>5. Range(t) \subseteq Range(s)
  BY <1>1 DEF Range
<1>6. Range(s) \subseteq Range(t)
  <2> SUFFICES ASSUME NEW k \in Range(s) PROVE k \in Range(t)
    OBVIOUS
  <2>1. Cardinality(Count(t, k)) = 1
    BY <1>2, CountOne
  <2>2. Count(t, k) # {}
    BY <1>4, <2>1, CountFinite, FS_EmptySet
  <2> QED
    BY <2>2 DEF Count, Range
<1>7. NoDup(t)
  <2> SUFFICES ASSUME NEW i \in 1..Len(t), NEW j \in 1..Len(t), i # j,
                      t[i] = t[j]
               PROVE  FALSE
    BY DEF NoDup
  <2>1. t[i] \in Range(s)
    BY <1>1, <1>4
  <2>2. Cardinality(Count(t, t[i])) = 1
    BY <1>2, <2>1, CountOne
  <2> QED
    BY <1>4, <2>2, CountTwo
<1>8. SortedByStamp(t)
  BY DEF Sorted
<1> QED
  BY <1>4, <1>5, <1>6, <1>7, <1>8, Zenon

-----------------------------------------------------------------------------
(* The inductive invariant.                                                *)

LEMMA IInvInit == Init => IInv
<1> SUFFICES ASSUME Init PROVE IInv
  OBVIOUS
<1>1. TypeOK /\ Phases
  BY DEF Init, TypeOK, Phases
<1>2. Finished = {} /\ Range(data) = {}
  BY DEF Init, Finished, Range
<1>3. Channel
  BY <1>2 DEF Init, Channel, NoDup
<1>4. Returned
  BY DEF Init, Returned
<1> QED
  BY <1>1, <1>3, <1>4 DEF IInv

LEMMA IInvStep == IInv /\ [Next]_vars => IInv'
<1> SUFFICES ASSUME IInv, [Next]_vars PROVE IInv'
  OBVIOUS
<1>0. TypeOK /\ Phases /\ Channel /\ Returned
  BY DEF IInv
<1>1. CASE \E k \in Key : IterNext(k)
  <2>1. PICK k \in Key : IterNext(k)
    BY <1>1
  <2>2. /\ toVisit' = toVisit \ {k} /\ running' = running \cup {k}
        /\ UNCHANGED <<rec, data, ret, phase>> /\ phase = "iter" /\ k \in toVisit
    BY <2>1, Zenon DEF IterNext
  <2>3. TypeOK' /\ Phases'
    BY <1>0, <2>2 DEF TypeOK, Phases
  <2>4. Finished' = Finished
    BY <1>0, <2>2 DEF Finished, Phases
  <2>5. Channel'
    BY <1>0, <2>2, <2>4 DEF Channel, NoDup, Range
  <2>6. Returned'
    BY <2>2 DEF Returned
  <2> QED
    BY <2>3, <2>5, <2>6 DEF IInv
<1>2. CASE \E k \in Key : Goroutine(k)
  <2>1. PICK k \in Key : Goroutine(k)
    BY <1>2
  <2>2. /\ k \in running /\ running' = running \ {k}
        /\ UNCHANGED <<rec, toVisit, ret, phase>>
        /\ Listed(rec[k]) => data' = Append(data, k)
        /\ ~Listed(rec[k]) => data' = data
    BY <2>1, Zenon DEF Goroutine
  <2>3. phase # "done" /\ k \notin toVisit
    BY <1>0, <2>2 DEF Phases
  <2>4. Finished' = Finished \cup {k} /\ k \notin Finished
    BY <2>2, <2>3 DEF Finished
  <2>5. k \notin Range(data)
    BY <1>0, <2>3, <2>4 DEF Channel
  <2>6. /\ data' \in Seq(Key) /\ NoDup(data')
        /\ Range(data') = {j \in Finished' : Listed(rec'[j])}
    <3>1. CASE Listed(rec[k])
      <4>1. /\ Append(data, k) \in Seq(Key) /\ NoDup(Append(data, k))
            /\ Range(Append(data, k)) = Range(data) \cup {k}
        BY <1>0, <2>5, AppendNew DEF TypeOK, Channel
      <4> QED
        BY <1>0, <2>2, <2>3, <2>4, <3>1, <4>1, Zenon DEF Channel
    <3>2. CASE ~Listed(rec[k])
      BY <1>0, <2>2, <2>3, <2>4, <3>2 DEF Channel, TypeOK
    <3> QED
      BY <3>1, <3>2
  <2>7. TypeOK' /\ Phases'
    BY <1>0, <2>2, <2>6 DEF TypeOK, Phases
  <2>8. Channel' /\ Returned'
    BY <2>2, <2>3, <2>6 DEF Channel, Returned
  <2> QED
    BY <2>7, <2>8 DEF IInv
<1>3. CASE IterEnd
  <2>1. /\ phase = "iter" /\ toVisit = {} /\ phase' = "wait"
        /\ UNCHANGED <<rec, toVisit, running, data, ret>>
    BY <1>3, Zenon DEF IterEnd
  <2>2. TypeOK' /\ Phases'
    BY <1>0, <2>1 DEF TypeOK, Phases
  <2>3. Channel' /\ Returned'
    BY <1>0, <2>1 DEF Channel, Returned, Finished
  <2> QED
    BY <2>2, <2>3 DEF IInv
<1>4. CASE Collect
  <2>1. /\ phase = "wait" /\ running = {} /\ ret' \in Sorted(data)
        /\ data' = <<>> /\ phase' = "done"
        /\ UNCHANGED <<rec, toVisit, running>>
    BY <1>4, Zenon DEF Collect
  <2>2. toVisit = {} /\ Finished = Key
    BY <1>0, <2>1 DEF Phases, Finished
  <2>3. Range(data) = {k \in Key : Listed(rec[k])} /\ NoDup(data)
    BY <1>0, <2>1, <2>2 DEF Channel
  <2>4. /\ ret' \in Seq(Key) /\ Range(ret') = Range(data)
        /\ NoDup(ret') /\ SortedByStamp(ret')
    <3>1. data \in Seq(Key)
      BY <1>0 DEF TypeOK
    <3> QED
      BY <2>1, <2>3, <3>1, SortedPerm
  <2>5. TypeOK' /\ Phases'
    BY <1>0, <2>1, <2>2, <2>4 DEF TypeOK, Phases
  <2>6. Channel'
    BY <2>1 DEF Channel, NoDup
  <2>7. Returned'
    BY <2>1, <2>3, <2>4 DEF Returned, SortedByStamp
  <2> QED
    BY <2>5, <2>6, <2>7 DEF IInv
<1>5. CASE UNCHANGED vars
  BY <1>0, <1>5 DEF vars, IInv, TypeOK, Phases, Channel, Returned, Finished,
     NoDup, Range, SortedByStamp, Listed
<1> QED
  BY <1>1, <1>2, <1>3, <1>4, <1>5 DEF Next

-----------------------------------------------------------------------------
(* Theorems.                                                               *)

\* The invariant gives the listing: a slice without repetition has as many
\* entries as distinct keys.
LEMMA IInvListing == IInv => ListingExact
<1> SUFFICES ASSUME IInv, phase = "done"
             PROVE  /\ Range(ret) = {k \in Key : Listed(rec[k])}
                    /\ Len(ret) = Cardinality(Range(ret))
                    /\ SortedByStamp(ret)
  BY DEF ListingExact
<1>1. ret \in Seq(Key) /\ NoDup(ret)
  BY DEF IInv, TypeOK, Returned
<1>2. Len(ret) = Cardinality(Range(ret))
  BY <1>1, NoDupCard
<1> QED
  BY <1>2 DEF IInv, Returned

\* GetCurNodeReShareInfo returns each pending, undealt reshare record once
\* and no other, sorted newest first, for every set of keys, every channel
\* capacity and every interleaving of the goroutines with the iterator.
THEOREM ListingIsExact == Spec => []ListingExact
<1>1. Init => IInv
  BY IInvInit
<1>2. IInv /\ [Next]_vars => IInv'
  BY IInvStep
<1>3. IInv => ListingExact
  BY IInvListing
<1> QED
  BY <1>1, <1>2, <1>3, PTL DEF Spec

\* Every reachable state of the listing is well typed: the channel and the
\* returned slice hold keys of reshare_info.
THEOREM TypeCorrect == Spec => []TypeOK
<1> QED
  BY IInvInit, IInvStep, PTL DEF Spec, IInv

====

------------------------- MODULE SafePrimePoolProofs -------------------------
(***************************************************************************)
(* Proofs about the safe-prime pool, for every set of callers, every      *)
(* channel capacity and every number of primes.                           *)
(***************************************************************************)
EXTENDS SafePrimePool, TLAPS

USE PoolAssumption

\* The primes c holds between its receives and its sends.
Held(c) ==
    CASE pc[c] = "take2" -> {sp[c][1]}
      [] pc[c] = "put1"  -> {sp[c][1], sp[c][2]}
      [] pc[c] = "put2"  -> {sp[c][2]}
      [] OTHER           -> {}

\* x is an element of s; s holds no element twice.
InSeq(s, x) == \E k \in 1..Len(s) : s[k] = x
NoDup(s) == \A k, l \in 1..Len(s) : k # l => s[k] # s[l]

\* Every generated prime is in one place only: the channel holds it once,
\* or exactly one caller holds it; a caller that received both primes
\* received two different ones.
PoolNoRep == NoDup(pool)
HeldApart == \A c \in Caller : \A x \in Held(c) : ~InSeq(pool, x)
HeldDisjoint == \A c, d \in Caller : c # d => Held(c) \cap Held(d) = {}
Generated ==
    /\ \A k \in 1..Len(pool) : pool[k] \in 1..made
    /\ \A c \in Caller : Held(c) \subseteq 1..made
Received ==
    \A c \in Caller :
        /\ pc[c] # "take1" => sp[c][1] \in Prime
        /\ pc[c] \in {"put1", "put2", "done"} => sp[c][2] \in Prime
TwoPrimes ==
    \A c \in Caller : pc[c] \in {"put1", "put2", "done"} => sp[c][1] # sp[c][2]

\* The inductive invariant of DistinctFactors.
IInv == /\ TypeOK /\ PoolNoRep /\ HeldApart /\ HeldDisjoint /\ Generated
        /\ Received /\ TwoPrimes /\ DistinctFactors


-----------------------------------------------------------------------------
(* What a send and a receive do to the channel's contents.                 *)

\* A send adds exactly x, and keeps the buffer free of repetitions when x
\* was not buffered.
LEMMA AppendSeq ==
    ASSUME NEW S, NEW q \in Seq(S), NEW x \in S
    PROVE  /\ Append(q, x) \in Seq(S)
           /\ Len(Append(q, x)) = Len(q) + 1
           /\ \A y : InSeq(Append(q, x), y) <=> InSeq(q, y) \/ y = x
           /\ NoDup(q) /\ ~InSeq(q, x) => NoDup(Append(q, x))
<1>1. \A y : InSeq(Append(q, x), y) <=> InSeq(q, y) \/ y = x
  <2> SUFFICES ASSUME NEW y PROVE InSeq(Append(q, x), y) <=> InSeq(q, y) \/ y = x
    OBVIOUS
  <2>1. InSeq(Append(q, x), y) => InSeq(q, y) \/ y = x
    BY DEF InSeq
  <2>2. InSeq(q, y) => InSeq(Append(q, x), y)
    BY DEF InSeq
  <2>3. y = x => InSeq(Append(q, x), y)
    <3>1. Len(q) + 1 \in 1..Len(Append(q, x)) /\ Append(q, x)[Len(q) + 1] = x
      OBVIOUS
    <3> QED
      BY <3>1 DEF InSeq
  <2> QED
    BY <2>1, <2>2, <2>3
<1>2. NoDup(q) /\ ~InSeq(q, x) => NoDup(Append(q, x))
  BY DEF NoDup, InSeq
<1> QED
  BY <1>1, <1>2

\* A receive takes the head, which the rest of a repetition-free buffer
\* does not hold.
LEMMA TailSeq ==
    ASSUME NEW S, NEW q \in Seq(S), q # << >>, NoDup(q)
    PROVE  /\ Tail(q) \in Seq(S) /\ Head(q) \in S
           /\ Len(Tail(q)) = Len(q) - 1
           /\ InSeq(q, Head(q))
           /\ \A y : InSeq(Tail(q), y) <=> InSeq(q, y) /\ y # Head(q)
           /\ NoDup(Tail(q))
           /\ \A k \in 1..Len(Tail(q)) : Tail(q)[k] = q[k + 1]
<1>1. \A y : InSeq(Tail(q), y) <=> InSeq(q, y) /\ y # Head(q)
  <2> SUFFICES ASSUME NEW y PROVE InSeq(Tail(q), y) <=> InSeq(q, y) /\ y # Head(q)
    OBVIOUS
  <2>1. InSeq(Tail(q), y) => InSeq(q, y) /\ y # Head(q)
    BY DEF InSeq, NoDup
  <2>2. InSeq(q, y) /\ y # Head(q) => InSeq(Tail(q), y)
    <3> SUFFICES ASSUME NEW k \in 1..Len(q), q[k] = y, y # Head(q)
                 PROVE  InSeq(Tail(q), y)
      BY DEF InSeq
    <3>1. k # 1
      OBVIOUS
    <3>2. k - 1 \in 1..Len(Tail(q)) /\ Tail(q)[k - 1] = y
      BY <3>1
    <3> QED
      BY <3>2 DEF InSeq
  <2> QED
    BY <2>1, <2>2
<1>2. InSeq(q, Head(q))
  <2>1. 1 \in 1..Len(q) /\ q[1] = Head(q)
    OBVIOUS
  <2> QED
    BY <2>1 DEF InSeq
<1>3. NoDup(Tail(q))
  BY DEF NoDup
<1> QED
  BY <1>1, <1>2, <1>3

-----------------------------------------------------------------------------
(* The invariant.                                                          *)

LEMMA IInvInit == Init => IInv
<1> SUFFICES ASSUME Init PROVE IInv
  OBVIOUS
<1>1. /\ pool = << >> /\ made = 0 /\ keys = {}
      /\ pc = [c \in Caller |-> "take1"]
      /\ sp = [c \in Caller |-> <<NoPrime, NoPrime>>]
  BY DEF Init
<1>2. \A c \in Caller : Held(c) = {}
  BY <1>1 DEF Held
<1>3. TypeOK
  BY <1>1 DEF TypeOK, Prime, NoPrime
<1> QED
  BY <1>1, <1>2, <1>3 DEF IInv, PoolNoRep, NoDup, HeldApart, InSeq, HeldDisjoint,
                          Generated, Received, TwoPrimes, DistinctFactors


\* A caller whose statement and primes a step leaves alone holds the same.
LEMMA HeldSame ==
    ASSUME NEW d, pc'[d] = pc[d], sp'[d] = sp[d]
    PROVE  Held(d)' = Held(d)
BY DEF Held

\* What c holds at each statement.
LEMMA HeldAt ==
    ASSUME NEW c
    PROVE  /\ pc[c] \in {"take1", "done"} => Held(c) = {}
           /\ pc[c] = "take2" => Held(c) = {sp[c][1]}
           /\ pc[c] = "put1" => Held(c) = {sp[c][1], sp[c][2]}
           /\ pc[c] = "put2" => Held(c) = {sp[c][2]}
BY DEF Held

LEMMA IInvStep == IInv /\ [Next]_vars => IInv'
<1> SUFFICES ASSUME IInv, [Next]_vars PROVE IInv'
  OBVIOUS
<1>0. /\ TypeOK /\ PoolNoRep /\ HeldApart /\ HeldDisjoint /\ Generated
      /\ Received /\ TwoPrimes /\ DistinctFactors
  BY DEF IInv
<1>1. CASE Produce
  <2>1. /\ made < MaxPrimes /\ Len(pool) < Cap
        /\ pool' = Append(pool, made + 1) /\ made' = made + 1
        /\ UNCHANGED <<pc, sp, keys>>
    BY <1>1 DEF Produce
  <2>2. made + 1 \in Prime /\ ~InSeq(pool, made + 1)
    BY <1>0, <2>1 DEF Generated, InSeq, TypeOK, Prime
  <2>3. \A c \in Caller : Held(c)' = Held(c)
    BY <2>1, HeldSame
  <2>4. /\ pool' \in Seq(Prime) /\ Len(pool') = Len(pool) + 1
        /\ \A y : InSeq(pool', y) <=> InSeq(pool, y) \/ y = made + 1
        /\ NoDup(pool')
    BY <1>0, <2>1, <2>2, AppendSeq DEF TypeOK, PoolNoRep
  <2>5. TypeOK'
    BY <1>0, <2>1, <2>4 DEF TypeOK
  <2>6. HeldApart'
    <3> SUFFICES ASSUME NEW c \in Caller, NEW x \in Held(c)' PROVE ~InSeq(pool', x)
      BY DEF HeldApart
    <3>1. x \in 1..made /\ ~InSeq(pool, x)
      BY <1>0, <2>3 DEF HeldApart, Generated
    <3> QED
      BY <1>0, <2>4, <3>1 DEF TypeOK
  <2>7. Generated'
    <3>1. \A k \in 1..Len(pool') : pool'[k] \in 1..made'
      BY <1>0, <2>1, <2>4 DEF Generated, TypeOK
    <3> QED
      BY <1>0, <2>1, <2>3, <3>1 DEF Generated, TypeOK
  <2> QED
    BY <1>0, <2>1, <2>3, <2>4, <2>5, <2>6, <2>7
       DEF IInv, PoolNoRep, HeldDisjoint, Received, TwoPrimes, DistinctFactors
<1>2. ASSUME NEW c \in Caller, Take1(c) PROVE IInv'
  <2>1. /\ pc[c] = "take1" /\ pool # << >>
        /\ sp' = [sp EXCEPT ![c][1] = Head(pool)]
        /\ pool' = Tail(pool)
        /\ pc' = [pc EXCEPT ![c] = "take2"]
        /\ UNCHANGED <<made, keys>>
    BY <1>2 DEF Take1
  <2>2. /\ pool' \in Seq(Prime) /\ Head(pool) \in Prime
        /\ Len(pool') = Len(pool) - 1
        /\ InSeq(pool, Head(pool))
        /\ \A y : InSeq(pool', y) <=> InSeq(pool, y) /\ y # Head(pool)
        /\ NoDup(pool')
        /\ \A k \in 1..Len(pool') : pool'[k] = pool[k + 1]
    BY <1>0, <2>1, TailSeq DEF TypeOK, PoolNoRep
  <2>3. /\ Held(c) = {}
        /\ Held(c)' = {Head(pool)}
        /\ \A d \in Caller \ {c} : Held(d)' = Held(d)
    <3>1. pc'[c] = "take2" /\ sp'[c][1] = Head(pool)
      BY <1>0, <2>1 DEF TypeOK
    <3>2. \A d \in Caller \ {c} : pc'[d] = pc[d] /\ sp'[d] = sp[d]
      BY <1>0, <2>1 DEF TypeOK
    <3> QED
      BY <2>1, <3>1, <3>2 DEF Held
  <2>4. \A d \in Caller : Head(pool) \notin Held(d)
    BY <1>0, <2>2 DEF HeldApart
  <2>5. TypeOK'
    BY <1>0, <2>1, <2>2, SMTT(30) DEF TypeOK, Prime, NoPrime
  <2>6. Generated'
    <3>1. Head(pool) \in 1..made
      BY <1>0, <2>1 DEF Generated, TypeOK
    <3> QED
      BY <1>0, <2>1, <2>2, <2>3, <3>1 DEF Generated, TypeOK
  <2>7. Received' /\ TwoPrimes'
    BY <1>0, <2>1, <2>2 DEF Received, TwoPrimes, TypeOK
  <2> QED
    BY <1>0, <2>1, <2>2, <2>3, <2>4, <2>5, <2>6, <2>7
       DEF IInv, PoolNoRep, HeldApart, HeldDisjoint, DistinctFactors
<1>3. ASSUME NEW c \in Caller, Take2(c) PROVE IInv'
  <2>1. /\ pc[c] = "take2" /\ pool # << >>
        /\ sp' = [sp EXCEPT ![c][2] = Head(pool)]
        /\ pool' = Tail(pool)
        /\ pc' = [pc EXCEPT ![c] = "put1"]
        /\ UNCHANGED <<made, keys>>
    BY <1>3 DEF Take2
  <2>2. /\ pool' \in Seq(Prime) /\ Head(pool) \in Prime
        /\ Len(pool') = Len(pool) - 1
        /\ InSeq(pool, Head(pool))
        /\ \A y : InSeq(pool', y) <=> InSeq(pool, y) /\ y # Head(pool)
        /\ NoDup(pool')
        /\ \A k \in 1..Len(pool') : pool'[k] = pool[k + 1]
    BY <1>0, <2>1, TailSeq DEF TypeOK, PoolNoRep
  <2>3. /\ pc'[c] = "put1" /\ sp'[c][1] = sp[c][1] /\ sp'[c][2] = Head(pool)
        /\ \A d \in Caller \ {c} : pc'[d] = pc[d] /\ sp'[d] = sp[d]
    BY <1>0, <2>1 DEF TypeOK
  <2>4. /\ Held(c) = {sp[c][1]}
        /\ Held(c)' = {sp[c][1], Head(pool)}
        /\ \A d \in Caller \ {c} : Held(d)' = Held(d)
    BY <2>1, <2>3 DEF Held
  <2>5. /\ ~InSeq(pool, sp[c][1])
        /\ \A d \in Caller : Head(pool) \notin Held(d)
        /\ sp[c][1] # Head(pool)
    BY <1>0, <2>2, <2>4 DEF HeldApart
  <2>6. TypeOK'
    BY <1>0, <2>1, <2>2 DEF TypeOK, Prime, NoPrime
  <2>7. HeldApart' /\ HeldDisjoint'
    BY <1>0, <2>2, <2>4, <2>5 DEF HeldApart, HeldDisjoint
  <2>8. Generated'
    <3>1. Head(pool) \in 1..made
      BY <1>0, <2>1 DEF Generated, TypeOK
    <3> QED
      BY <1>0, <2>1, <2>2, <2>4, <3>1 DEF Generated, TypeOK
  <2>9. Received' /\ TwoPrimes'
    <3>1. sp[c][1] \in Prime
      BY <1>0, <2>1 DEF Received
    <3>2. Received'
      BY <1>0, <2>2, <2>3, <3>1 DEF Received
    <3>3. TwoPrimes'
      BY <1>0, <2>3, <2>5 DEF TwoPrimes
    <3> QED
      BY <3>2, <3>3
  <2> QED
    BY <1>0, <2>1, <2>2, <2>6, <2>7, <2>8, <2>9
       DEF IInv, PoolNoRep, DistinctFactors
<1>4. ASSUME NEW c \in Caller, Put1(c) PROVE IInv'
  <2>1. /\ pc[c] = "put1" /\ Len(pool) < Cap
        /\ pool' = Append(pool, sp[c][1])
        /\ pc' = [pc EXCEPT ![c] = "put2"]
        /\ UNCHANGED <<made, sp, keys>>
    BY <1>4 DEF Put1
  <2>2. /\ Held(c) = {sp[c][1], sp[c][2]}
        /\ Held(c)' = {sp[c][2]}
        /\ \A d \in Caller \ {c} : Held(d)' = Held(d)
    BY <1>0, <2>1 DEF Held, TypeOK
  <2>3. /\ sp[c][1] \in Prime /\ sp[c][1] # sp[c][2]
        /\ ~InSeq(pool, sp[c][1]) /\ ~InSeq(pool, sp[c][2])
        /\ \A d \in Caller \ {c} : sp[c][1] \notin Held(d)
    BY <1>0, <2>1, <2>2 DEF Received, TwoPrimes, HeldApart, HeldDisjoint
  <2>4. /\ pool' \in Seq(Prime) /\ Len(pool') = Len(pool) + 1
        /\ \A y : InSeq(pool', y) <=> InSeq(pool, y) \/ y = sp[c][1]
        /\ NoDup(pool')
    BY <1>0, <2>1, <2>3, AppendSeq DEF TypeOK, PoolNoRep
  <2>5. TypeOK'
    BY <1>0, <2>1, <2>4 DEF TypeOK
  <2>6. HeldApart'
    BY <1>0, <2>2, <2>3, <2>4 DEF HeldApart
  <2>7. HeldDisjoint'
    BY <1>0, <2>2 DEF HeldDisjoint
  <2>8. Generated'
    <3>1. sp[c][1] \in 1..made
      BY <1>0, <2>2 DEF Generated
    <3>2. \A k \in 1..Len(pool') : pool'[k] \in 1..made
      BY <1>0, <2>1, <3>1 DEF Generated, TypeOK
    <3> QED
      BY <1>0, <2>1, <2>2, <3>2 DEF Generated
  <2>9. Received' /\ TwoPrimes'
    BY <1>0, <2>1 DEF Received, TwoPrimes, TypeOK
  <2> QED
    BY <1>0, <2>1, <2>4, <2>5, <2>6, <2>7, <2>8, <2>9
       DEF IInv, PoolNoRep, DistinctFactors
<1>5. ASSUME NEW c \in Caller, Put2(c) PROVE IInv'
  <2>1. /\ pc[c] = "put2" /\ Len(pool) < Cap
        /\ pool' = Append(pool, sp[c][2])
        /\ pc' = [pc EXCEPT ![c] = "done"]
        /\ keys' = keys \cup {<<c, sp[c][1], sp[c][2]>>}
        /\ UNCHANGED <<made, sp>>
    BY <1>5 DEF Put2
  <2>2. /\ Held(c) = {sp[c][2]}
        /\ Held(c)' = {}
        /\ \A d \in Caller \ {c} : Held(d)' = Held(d)
    BY <1>0, <2>1 DEF Held, TypeOK
  <2>3. /\ sp[c][1] \in Prime /\ sp[c][2] \in Prime /\ sp[c][1] # sp[c][2]
        /\ ~InSeq(pool, sp[c][2])
        /\ \A d \in Caller \ {c} : sp[c][2] \notin Held(d)
    BY <1>0, <2>1, <2>2 DEF Received, TwoPrimes, HeldApart, HeldDisjoint
  <2>4. /\ pool' \in Seq(Prime) /\ Len(pool') = Len(pool) + 1
        /\ \A y : InSeq(pool', y) <=> InSeq(pool, y) \/ y = sp[c][2]
        /\ NoDup(pool')
    BY <1>0, <2>1, <2>3, AppendSeq DEF TypeOK, PoolNoRep
  <2>5. TypeOK'
    BY <1>0, <2>1, <2>3, <2>4 DEF TypeOK
  <2>6. HeldApart'
    BY <1>0, <2>2, <2>3, <2>4 DEF HeldApart
  <2>7. HeldDisjoint'
    BY <1>0, <2>2 DEF HeldDisjoint
  <2>8. Generated'
    <3>1. sp[c][2] \in 1..made
      BY <1>0, <2>2 DEF Generated
    <3>2. \A k \in 1..Len(pool') : pool'[k] \in 1..made
      BY <1>0, <2>1, <3>1 DEF Generated, TypeOK
    <3> QED
      BY <1>0, <2>1, <2>2, <3>2 DEF Generated
  <2>9. Received' /\ TwoPrimes'
    BY <1>0, <2>1 DEF Received, TwoPrimes, TypeOK
  <2>10. DistinctFactors'
    BY <1>0, <2>1, <2>3 DEF DistinctFactors
  <2> QED
    BY <2>4, <2>5, <2>6, <2>7, <2>8, <2>9, <2>10 DEF IInv, PoolNoRep
<1>6. CASE UNCHANGED vars
  <2>1. \A c \in Caller : Held(c)' = Held(c)
    BY <1>6 DEF vars, Held
  <2> QED
    BY <1>0, <1>6, <2>1 DEF vars, IInv, TypeOK, PoolNoRep, NoDup, HeldApart,
       InSeq, HeldDisjoint, Generated, Received, TwoPrimes, DistinctFactors
<1>9. QED
  BY <1>1, <1>2, <1>3, <1>4, <1>5, <1>6 DEF Next


\* For every number of concurrent GenerateKeyPair calls, every capacity of
\* SafePrimeCh and every number of primes: no Paillier modulus is built
\* from one safe prime twice, whatever order the callers' receives and
\* put-backs take.
THEOREM DistinctPrimes == Spec => []DistinctFactors
<1>1. IInv => DistinctFactors
  BY DEF IInv
<1> QED
  BY <1>1, IInvInit, IInvStep, PTL DEF Spec

\* The pool never exceeds its capacity and callers' primes stay primes.
THEOREM TypeCorrect == Spec => []TypeOK
<1>1. IInv => TypeOK
  BY DEF IInv
<1> QED
  BY <1>1, IInvInit, IInvStep, PTL DEF Spec

-----------------------------------------------------------------------------
(* GenerateKeyPair implements the atomic keygen of the spec.               *)

\* The primes a caller received were produced before.
Drawn ==
    \A c \in Caller :
        /\ pc[c] # "take1" => sp[c][1] \in 1..made
        /\ pc[c] \in {"put1", "put2", "done"} => sp[c][2] \in 1..made

\* A caller has returned a key exactly when its GenerateKeyPair is done.
KeyedDone == \A c \in Caller : (\E k \in keys : k[1] = c) <=> pc[c] = "done"

\* The invariant of the refinement.
RInv == IInv /\ Drawn /\ KeyedDone

LEMMA RInvInit == Init => RInv
<1> SUFFICES ASSUME Init PROVE RInv
  OBVIOUS
<1>1. keys = {} /\ pc = [c \in Caller |-> "take1"]
  BY DEF Init
<1> QED
  BY <1>1, IInvInit DEF RInv, Drawn, KeyedDone

LEMMA RInvStep == RInv /\ [Next]_vars => RInv'
<1> SUFFICES ASSUME RInv, [Next]_vars PROVE RInv'
  OBVIOUS
<1>0. /\ IInv' /\ TypeOK /\ Generated /\ Drawn /\ KeyedDone
  BY IInvStep DEF RInv, IInv
<1>1. CASE Produce
  <2>1. made' = made + 1 /\ UNCHANGED <<pc, sp, keys>>
    BY <1>1 DEF Produce
  <2> QED
    BY <1>0, <2>1 DEF RInv, Drawn, KeyedDone, TypeOK
<1>2. ASSUME NEW c \in Caller, Take1(c) PROVE RInv'
  <2>1. /\ pc[c] = "take1" /\ pool # << >>
        /\ sp' = [sp EXCEPT ![c][1] = Head(pool)]
        /\ pc' = [pc EXCEPT ![c] = "take2"]
        /\ UNCHANGED <<made, keys>>
    BY <1>2 DEF Take1
  <2>2. Head(pool) \in 1..made
    BY <1>0, <2>1 DEF Generated, TypeOK
  <2>3. /\ pc'[c] = "take2" /\ sp'[c][1] = Head(pool)
        /\ \A d \in Caller \ {c} : pc'[d] = pc[d] /\ sp'[d] = sp[d]
    BY <1>0, <2>1 DEF TypeOK
  <2> QED
    BY <1>0, <2>1, <2>2, <2>3 DEF RInv, Drawn, KeyedDone
<1>3. ASSUME NEW c \in Caller, Take2(c) PROVE RInv'
  <2>1. /\ pc[c] = "take2" /\ pool # << >>
        /\ sp' = [sp EXCEPT ![c][2] = Head(pool)]
        /\ pc' = [pc EXCEPT ![c] = "put1"]
        /\ UNCHANGED <<made, keys>>
    BY <1>3 DEF Take2
  <2>2. Head(pool) \in 1..made /\ sp[c][1] \in 1..made
    BY <1>0, <2>1 DEF Generated, Drawn, TypeOK
  <2>3. /\ pc'[c] = "put1" /\ sp'[c][1] = sp[c][1] /\ sp'[c][2] = Head(pool)
        /\ \A d \in Caller \ {c} : pc'[d] = pc[d] /\ sp'[d] = sp[d]
    BY <1>0, <2>1 DEF TypeOK
  <2> QED
    BY <1>0, <2>1, <2>2, <2>3 DEF RInv, Drawn, KeyedDone
<1>4. ASSUME NEW c \in Caller, Put1(c) PROVE RInv'
  <2>1. /\ pc[c] = "put1" /\ pc' = [pc EXCEPT ![c] = "put2"]
        /\ UNCHANGED <<made, sp, keys>>
    BY <1>4 DEF Put1
  <2> QED
    BY <1>0, <2>1 DEF RInv, Drawn, KeyedDone, TypeOK
<1>5. ASSUME NEW c \in Caller, Put2(c) PROVE RInv'
  <2>1. /\ pc[c] = "put2" /\ pc' = [pc EXCEPT ![c] = "done"]
        /\ keys' = keys \cup {<<c, sp[c][1], sp[c][2]>>}
        /\ UNCHANGED <<made, sp>>
    BY <1>5 DEF Put2
  <2>2. /\ pc'[c] = "done"
        /\ \A d \in Caller \ {c} : pc'[d] = pc[d]
    BY <1>0, <2>1 DEF TypeOK
  <2>3. Drawn'
    BY <1>0, <2>1, <2>2 DEF Drawn
  <2>4. KeyedDone'
    <3> SUFFICES ASSUME NEW d \in Caller
                 PROVE  (\E k \in keys' : k[1] = d) <=> pc'[d] = "done"
      BY DEF KeyedDone
    <3>1. CASE d = c
      <4>1. <<c, sp[c][1], sp[c][2]>> \in keys' /\ <<c, sp[c][1], sp[c][2]>>[1] = c
        BY <2>1
      <4> QED
        BY <2>2, <3>1, <4>1
    <3>2. CASE d # c
      <4>1. (\E k \in keys' : k[1] = d) <=> (\E k \in keys : k[1] = d)
        BY <2>1, <3>2
      <4> QED
        BY <1>0, <2>2, <3>2, <4>1 DEF KeyedDone
    <3> QED
      BY <3>1, <3>2
  <2> QED
    BY <1>0, <2>3, <2>4 DEF RInv
<1>6. CASE UNCHANGED vars
  BY <1>0, <1>6 DEF vars, RInv, Drawn, KeyedDone
<1> QED
  BY <1>1, <1>2, <1>3, <1>4, <1>5, <1>6 DEF Next

\* The initial state is the atomic keygen's: no prime produced, no key.
LEMMA RefInit == Init => Atomic!Init
BY DEF Init, Atomic!Init

\* Produce is the pool's Generate; Put2, where n = p * q is built, is the
\* atomic KeyGen; the receives and the first send change neither made nor
\* keys.
LEMMA RefStep == RInv /\ [Next]_vars => [Atomic!Next]_<<made, keys>>
<1> SUFFICES ASSUME RInv, [Next]_vars PROVE [Atomic!Next]_<<made, keys>>
  OBVIOUS
<1>0. TypeOK /\ Drawn /\ TwoPrimes /\ KeyedDone
  BY DEF RInv, IInv
<1>1. CASE Produce
  <2>1. made < MaxPrimes /\ made' = made + 1 /\ keys' = keys
    BY <1>1 DEF Produce
  <2> QED
    BY <2>1 DEF Atomic!Next, Atomic!Generate
<1>2. ASSUME NEW c \in Caller, Take1(c) \/ Take2(c) \/ Put1(c)
      PROVE  UNCHANGED <<made, keys>>
  BY <1>2 DEF Take1, Take2, Put1
<1>3. ASSUME NEW c \in Caller, Put2(c) PROVE Atomic!Next
  <2>1. /\ pc[c] = "put2"
        /\ keys' = keys \cup {<<c, sp[c][1], sp[c][2]>>}
        /\ made' = made
    BY <1>3 DEF Put2
  <2>2. sp[c][1] \in 1..made /\ sp[c][2] \in 1..made /\ sp[c][1] # sp[c][2]
    BY <1>0, <2>1 DEF Drawn, TwoPrimes
  <2>3. c \notin Atomic!Keyed
    <3>1. ~\E k \in keys : k[1] = c
      BY <1>0, <2>1 DEF KeyedDone
    <3> QED
      BY <3>1 DEF Atomic!Keyed
  <2>4. Atomic!KeyGen(c, sp[c][1], sp[c][2])
    BY <2>1, <2>2, <2>3 DEF Atomic!KeyGen
  <2> QED
    BY <2>2, <2>4 DEF Atomic!Next
<1>4. CASE UNCHANGED vars
  BY <1>4 DEF vars
<1> QED
  BY <1>1, <1>2, <1>3, <1>4 DEF Next

\* For every set of callers, channel capacity and number of primes, the
\* pool with its interleaved receives and put-backs implements the spec's
\* atomic keygen: every key GenerateKeyPair returns is one per caller and
\* built from two different primes the producer had already made.
THEOREM Refinement == Spec => AtomicKeygen
<1>1. Init => RInv
  BY RInvInit
<1>2. RInv /\ [Next]_vars => RInv'
  BY RInvStep
<1>3. Init => Atomic!Init
  BY RefInit
<1>4. RInv /\ [Next]_vars => [Atomic!Next]_<<made, keys>>
  BY RefStep
<1> QED
  BY <1>1, <1>2, <1>3, <1>4, PTL DEF Spec, AtomicKeygen, Atomic!Spec

=============================================================================

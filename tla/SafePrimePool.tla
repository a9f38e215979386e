---------------------------- MODULE SafePrimePool ----------------------------
(***************************************************************************)
(* The safe-prime pool SafePrimeCh and its consumer GenerateKeyPair of    *)
(* smpc-lib/crypto/ec2/paillier.go.  GenerateKeyPair receives two primes  *)
(* from the channel, returns early if one is nil, sends both back and     *)
(* builds N = p * q from them.  The producer that fills the channel with  *)
(* freshly generated safe primes is not in this repository: it is modelled *)
(* after the spec as a goroutine that sends prime after prime, blocking   *)
(* while the channel (capacity Cap) is full.  Primes are numbered in the  *)
(* order they are generated; the producer makes MaxPrimes of them.  Each  *)
(* caller (a keygen or reshare session of the node) generates one key.     *)
(***************************************************************************)
EXTENDS Naturals, Sequences, FiniteSets

CONSTANTS
    Caller,      \* goroutines calling GenerateKeyPair
    Cap,         \* capacity of SafePrimeCh
    MaxPrimes    \* primes the producer generates

ASSUME PoolAssumption ==
    /\ IsFiniteSet(Caller)
    /\ Cap \in Nat \ {0}
    /\ MaxPrimes \in Nat

Prime == 1..MaxPrimes
NoPrime == 0

VARIABLES
    pool,    \* the primes buffered in SafePrimeCh, oldest first
    made,    \* primes generated so far
    pc,      \* pc[c]: the next statement of c's GenerateKeyPair
    sp,      \* sp[c]: <<p, q>> received so far (NoPrime where not yet)
    keys     \* <<c, p, q>> for every key returned

vars == <<pool, made, pc, sp, keys>>

TypeOK ==
    /\ pool \in Seq(Prime) /\ Len(pool) <= Cap
    /\ made \in 0..MaxPrimes
    /\ pc \in [Caller -> {"take1", "take2", "put1", "put2", "done"}]
    /\ sp \in [Caller -> (Prime \cup {NoPrime}) \X (Prime \cup {NoPrime})]
    /\ keys \subseteq Caller \X Prime \X Prime

Init ==
    /\ pool = <<>>
    /\ made = 0
    /\ pc = [c \in Caller |-> "take1"]
    /\ sp = [c \in Caller |-> <<NoPrime, NoPrime>>]
    /\ keys = {}

\* The producer sends the next safe prime; the send blocks while full.
Produce ==
    /\ made < MaxPrimes
    /\ Len(pool) < Cap
    /\ pool' = Append(pool, made + 1)
    /\ made' = made + 1
    /\ UNCHANGED <<pc, sp, keys>>

\* sp1 := <-SafePrimeCh
Take1(c) ==
    /\ pc[c] = "take1"
    /\ pool # <<>>
    /\ sp' = [sp EXCEPT ![c][1] = Head(pool)]
    /\ pool' = Tail(pool)
    /\ pc' = [pc EXCEPT ![c] = "take2"]
    /\ UNCHANGED <<made, keys>>

\* sp2 := <-SafePrimeCh; neither prime is nil.
Take2(c) ==
    /\ pc[c] = "take2"
    /\ pool # <<>>
    /\ sp' = [sp EXCEPT ![c][2] = Head(pool)]
    /\ pool' = Tail(pool)
    /\ pc' = [pc EXCEPT ![c] = "put1"]
    /\ UNCHANGED <<made, keys>>

\* SafePrimeCh <- sp1
Put1(c) ==
    /\ pc[c] = "put1"
    /\ Len(pool) < Cap
    /\ pool' = Append(pool, sp[c][1])
    /\ pc' = [pc EXCEPT ![c] = "put2"]
    /\ UNCHANGED <<made, sp, keys>>

\* Mutant: sp1 sent back in place of sp2.
Put2_Sp1Twice(c) ==
    /\ pc[c] = "put2"
    /\ Len(pool) < Cap
    /\ pool' = Append(pool, sp[c][1])
    /\ pc' = [pc EXCEPT ![c] = "done"]
    /\ keys' = keys \cup {<<c, sp[c][1], sp[c][2]>>}
    /\ UNCHANGED <<made, sp>>

\* SafePrimeCh <- sp2, then n = p * q and the rest of the key.
Put2(c) ==
    /\ pc[c] = "put2"
    /\ Len(pool) < Cap
    /\ pool' = Append(pool, sp[c][2])
    /\ pc' = [pc EXCEPT ![c] = "done"]
    /\ keys' = keys \cup {<<c, sp[c][1], sp[c][2]>>}
    /\ UNCHANGED <<made, sp>>

Next ==
    \/ Produce
    \/ \E c \in Caller : Take1(c) \/ Take2(c) \/ Put1(c) \/ Put2(c)

\* Goroutines blocked on a channel run once it is ready.
Fairness ==
    /\ WF_vars(Produce)
    /\ \A c \in Caller :
         WF_vars(Take1(c)) /\ WF_vars(Take2(c)) /\ WF_vars(Put1(c)) /\ WF_vars(Put2(c))

Spec == Init /\ [][Next]_vars /\ Fairness

-----------------------------------------------------------------------------
(* Properties.                                                             *)

\* N is a product of two distinct safe primes: no key is built from one
\* prime twice, however the callers' receives and sends interleave.
DistinctFactors == \A k \in keys : k[2] # k[3]

\* The pool as the spec describes it: GenerateKeyPair is one atomic draw of
\* two distinct primes produced so far; the channel, the receives and the
\* sends are hidden.
Atomic == INSTANCE KeyPairAtomic WITH made <- made, keys <- keys

\* However the callers' receives and sends interleave with each other and
\* with the producer, the keys GenerateKeyPair returns are those of the
\* atomic keygen: one per caller, of two different primes already produced.
AtomicKeygen == Atomic!Spec

\* The spec (4.1): keygen blocks only until two primes are available, so
\* every GenerateKeyPair call returns, its put-back of the two primes
\* included, and the callers never all wait on each other or on the pool.
KeygenCompletes == <>(\A c \in Caller : pc[c] = "done")

====

---------------------------- MODULE KeyPairAtomic ----------------------------
(***************************************************************************)
(* What Paillier key generation promises (spec section 4.1): safe primes   *)
(* come from a lazy pool that only grows, keygen blocks until two primes   *)
(* are available, and N is the product of two different ones.  Each call  *)
(* is one atomic step that draws two distinct primes generated so far and *)
(* returns a key; the pool is shared, so later calls may draw them again.  *)
(***************************************************************************)
EXTENDS Naturals

CONSTANTS
    Caller,      \* the sessions that generate a key pair
    MaxPrimes    \* how many primes the pool ever produces

VARIABLES
    made,        \* the pool holds the primes 1..made
    keys         \* <<c, p, q>>: caller c returned the key N = p * q

\* The callers that have returned a key.
Keyed == {k[1] : k \in keys}

Init == made = 0 /\ keys = {}

\* The pool produces the next safe prime.
Generate ==
    /\ made < MaxPrimes
    /\ made' = made + 1
    /\ UNCHANGED keys

\* GenerateKeyPair of caller c as one step: two different primes of the pool.
KeyGen(c, p, q) ==
    /\ c \notin Keyed
    /\ p # q
    /\ keys' = keys \cup {<<c, p, q>>}
    /\ UNCHANGED made

Next ==
    \/ Generate
    \/ \E c \in Caller, p, q \in 1..made : KeyGen(c, p, q)

Spec == Init /\ [][Next]_<<made, keys>>

=============================================================================

------------------------------ MODULE Paillier ------------------------------
(***************************************************************************)
(* The Paillier scheme of smpc-lib/crypto/ec2/paillier.go on small safe   *)
(* primes: key construction (GenerateKeyPair, CreatPair), Encrypt,         *)
(* Decrypt, HomoAdd, HomoMul and the factorisation proof ZkFactProve /    *)
(* ZkFactVerify.  big.Int arithmetic is integer arithmetic: Exp is        *)
(* PowMod, Div is floor division (Euclidean for a positive divisor), Mod  *)
(* is %.  The state is one ciphertext that the MtA code builds by         *)
(* encrypting, adding encryptions and multiplying by scalars, together     *)
(* with the plaintext it must decrypt to, computed the reference way, in  *)
(* Z_N.  SHA3-256 of the two commitments is modelled as an injective       *)
(* function of them.                                                       *)
(***************************************************************************)
EXTENDS Naturals, Integers

CONSTANTS
    Primes,      \* the safe primes the pool hands out
    Rands,       \* values GetRandomIntFromZnStar / FromZn may return
    Scalars,     \* the k of HomoMul
    MaxOps       \* bound on the operations applied to the ciphertext

ASSUME PrimesAssumption == Primes \subseteq Nat \ {0, 1} /\ Primes # {}
ASSUME RandsAssumption == Rands \subseteq Nat \ {0}
ASSUME ScalarsAssumption == Scalars \subseteq Nat
ASSUME MaxOpsAssumption == MaxOps \in Nat

Nil == -1

\* Exponents stay below 2^ExpBits on the keys of this module.
ExpBits == 24

\* big.Int Exp(b, e, m) for 0 <= e < 2^ExpBits, m > 0: square and multiply
\* from the top bit down; f[i] is b^(e \div 2^i) mod m.
PowMod(b, e, m) ==
    LET f[i \in 0..ExpBits] ==
          IF i = ExpBits THEN 1 % m
          ELSE LET h == f[i + 1]
                   sq == (h * h) % m
               IN  IF (e \div 2^i) % 2 = 1 THEN (sq * (b % m)) % m ELSE sq
    IN  f[0]

\* big.Int ModInverse(a, n): nil when gcd(a, n) # 1.
ModInverse(a, n) ==
    LET inv == {u \in 1..n-1 : (a * u) % n = 1}
    IN  IF inv = {} THEN Nil ELSE CHOOSE u \in inv : TRUE

\* n, n2, g, l, u of GenerateKeyPair / CreatPair for the primes p and q.
KeyOf(p, q) ==
    [N  |-> p * q,
     G  |-> p * q + 1,
     N2 |-> (p * q) * (p * q),
     L  |-> (p - 1) * (q - 1),
     U  |-> ModInverse((p - 1) * (q - 1), p * q)]

Keys == {KeyOf(p, q) : p, q \in Primes}
\* Keys of two distinct primes, as SafePrimePool hands them out.
PoolKeys == {KeyOf(pq[1], pq[2]) : pq \in {x \in Primes \X Primes : x[1] # x[2]}}

\* The plaintexts offered to Encrypt: Z_N and the two values above it.
Msgs(k) == 0..(k.N + 1)

\* Encrypt's guard: only m > N returns ErrMessageTooLong.
EncryptAccepts(k, m) == ~(m > k.N)

\* Mutant: G^m * R^N left unreduced.
Encrypt_NoMod(k, m, r) == PowMod(k.G, m, k.N2) * PowMod(r, k.N, k.N2)

\* cipher = G^m * R^N mod N2.
Encrypt(k, m, r) == (PowMod(k.G, m, k.N2) * PowMod(r, k.N, k.N2)) % k.N2

\* Mutant: the last reduction taken mod N2 instead of N.
Decrypt_ModN2(k, c) == (((PowMod(c, k.L, k.N2) - 1) \div k.N) * k.U) % k.N2

\* m = ((c^L mod N2) - 1) / N * U mod N.
Decrypt(k, c) == (((PowMod(c, k.L, k.N2) - 1) \div k.N) * k.U) % k.N

\* Mutant: the product reduced mod N instead of N2.
HomoAdd_ModN(k, c1, c2) == (c1 * c2) % k.N

\* c1 * c2 mod N2.
HomoAdd(k, c1, c2) == (c1 * c2) % k.N2

\* cipher^k mod N2.
HomoMul(k, c, s) == PowMod(c, s, k.N2)

\* The SHA3-256 digest of h1^r and h2^r, as an injective function of them.
Hash(k, a, b) == a * k.N + b

\* ZkFactProve: Y = (N + L) * e + r with e the digest of h1^r, h2^r mod N.
ZkFactProve(k, h1, h2, r) ==
    LET e == Hash(k, PowMod(h1, r, k.N), PowMod(h2, r, k.N))
    IN  [H1 |-> h1, H2 |-> h2, Y |-> (k.N + k.L) * e + r, E |-> e, N |-> k.N]

\* Mutant: the second commitment hashed as the first one.
ZkFactVerify_SameHash(k, pf) ==
    LET x == pf.Y - k.N * pf.E
    IN  Hash(k, PowMod(pf.H1, x, k.N), PowMod(pf.H1, x, k.N)) = pf.E

\* ZkFactVerify: recompute the digest from h1^(Y - N e), h2^(Y - N e).
ZkFactVerify(k, pf) ==
    LET x == pf.Y - k.N * pf.E
    IN  Hash(k, PowMod(pf.H1, x, k.N), PowMod(pf.H2, x, k.N)) = pf.E

\* Members of Rands in Z_N^*.
Units(k) == {r \in Rands : r < k.N /\ ModInverse(r, k.N) # Nil}

-----------------------------------------------------------------------------
VARIABLES
    key,      \* the key pair in use
    cipher,   \* the ciphertext built so far, or Nil
    plain,    \* what cipher must decrypt to, computed in Z_N
    proofOk,  \* the verdict of ZkFactVerify on the last proof
    ops       \* operations applied so far

vars == <<key, cipher, plain, proofOk, ops>>

TypeOK ==
    /\ key \in Keys
    /\ cipher \in (0..key.N2 - 1) \cup {Nil}
    /\ plain \in 0..key.N - 1
    /\ proofOk \in {"none", "accepted", "rejected"}
    /\ ops \in 0..MaxOps

\* A key of two distinct pool primes (SafePrimePool) whose L is invertible
\* mod N, so that Decrypt does not dereference a nil U.
Init ==
    /\ key \in {k \in PoolKeys : k.U # Nil}
    /\ cipher = Nil
    /\ plain = 0
    /\ proofOk = "none"
    /\ ops = 0

\* Encrypt(m) with randomness r, starting a new ciphertext; m > N returns
\* ErrMessageTooLong and changes nothing.
EncryptMsg(m, r) ==
    /\ ops < MaxOps
    /\ EncryptAccepts(key, m)
    /\ cipher' = Encrypt(key, m, r)
    /\ plain' = m % key.N
    /\ ops' = ops + 1
    /\ UNCHANGED <<key, proofOk>>

\* HomoAdd(cipher, Encrypt(m)): the MtA step that adds a masked value.
AddMsg(m, r) ==
    /\ ops < MaxOps
    /\ cipher # Nil
    /\ EncryptAccepts(key, m)
    /\ cipher' = HomoAdd(key, cipher, Encrypt(key, m, r))
    /\ plain' = (plain + m) % key.N
    /\ ops' = ops + 1
    /\ UNCHANGED <<key, proofOk>>

\* HomoMul(cipher, k): the MtA step that multiplies by a secret scalar.
MulScalar(s) ==
    /\ ops < MaxOps
    /\ cipher # Nil
    /\ cipher' = HomoMul(key, cipher, s)
    /\ plain' = (plain * s) % key.N
    /\ ops' = ops + 1
    /\ UNCHANGED <<key, proofOk>>

\* A party proves knowledge of the factorisation and a peer verifies it.
ProveFact(h1, h2, r) ==
    /\ ops < MaxOps
    /\ proofOk' = IF ZkFactVerify(key, ZkFactProve(key, h1, h2, r))
                   THEN "accepted" ELSE "rejected"
    /\ ops' = ops + 1
    /\ UNCHANGED <<key, cipher, plain>>

Next ==
    \/ \E m \in Msgs(key), r \in Units(key) : EncryptMsg(m, r) \/ AddMsg(m, r)
    \/ \E s \in Scalars : MulScalar(s)
    \/ \E h1, h2 \in Units(key), r \in Rands : ProveFact(h1, h2, r)

Spec == Init /\ [][Next]_vars

-----------------------------------------------------------------------------
(* Properties.                                                             *)

\* Claims 3-5 of the scheme: whatever sequence of Encrypt, HomoAdd and
\* HomoMul built the ciphertext, Decrypt returns the plaintext computed in
\* Z_N.
DecryptCorrect == cipher # Nil => Decrypt(key, cipher) = plain

\* An honest factorisation proof made by ZkFactProve is accepted by
\* ZkFactVerify.
ProofComplete == proofOk # "rejected"

====

\* Encrypt, HomoAdd, HomoMul and the factorisation proof on N = 7 * 11.
CONSTANTS
    Primes = {7, 11}
    Rands = {2, 3}
    Scalars = {0, 2, 76}
    MaxOps = 3
SPECIFICATION Spec
INVARIANT TypeOK
INVARIANT DecryptCorrect
INVARIANT ProofComplete
CHECK_DEADLOCK FALSE

----------------------------- MODULE MCPaillier -----------------------------
(* Paillier on the safe primes 7 and 11 (N = 77, N2 = 5929).               *)
EXTENDS Paillier
====

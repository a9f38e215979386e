---------------------------- MODULE MCSafePrimePool ----------------------------
(* Up to three concurrent GenerateKeyPair calls.                           *)
EXTENDS SafePrimePool
CONSTANTS c1, c2, c3
MCCaller == {c1, c2, c3}
====

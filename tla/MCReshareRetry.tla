---------------------------- MODULE MCReshareRetry ----------------------------
(* One request under one session id.                                       *)
EXTENDS ReshareRetry
CONSTANTS w1
====

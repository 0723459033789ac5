--------------------------- MODULE MCRespChannels ---------------------------
(* Small instances of RespChannels for TLC. *)
EXTENDS RespChannels, TLC

CONSTANTS s1, s2, s3, c1, c2, c3

\* One query of each kind: between them they take every step.
OneOfEach == s1 :> "account" @@ s2 :> "block" @@ s3 :> "latest"
AccountAndBlock == s1 :> "account" @@ s2 :> "block"

ChanSymmetry == Permutations(Chans)
=============================================================================

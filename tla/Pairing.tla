------------------------------ MODULE Pairing ------------------------------
(***************************************************************************)
(* How the transactions the proxy has decoded get the number of their      *)
(* extrinsic in the block, at the end of blockAndTx (indexer/getBlock.go)  *)
(* and of getTransaction in the data migration.                            *)
(*                                                                         *)
(* A block is a sequence of extrinsics.  The proxy answers with a listing  *)
(* of their positions, in which one may come again; the hash of an         *)
(* extrinsic stands for its position.  The program's own decoder knows the *)
(* hash of signed extrinsics only, and `seen' is the module it has read    *)
(* for each.                                                               *)
(***************************************************************************)
EXTENDS Naturals, Sequences

CONSTANTS NoID,     \* a transaction whose events have been given no ID
          Zero      \* a transaction that has not been filled in at all

\* TransactionsMapper passes over a hash it has had before.
Unique(listing) ==
  LET new(k) == \A j \in 1..(k - 1) : listing[j] # listing[k]
      upTo[k \in 0..Len(listing)] ==
        IF k = 0 THEN <<>>
        ELSE IF new(k) THEN Append(upTo[k - 1], listing[k]) ELSE upTo[k - 1]
  IN  upTo[Len(listing)]

SameHash(raw, p) == {i \in DOMAIN raw : raw[i].signed /\ i = p}

\* Mutant of HasCandidate: off by one.
HasCandidateButLast(raw, k) == k < Len(raw)

\* The extrinsic at the index of the transaction itself, if there are so many.
HasCandidate(raw, k) == k <= Len(raw)

\* The k-th transaction is the extrinsic p of the block; raw was read of it.
IDOf(block, raw, seen, p, k) ==
  CASE SameHash(raw, p) # {}                          -> p
    [] SameHash(raw, p) = {} /\ HasCandidate(raw, k)  ->
         IF seen[k] = block[p].module THEN k ELSE NoID
    [] OTHER                                          -> Zero

Paired(block, raw, seen, listing) ==
  [k \in DOMAIN Unique(listing) |-> IDOf(block, raw, seen, Unique(listing)[k], k)]
=============================================================================

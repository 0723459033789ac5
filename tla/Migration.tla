----------------------------- MODULE Migration -----------------------------
(***************************************************************************)
(* The data migration 0001-migration-ext-id, which gives the stored        *)
(* transactions of a range of heights the number of their extrinsic.       *)
(* It goes through the heights one by one, updates rows one by one, and    *)
(* stops at the first error; it keeps no record of how far it came, and is *)
(* run again by hand.  A height has a row for every extrinsic, or none.    *)
(*                                                                         *)
(* The runtime version is that in the state of the block itself, but the   *)
(* metadata stored for it is that of its grandparent, or of the parent     *)
(* that GetBlockHashes may take for it.                                    *)
(***************************************************************************)
EXTENDS Pairing, FiniteSets

CONSTANTS From, To,   \* the range of heights
          SpecOf,     \* the runtime version in the state of a block
          Block,      \* the extrinsics of a block: whether signed, which module
          Stored,     \* heights that have rows
          Modules,    \* names of modules
          MaxFailures,\* bound: how often a node or the database fails
          None,       \* no decoder
          Old         \* the events of a row before the migration

Heights  == From..To
Versions == {SpecOf[h] : h \in DOMAIN SpecOf}

ASSUME RangeAssumption == From \in Nat \ {0} /\ To \in Nat /\ From <= To
ASSUME SpecAssumption == 0..To \subseteq DOMAIN SpecOf /\ None \notin Versions
ASSUME RowsAssumption ==
  Stored \subseteq Heights
    /\ \A h \in Stored : Block[h] \in Seq([signed : BOOLEAN, module : Modules]) \ {<<>>}
ASSUME NoNumberAssumption == NoID \notin Nat /\ Zero \notin Nat
ASSUME BoundAssumption == MaxFailures \in Nat

VARIABLES rows,      \* the table: the number each extrinsic's row has been given
          at,        \* where the program is
          height,    \* i of getTransactions
          txs,       \* initTxs, the positions of the rows' extrinsics
          waiting,   \* answers waited for
          read,      \* whether block has been filled in
          decoders,  \* DecodeStorage.decoders
          decoder,   \* meta
          ids,       \* the numbers found for txs
          done,      \* how many of txs have been updated
          fatal,     \* the run ended with "fatal error on height"
          reported,  \* heights logged as updated, by this run or an earlier one
          failures   \* failures so far

vars == <<rows, at, height, txs, waiting, read, decoders, decoder, ids, done, fatal, reported, failures>>

Places == {"select", "single", "ask", "answers", "metadata", "pair", "update", "report", "exited", "finished"}

TypeOK ==
  /\ \A h \in Stored : rows[h] \in [DOMAIN Block[h] -> Nat \cup {Old}]
  /\ at \in Places /\ height \in Heights
  /\ \A k \in DOMAIN txs : txs[k] \in DOMAIN Block[height]
  /\ waiting \subseteq {"version", "block"} /\ read \in BOOLEAN
  /\ decoders \in [Versions -> Versions \cup {None}] /\ decoder \in Versions \cup {None}
  /\ done \in 0..Len(txs) /\ fatal \in BOOLEAN
  /\ reported \subseteq Heights /\ failures \in 0..MaxFailures

Unasked == [v \in Versions |-> None]

Init == /\ rows = [h \in Stored |-> [p \in DOMAIN Block[h] |-> Old]]
        /\ at = "select" /\ height = From
        /\ txs = <<>> /\ waiting = {} /\ read = FALSE
        /\ decoders = Unasked /\ decoder = None
        /\ ids = <<>> /\ done = 0
        /\ fatal = FALSE /\ reported = {} /\ failures = 0

-----------------------------------------------------------------------------
Orders(S) == {o \in [1..Cardinality(S) -> S] : \A j, k \in DOMAIN o : o[j] = o[k] => j = k}

\* Mutant of Sorted: rows stay as the database returns them.
SortedNot(o) == o

\* Rows are sorted by the index of their first event.
Sorted(o) == [k \in DOMAIN o |-> CHOOSE p \in {o[j] : j \in DOMAIN o} :
                                   Cardinality({j \in DOMAIN o : o[j] < p}) = k - 1]

\* Mutant of WithoutRows: a height without rows is an error.
WithoutRowsFails == "exited"

\* Such a height is reported as updated.
WithoutRows == "report"

Select ==
  /\ at = "select"
  /\ IF height \notin Stored
       THEN at' = WithoutRows /\ UNCHANGED txs
       ELSE \E o \in Orders(DOMAIN Block[height]) :
              /\ txs' = Sorted(o)
              /\ at' = IF Len(o) = 1 THEN "single" ELSE "ask"
  /\ UNCHANGED <<rows, height, waiting, read, decoders, decoder, ids, done, fatal, reported, failures>>

Write(p, id) == rows' = [rows EXCEPT ![height][p] = id]

\* The only row of a height is called the first before anything is asked, and
\* then goes the way of the others.
UpdateSingle ==
  /\ at = "single" /\ at' = "ask"
  /\ Write(txs[1], 1)
  /\ UNCHANGED <<height, txs, waiting, read, decoders, decoder, ids, done, fatal, reported, failures>>

Ask ==
  /\ at = "ask" /\ at' = "answers"
  /\ waiting' = {"version", "block"} /\ read' = FALSE
  /\ UNCHANGED <<rows, height, txs, decoders, decoder, ids, done, fatal, reported, failures>>

\* A node that does not know the block answers null, which counts as a failure.
Answer(f) ==
  /\ at = "answers" /\ f \in waiting
  /\ waiting' = waiting \ {f}
  /\ at' = IF waiting = {f} THEN "metadata" ELSE "answers"
  /\ \/ read' = (read \/ f = "block") /\ UNCHANGED failures
     \/ /\ f = "block" /\ failures < MaxFailures
        /\ failures' = failures + 1 /\ UNCHANGED read
  /\ UNCHANGED <<rows, height, txs, decoders, decoder, ids, done, fatal, reported>>

\* GetMetadata: what has been stored for the version, or else the metadata of
\* the block at base.
Metadata ==
  /\ at = "metadata" /\ at' = "pair"
  /\ LET v == SpecOf[height]
     IN  \E base \in (0..To) \cap {height - 1, height - 2} :
           /\ decoder' = IF decoders[v] = None THEN SpecOf[base] ELSE decoders[v]
           /\ decoders' = [decoders EXCEPT ![v] = decoder']
  /\ UNCHANGED <<rows, height, txs, waiting, read, ids, done, fatal, reported, failures>>

Executing == SpecOf[height - 1]
Raw == IF read THEN Block[height] ELSE <<>>

\* The extrinsics are decoded as of the version of the block's own state.
Understood == decoder = Executing /\ SpecOf[height] = Executing

Seen == IF Understood THEN {[k \in DOMAIN Raw |-> Raw[k].module]} ELSE [DOMAIN Raw -> Modules]
Found(seen) == [k \in DOMAIN txs |-> IDOf(Block[height], Raw, seen, txs[k], k)]

\* The first row that is not found ends the run before any is updated.
Pair ==
  /\ at = "pair"
  /\ \E seen \in Seen :
       LET found == Found(seen)
       IN  IF \E k \in DOMAIN found : found[k] \in {NoID, Zero}
             THEN at' = "exited" /\ fatal' = TRUE /\ UNCHANGED ids
             ELSE at' = "update" /\ ids' = found /\ UNCHANGED fatal
  /\ UNCHANGED <<rows, height, txs, waiting, read, decoders, decoder, done, reported, failures>>

\* Metadata or a version of another runtime than the block's may fail to decode it.
Undecodable ==
  /\ at = "pair" /\ read /\ ~Understood
  /\ at' = "exited"
  /\ UNCHANGED <<rows, height, txs, waiting, read, decoders, decoder, ids, done, fatal, reported, failures>>

Update ==
  /\ at = "update"
  /\ Write(txs[done + 1], ids[done + 1])
  /\ done' = done + 1
  /\ at' = IF done' = Len(txs) THEN "report" ELSE "update"
  /\ UNCHANGED <<height, txs, waiting, read, decoders, decoder, ids, fatal, reported, failures>>

\* Mutant of IsLast: one height too many.
IsLastTooLate == height = To + 1

IsLast == height = To

Report ==
  /\ at = "report"
  /\ reported' = reported \cup {height}
  /\ IF IsLast THEN at' = "finished" /\ UNCHANGED height
               ELSE at' = "select" /\ height' = height + 1
  /\ txs' = <<>> /\ decoder' = None /\ ids' = <<>> /\ done' = 0
  /\ UNCHANGED <<rows, waiting, read, decoders, fatal, failures>>

\* The database or a node fails or does not answer in time, or a version is
\* null; an update may have had its effect.
Fails ==
  /\ at \in {"select", "single", "ask", "answers", "metadata", "update"}
  /\ failures < MaxFailures /\ failures' = failures + 1
  /\ at' = "exited"
  /\ \/ UNCHANGED rows
     \/ at = "single" /\ Write(txs[1], 1)
     \/ at = "update" /\ Write(txs[done + 1], ids[done + 1])
  /\ UNCHANGED <<height, txs, waiting, read, decoders, decoder, ids, done, fatal, reported>>

\* The operator runs it again, from the start or from where it stopped.
Rerun ==
  /\ at = "exited" /\ at' = "select"
  /\ height' \in {From, height}
  /\ txs' = <<>> /\ waiting' = {} /\ read' = FALSE
  /\ decoders' = Unasked /\ decoder' = None
  /\ ids' = <<>> /\ done' = 0 /\ fatal' = FALSE
  /\ UNCHANGED <<rows, reported, failures>>

Next == \/ Select \/ UpdateSingle \/ Ask \/ Metadata \/ Pair \/ Undecodable
        \/ Update \/ Report \/ Fails \/ Rerun
        \/ \E f \in {"version", "block"} : Answer(f)

Spec == Init /\ [][Next]_vars

\* The operator does run it again.
FairSpec == Spec /\ WF_vars(Next)

-----------------------------------------------------------------------------
(* Properties                                                              *)

\* Whatever fails, in whatever order runs stop and start over, a row has the
\* number of its own extrinsic or is as it was, and a height that is logged
\* as updated has no row of the latter kind (getTransaction's updates).
RowsRight ==
  \A h \in Stored : \A p \in DOMAIN rows[h] :
    rows[h][p] = p \/ (rows[h][p] = Old /\ h \notin reported)

\* "fatal error on height" is the end of a run only if the node did not know
\* the block, or the metadata or version was of another runtime than the block's.
FatalHasCause == fatal => ~read \/ ~Understood

\* When failures end, the migration finishes, unless it stops again and again
\* at a height for which it has another runtime's metadata or version.
RerunCompletes == <>(at = "finished") \/ []<>(at = "exited" /\ decoder # None /\ ~Understood)
=============================================================================

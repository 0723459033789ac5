---------------------------- MODULE MCMigration ----------------------------
(* Instances of Migration for TLC. *)
EXTENDS Migration, TLC
CONSTANTS timestamp, balances

\* Block 4 is executed by a new runtime, which the state of block 3 has.
Upgrade == [h \in 0..5 |-> IF h < 3 THEN 1 ELSE 2]

Inherent == [signed |-> FALSE, module |-> timestamp]
Signed   == [signed |-> TRUE,  module |-> balances]
Blocks   == 2 :> <<Inherent>> @@ 3 :> <<>> @@ 4 :> <<Inherent, Signed, Inherent>> @@ 5 :> <<Inherent, Signed>>
=============================================================================

--------------------------- MODULE MCBlockBuild ----------------------------
(* Instances of BlockBuild for TLC. *)
EXTENDS BlockBuild, SequencesExt
CONSTANTS b1, b2, p1, timestamp, balances

Kinds == [q \in Queries |-> IF q = p1 THEN "balance" ELSE "block"]
Asked == [q \in Queries |-> IF q = b1 THEN {1, 3} ELSE {2}]

\* Block 3 is executed by a new runtime.
Upgrade == [h \in 0..3 |-> IF h < 2 THEN 1 ELSE 2]

Inherent == [signed |-> FALSE, module |-> timestamp]
Signed   == [signed |-> TRUE,  module |-> balances]
Blocks   == <<<<Inherent>>, <<>>, <<Inherent, Signed, Inherent>> >>
Listings == <<<<1>>, <<>>, <<1, 1, 2, 3, 2>> >>

\* Of block 1 events of up to two data, described in any way; of block 3 one.
Data   == {[name |-> "AccountId", value |-> "text"], [name |-> "Balance", value |-> "number"],
           [name |-> "Balance", value |-> "text"], [name |-> "Text", value |-> "text"],
           [name |-> "Text", value |-> ""]}
AnyOne == [method : {"endowed", "delegated", "transfer"},
           values : BoundedSeq(Cases, 2), data : BoundedSeq(Data, 2)]
Simple == [method |-> "transfer", values |-> <<>>, data |-> <<>>]
SomeEvents == <<AnyOne, {}, {Simple}>>
=============================================================================

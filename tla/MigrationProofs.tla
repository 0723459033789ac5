--------------------------- MODULE MigrationProofs ---------------------------
(***************************************************************************)
(* What is proved of Migration for any range of heights, any blocks, any   *)
(* history of runtime versions and any number of failures and reruns.      *)
(***************************************************************************)
EXTENDS Migration, FiniteSetTheorems, TLAPS

-----------------------------------------------------------------------------
(* The inductive invariant.                                                *)

\* The extrinsics of the present height; what the rows of it, sorted, are.
Size == Len(Block[height])
Identity == [k \in 1..Size |-> k]

\* The table has a row for every extrinsic of a stored height.
TableOK ==
  /\ DOMAIN rows = Stored
  /\ \A h \in Stored : rows[h] \in [1..Len(Block[h]) -> Nat \cup {Old}]

OtherTypes ==
  /\ at \in Places /\ height \in Heights
  /\ waiting \subseteq {"version", "block"} /\ read \in BOOLEAN
  /\ decoders \in [Versions -> Versions \cup {None}] /\ decoder \in Versions \cup {None}
  /\ fatal \in BOOLEAN
  /\ reported \subseteq Heights /\ failures \in 0..MaxFailures

\* Rows that have been selected are in the order of their extrinsics.
TxsOK ==
  \/ /\ height \in Stored /\ txs = Identity /\ done \in 0..Size
     /\ at \in {"single", "ask", "answers", "metadata", "pair"} => done = 0
     /\ at = "single" => Size = 1
     /\ at = "update" => done < Size
     /\ at # "select" /\ at # "finished"
  \/ /\ txs = <<>> /\ done = 0
     /\ at = "report" => height \notin Stored
     /\ at \in {"select", "report", "exited", "finished"}

\* Numbers have been found for all of them before the first is written.
NumbersOK == at = "update" => \A k \in 1..Size : ids[k] = k

\* The rows that have been written are right, and they are all written before
\* the height is reported.
Written ==
  /\ at = "update" => \A p \in 1..done : rows[height][p] = p
  /\ at = "report" /\ height \in Stored => \A p \in 1..Size : rows[height][p] = p

FatalOK == fatal => at = "exited" /\ (~read \/ ~Understood)

IInv == TableOK /\ OtherTypes /\ TxsOK /\ NumbersOK /\ Written /\ FatalOK /\ RowsRight

-----------------------------------------------------------------------------
(* In whatever order the database returns the rows, they are sorted.       *)

\* An ordering of 1..n contains each of them, once.
LEMMA OrderFacts ==
  ASSUME NEW n \in Nat, NEW o \in Orders(1..n)
  PROVE  /\ o \in [1..n -> 1..n]
         /\ {o[j] : j \in 1..n} = 1..n
         /\ \A j, k \in 1..n : o[j] = o[k] => j = k
<1>1. IsFiniteSet(1..n) /\ Cardinality(1..n) = n
  <2>1. IsFiniteSet(1..n) /\ Cardinality(1..n) = IF 1 > n THEN 0 ELSE n - 1 + 1
    BY FS_Interval
  <2> QED
    BY <2>1
<1>2. o \in [1..n -> 1..n] /\ \A j, k \in 1..n : o[j] = o[k] => j = k
  BY <1>1 DEF Orders
<1>3. o \in Injection(1..n, 1..n)
  BY <1>2 DEF Injection, IsInjective
<1>4. o \in Surjection(1..n, 1..n)
  BY <1>1, <1>3, FS_Injection
<1>5. \A p \in 1..n : \E j \in 1..n : o[j] = p
  BY <1>4 DEF Surjection
<1>6. {o[j] : j \in 1..n} = 1..n
  <2>1. {o[j] : j \in 1..n} \subseteq 1..n
    BY <1>2
  <2>2. ASSUME NEW p \in 1..n PROVE p \in {o[j] : j \in 1..n}
    BY <1>5
  <2> QED
    BY <2>1, <2>2
<1> QED
  BY <1>2, <1>6

\* As many of them are smaller than p as there are numbers smaller than p.
LEMMA Smaller ==
  ASSUME NEW n \in Nat, NEW o \in Orders(1..n), NEW p \in 1..n
  PROVE  Cardinality({j \in 1..n : o[j] < p}) = p - 1
<1> DEFINE S == {j \in 1..n : o[j] < p}
           f == [j \in S |-> o[j]]
<1>1. /\ o \in [1..n -> 1..n] /\ {o[j] : j \in 1..n} = 1..n
      /\ \A j, k \in 1..n : o[j] = o[k] => j = k
  BY OrderFacts
<1>2. IsFiniteSet(S)
  <2>1. IsFiniteSet(1..n)
    BY FS_Interval
  <2> QED
    BY <2>1, FS_Subset
<1>3. f \in Bijection(S, 1..(p - 1))
  <2>1. f \in [S -> 1..(p - 1)]
    <3>1. ASSUME NEW j \in S PROVE o[j] \in 1..(p - 1)
      <4>1. o[j] \in 1..n /\ o[j] < p
        BY <1>1
      <4> QED
        BY <4>1
    <3> QED
      BY <3>1
  <2>2. \A j, k \in S : f[j] = f[k] => j = k
    BY <1>1
  <2>3. ASSUME NEW q \in 1..(p - 1) PROVE \E j \in S : f[j] = q
    <3>1. q \in 1..n /\ q < p
      OBVIOUS
    <3>2. PICK j \in 1..n : o[j] = q
      BY <1>1, <3>1
    <3> QED
      BY <3>1, <3>2
  <2> QED
    BY <2>1, <2>2, <2>3 DEF Bijection, Injection, IsInjective, Surjection
<1>4. ExistsBijection(S, 1..(p - 1))
  BY <1>3 DEF ExistsBijection
<1>5. Cardinality(1..(p - 1)) = Cardinality(S)
  <2> HIDE DEF S
  <2> QED
    BY <1>2, <1>4, FS_Bijection
<1>6. Cardinality(1..(p - 1)) = IF 1 > p - 1 THEN 0 ELSE p - 1 - 1 + 1
  BY FS_Interval
<1> QED
  BY <1>5, <1>6

\* Sorting gives the positions in order.
LEMMA SortedRight ==
  ASSUME NEW n \in Nat, NEW o \in Orders(1..n)
  PROVE  Sorted(o) = [k \in 1..n |-> k]
<1>1. o \in [1..n -> 1..n] /\ {o[j] : j \in 1..n} = 1..n
  BY OrderFacts
<1>2. ASSUME NEW k \in 1..n
      PROVE  (CHOOSE p \in 1..n : Cardinality({j \in 1..n : o[j] < p}) = k - 1) = k
  <2>1. \A p \in 1..n : Cardinality({j \in 1..n : o[j] < p}) = k - 1 <=> p = k
    BY Smaller
  <2> QED
    BY <2>1
<1>3. Sorted(o) = [k \in 1..n |-> CHOOSE p \in 1..n : Cardinality({j \in 1..n : o[j] < p}) = k - 1]
  <2>1. DOMAIN o = 1..n
    BY <1>1
  <2>2. Sorted(o) = [k \in DOMAIN o |-> CHOOSE p \in {o[j] : j \in DOMAIN o} :
                                         Cardinality({j \in DOMAIN o : o[j] < p}) = k - 1]
    BY DEF Sorted
  <2>3. Sorted(o) = [k \in 1..n |-> CHOOSE p \in {o[j] : j \in 1..n} :
                                     Cardinality({j \in 1..n : o[j] < p}) = k - 1]
    BY <2>1, <2>2, Zenon
  <2> QED
    BY <1>1, <2>3, Zenon
<1> QED
  BY <1>2, <1>3

-----------------------------------------------------------------------------
(* Lemmas about the state.                                                 *)

\* A block with rows has extrinsics.
LEMMA BlockFacts ==
  ASSUME NEW h \in Stored
  PROVE  /\ Len(Block[h]) \in Nat /\ Len(Block[h]) >= 1
         /\ DOMAIN Block[h] = 1..Len(Block[h])
         /\ \A k \in 1..Len(Block[h]) : Block[h][k] \in [signed : BOOLEAN, module : Modules]
<1> DEFINE E == [signed : BOOLEAN, module : Modules]
           b == Block[h]
<1>1. b \in Seq(E) /\ b # <<>>
  BY RowsAssumption
<1> HIDE DEF E, b
<1>2. Len(b) \in Nat /\ Len(b) >= 1 /\ DOMAIN b = 1..Len(b) /\ \A k \in 1..Len(b) : b[k] \in E
  BY <1>1
<1> QED
  BY <1>2 DEF E, b

\* What is known while the rows of a height are being dealt with.
LEMMA Selected ==
  ASSUME IInv, at \in {"single", "ask", "answers", "metadata", "pair", "update"}
  PROVE  /\ height \in Stored /\ Size \in Nat /\ Size >= 1
         /\ txs = Identity /\ DOMAIN txs = 1..Size /\ Len(txs) = Size
         /\ \A k \in 1..Size : txs[k] = k
         /\ done \in 0..Size
<1>1. height \in Stored /\ txs = Identity /\ done \in 0..Size
  BY DEF IInv, TxsOK
<1>2. Size \in Nat /\ Size >= 1
  BY <1>1, BlockFacts DEF Size
<1>3. txs \in [1..Size -> Nat] /\ \A k \in 1..Size : txs[k] = k
  BY <1>1, <1>2 DEF Identity
<1>4. Len(txs) = Size
  BY <1>2, <1>3
<1> QED
  BY <1>1, <1>2, <1>3, <1>4

\* Writing the right number of a row.
LEMMA WriteRight ==
  ASSUME IInv, height \in Stored, NEW p \in 1..Size, Write(p, p)
  PROVE  /\ TableOK' /\ rows'[height][p] = p
         /\ \A q \in 1..Size : rows[height][q] = q => rows'[height][q] = q
         /\ reported' = reported => RowsRight'
<1>1. TableOK /\ RowsRight
  BY DEF IInv
<1>2. Size \in Nat /\ p \in Nat
  BY BlockFacts DEF Size
<1>3. /\ DOMAIN rows' = Stored
      /\ \A h \in Stored : h # height => rows'[h] = rows[h]
      /\ rows'[height] = [rows[height] EXCEPT ![p] = p]
  BY <1>1 DEF Write, TableOK
<1>4. rows[height] \in [1..Size -> Nat \cup {Old}]
  BY <1>1 DEF TableOK, Size
<1>5. /\ rows'[height] \in [1..Size -> Nat \cup {Old}] /\ rows'[height][p] = p
      /\ \A q \in 1..Size : q # p => rows'[height][q] = rows[height][q]
  BY <1>2, <1>3, <1>4
<1>6. TableOK'
  BY <1>1, <1>3, <1>5 DEF TableOK, Size
<1>7. ASSUME reported' = reported PROVE RowsRight'
  <2> SUFFICES ASSUME NEW h \in Stored, NEW q \in DOMAIN rows'[h]
               PROVE  rows'[h][q] = q \/ (rows'[h][q] = Old /\ h \notin reported)
    BY <1>7 DEF RowsRight
  <2>1. CASE h # height
    BY <1>1, <1>3, <2>1 DEF RowsRight
  <2>2. CASE h = height
    <3>1. q \in 1..Size /\ DOMAIN rows[height] = 1..Size
      BY <1>4, <1>5, <2>2
    <3>2. CASE q = p
      BY <1>5, <2>2, <3>2
    <3>3. CASE q # p
      BY <1>1, <1>5, <2>2, <3>1, <3>3 DEF RowsRight
    <3> QED
      BY <3>2, <3>3
  <2> QED
    BY <2>1, <2>2
<1> QED
  BY <1>5, <1>6, <1>7

\* Leaving the table alone.
LEMMA TableAlone ==
  ASSUME IInv, UNCHANGED <<rows, reported>>
  PROVE  TableOK' /\ RowsRight'
  BY DEF IInv, TableOK, RowsRight

\* What is found for a transaction is its own number or none; none only if the
\* block was not read, or not understood.
LEMMA FoundRight ==
  ASSUME IInv, at = "pair", NEW seen \in Seen, NEW k \in 1..Size
  PROVE  /\ DOMAIN Found(seen) = 1..Size
         /\ Found(seen)[k] \in {k, NoID, Zero}
         /\ read /\ Understood => Found(seen)[k] = k
<1>1. /\ height \in Stored /\ Size \in Nat
      /\ DOMAIN txs = 1..Size /\ txs[k] = k
  BY Selected
<1>2. /\ DOMAIN Found(seen) = 1..Size
      /\ Found(seen)[k] = IDOf(Block[height], Raw, seen, k, k)
  BY <1>1 DEF Found
<1>3. IDOf(Block[height], Raw, seen, k, k) \in {k, NoID, Zero}
  BY Zenon DEF IDOf
<1>4. ASSUME read, Understood PROVE IDOf(Block[height], Raw, seen, k, k) = k
  <2>1. Raw = Block[height] /\ seen = [j \in DOMAIN Raw |-> Raw[j].module]
    BY <1>4 DEF Raw, Seen
  <2>2. HasCandidate(Raw, k) /\ k \in DOMAIN Raw
    BY <1>1, <2>1, BlockFacts DEF HasCandidate, Size
  <2>3. seen[k] = Block[height][k].module
    BY <2>1, <2>2
  <2> QED
    BY <2>2, <2>3, Zenon DEF IDOf
<1> QED
  BY <1>2, <1>3, <1>4

-----------------------------------------------------------------------------
(* The steps.                                                              *)

\* A height without rows is passed over; else its rows come in order.
LEMMA SelectStep == ASSUME IInv, Select PROVE IInv'
<1>1. /\ at = "select" /\ txs = <<>> /\ done = 0 /\ height \in Heights
      /\ UNCHANGED <<rows, height, waiting, read, decoders, decoder, ids, done, fatal, reported, failures>>
  BY DEF IInv, TxsOK, OtherTypes, Select
<1>2. at' \in Places /\ at' # "update" /\ at' # "exited" /\ TxsOK' /\ (at' = "report" => height \notin Stored)
  <2>1. CASE height \notin Stored
    BY <1>1, <2>1 DEF Select, WithoutRows, Places, TxsOK
  <2>2. CASE height \in Stored
    <3>1. Size \in Nat /\ Size >= 1 /\ DOMAIN Block[height] = 1..Size
      BY <2>2, BlockFacts DEF Size
    <3>2. PICK o \in Orders(1..Size) :
            txs' = Sorted(o) /\ at' = IF Len(o) = 1 THEN "single" ELSE "ask"
      BY <2>2, <3>1 DEF Select
    <3>3. txs' = Identity'
      BY <1>1, <3>1, <3>2, SortedRight DEF Identity, Size
    <3>4. Len(o) = Size
      <4>1. o \in [1..Size -> 1..Size]
        BY <3>1, OrderFacts
      <4> QED
        BY <3>1, <4>1
    <3> QED
      BY <1>1, <2>2, <3>1, <3>2, <3>3, <3>4 DEF Places, TxsOK, Size
  <2> QED
    BY <2>1, <2>2
<1>3. ~fatal
  BY <1>1 DEF IInv, FatalOK
<1> QED
  BY <1>1, <1>2, <1>3, TableAlone DEF IInv, OtherTypes, NumbersOK, Written, FatalOK

\* The only row of a height.
LEMMA SingleStep == ASSUME IInv, UpdateSingle PROVE IInv'
<1>1. /\ at = "single" /\ at' = "ask" /\ Write(txs[1], 1)
      /\ UNCHANGED <<height, txs, waiting, read, decoders, decoder, ids, done, fatal, reported, failures>>
  BY DEF UpdateSingle
<1>2. height \in Stored /\ 1 \in 1..Size /\ txs[1] = 1
  BY <1>1, Selected
<1>3. TableOK' /\ RowsRight'
  BY <1>1, <1>2, WriteRight
<1>4. TxsOK'
  BY <1>1 DEF IInv, TxsOK, Identity, Size
<1> QED
  BY <1>1, <1>3, <1>4 DEF IInv, OtherTypes, Places, NumbersOK, Written, FatalOK

\* Asking, answers and metadata: neither the table nor the rows selected change.
LEMMA AskStep ==
  ASSUME IInv, Ask \/ Metadata \/ \E f \in {"version", "block"} : Answer(f)
  PROVE  IInv'
<1>1. /\ at \in {"ask", "answers", "metadata"} /\ at' \in {"answers", "metadata", "pair"}
      /\ UNCHANGED <<rows, height, txs, done, fatal, reported>>
  BY DEF Ask, Metadata, Answer
<1>2. OtherTypes'
  <2>1. OtherTypes
    BY DEF IInv
  <2>2. CASE Ask
    BY <2>1, <2>2 DEF Ask, OtherTypes, Places
  <2>3. CASE Metadata
    <3>1. SpecOf[height] \in Versions /\ \A base \in 0..To : SpecOf[base] \in Versions
      BY <2>1, RangeAssumption, SpecAssumption DEF Versions, OtherTypes, Heights
    <3>2. decoder' \in Versions \cup {None}
      BY <2>1, <2>3, <3>1 DEF Metadata, OtherTypes
    <3>3. decoders' = [decoders EXCEPT ![SpecOf[height]] = decoder']
      BY <2>3 DEF Metadata
    <3>4. decoders' \in [Versions -> Versions \cup {None}]
      BY <2>1, <3>1, <3>2, <3>3 DEF OtherTypes
    <3>5. UNCHANGED <<height, waiting, read, fatal, reported, failures>> /\ at' = "pair"
      BY <2>3 DEF Metadata
    <3> QED
      BY <2>1, <3>2, <3>4, <3>5 DEF OtherTypes, Places
  <2>4. ASSUME NEW f \in {"version", "block"}, Answer(f) PROVE OtherTypes'
    <3>1. failures' \in 0..MaxFailures
      BY <2>1, <2>4, BoundAssumption DEF Answer, OtherTypes
    <3>2. read' \in BOOLEAN
      BY <2>1, <2>4 DEF Answer, OtherTypes
    <3>3. waiting' \subseteq {"version", "block"}
      BY <2>1, <2>4 DEF Answer, OtherTypes
    <3>4. UNCHANGED <<height, decoders, decoder, fatal, reported>> /\ at' \in {"metadata", "answers"}
      BY <2>4 DEF Answer
    <3> QED
      BY <2>1, <3>1, <3>2, <3>3, <3>4 DEF OtherTypes, Places
  <2> QED
    BY <2>2, <2>3, <2>4
<1>3. TxsOK'
  BY <1>1 DEF IInv, TxsOK, Identity, Size
<1>4. ~fatal
  BY <1>1 DEF IInv, FatalOK
<1> QED
  BY <1>1, <1>2, <1>3, <1>4, TableAlone DEF IInv, NumbersOK, Written, FatalOK

\* All numbers are found before one is written, or the run ends.
LEMMA PairStep == ASSUME IInv, Pair \/ Undecodable PROVE IInv'
<1>1. /\ at = "pair" /\ at' \in {"update", "exited"}
      /\ UNCHANGED <<rows, height, txs, waiting, read, decoders, decoder, done, reported, failures>>
  BY DEF Pair, Undecodable
<1>2. /\ height \in Stored /\ Size \in Nat /\ Size >= 1 /\ DOMAIN txs = 1..Size /\ done = 0
  BY <1>1, Selected DEF IInv, TxsOK
<1>3. TxsOK'
  BY <1>1, <1>2 DEF IInv, TxsOK, Identity, Size
<1>4. fatal \in BOOLEAN /\ ~fatal
  BY <1>1 DEF IInv, FatalOK, OtherTypes
<1>5. fatal' \in BOOLEAN /\ NumbersOK' /\ FatalOK'
  <2>1. CASE Undecodable
    BY <1>4, <2>1 DEF Undecodable, NumbersOK, FatalOK
  <2>2. CASE Pair
    <3>1. PICK seen \in Seen :
            IF \E k \in DOMAIN Found(seen) : Found(seen)[k] \in {NoID, Zero}
              THEN at' = "exited" /\ fatal' = TRUE /\ UNCHANGED ids
              ELSE at' = "update" /\ ids' = Found(seen) /\ UNCHANGED fatal
      BY <2>2 DEF Pair
    <3>2. CASE \E k \in DOMAIN Found(seen) : Found(seen)[k] \in {NoID, Zero}
      <4>1. 1 \in 1..Size
        BY <1>2
      <4>2. DOMAIN Found(seen) = 1..Size
        BY <1>1, <4>1, FoundRight
      <4>3. PICK k \in 1..Size : Found(seen)[k] \in {NoID, Zero}
        BY <3>2, <4>2
      <4>4. Found(seen)[k] # k
        BY <4>3, <1>2, NoNumberAssumption
      <4>5. ~(read /\ Understood)
        BY <1>1, <4>4, FoundRight
      <4>6. Understood' <=> Understood
        BY <1>1 DEF Understood, Executing
      <4> QED
        BY <1>1, <3>1, <3>2, <4>5, <4>6 DEF NumbersOK, FatalOK
    <3>3. CASE ~\E k \in DOMAIN Found(seen) : Found(seen)[k] \in {NoID, Zero}
      <4>1. ASSUME NEW k \in 1..Size PROVE Found(seen)[k] = k
        BY <1>1, <3>3, FoundRight
      <4>2. at' = "update" /\ ids' = Found(seen) /\ fatal' = fatal
        BY <3>1, <3>3
      <4>3. NumbersOK'
        BY <1>1, <4>1, <4>2 DEF NumbersOK, Size
      <4> QED
        BY <1>4, <4>2, <4>3 DEF FatalOK
    <3> QED
      BY <3>2, <3>3
  <2> QED
    BY <2>1, <2>2
<1>6. Written'
  BY <1>1, <1>2 DEF Written
<1> QED
  BY <1>1, <1>3, <1>5, <1>6, TableAlone DEF IInv, OtherTypes, Places

\* One row more.
LEMMA UpdateStep == ASSUME IInv, Update PROVE IInv'
<1>1. /\ at = "update" /\ Write(txs[done + 1], ids[done + 1]) /\ done' = done + 1
      /\ at' = IF done' = Len(txs) THEN "report" ELSE "update"
      /\ UNCHANGED <<height, txs, waiting, read, decoders, decoder, ids, fatal, reported, failures>>
  BY DEF Update
<1>2. /\ height \in Stored /\ Size \in Nat /\ Len(txs) = Size /\ txs = Identity
      /\ \A k \in 1..Size : txs[k] = k /\ ids[k] = k
      /\ done \in Nat /\ done < Size
  BY <1>1, Selected DEF IInv, TxsOK, NumbersOK
<1>3. done + 1 \in 1..Size /\ txs[done + 1] = done + 1 /\ ids[done + 1] = done + 1
  BY <1>2
<1>4. /\ TableOK' /\ RowsRight' /\ rows'[height][done + 1] = done + 1
      /\ \A q \in 1..Size : rows[height][q] = q => rows'[height][q] = q
  BY <1>1, <1>2, <1>3, WriteRight
<1>5. \A p \in 1..(done + 1) : rows'[height][p] = p
  <2>1. \A p \in 1..done : rows[height][p] = p /\ p \in 1..Size
    BY <1>1, <1>2 DEF IInv, Written
  <2>2. \A p \in 1..(done + 1) : p \in 1..done \/ p = done + 1
    BY <1>2
  <2> QED
    BY <1>4, <2>1, <2>2
<1>6. Written'
  <2>1. at' = "report" => done + 1 = Size
    BY <1>1, <1>2
  <2> QED
    BY <1>1, <1>5, <2>1 DEF Written, Size
<1>7. TxsOK'
  <2>1. done + 1 \in 0..Size /\ (at' = "update" => done + 1 < Size) /\ at' \in {"report", "update"}
    BY <1>1, <1>2
  <2> QED
    BY <1>1, <1>2, <2>1 DEF TxsOK, Identity, Size
<1>8. NumbersOK'
  BY <1>1, <1>2 DEF NumbersOK, Size
<1>9. ~fatal
  BY <1>1 DEF IInv, FatalOK
<1> QED
  BY <1>1, <1>4, <1>6, <1>7, <1>8, <1>9 DEF IInv, OtherTypes, Places, FatalOK

\* The height is reported, and left.
LEMMA ReportStep == ASSUME IInv, Report PROVE IInv'
<1>1. /\ at = "report" /\ reported' = reported \cup {height}
      /\ txs' = <<>> /\ decoder' = None /\ done' = 0
      /\ UNCHANGED <<rows, waiting, read, decoders, fatal, failures>>
  BY DEF Report
<1>2. /\ at' \in {"finished", "select"} /\ height' \in Heights
  <2>1. height \in Nat /\ From <= height /\ height <= To /\ To \in Nat /\ From \in Nat
    BY RangeAssumption DEF IInv, OtherTypes, Heights
  <2>2. CASE height = To
    BY <2>1, <2>2 DEF Report, IsLast, Heights
  <2>3. CASE height # To
    BY <2>1, <2>3 DEF Report, IsLast, Heights
  <2> QED
    BY <2>2, <2>3
<1>3. RowsRight'
  <2> SUFFICES ASSUME NEW h \in Stored, NEW p \in DOMAIN rows[h]
               PROVE  rows[h][p] = p \/ (rows[h][p] = Old /\ h \notin reported \cup {height})
    BY <1>1 DEF RowsRight
  <2>1. CASE h = height
    <3>1. DOMAIN rows[h] = 1..Size
      BY <2>1 DEF IInv, TableOK, Size
    <3> QED
      BY <1>1, <2>1, <3>1 DEF IInv, Written
  <2>2. CASE h # height
    BY <2>2 DEF IInv, RowsRight
  <2> QED
    BY <2>1, <2>2
<1>4. ~fatal
  BY <1>1 DEF IInv, FatalOK
<1>5. OtherTypes'
  BY <1>1, <1>2 DEF IInv, OtherTypes, Places
<1>6. TableOK' /\ TxsOK' /\ NumbersOK' /\ Written'
  BY <1>1, <1>2 DEF IInv, TableOK, TxsOK, NumbersOK, Written
<1> QED
  BY <1>1, <1>3, <1>4, <1>5, <1>6 DEF IInv, FatalOK

\* Something fails; an update may have been made.
LEMMA FailsStep == ASSUME IInv, Fails PROVE IInv'
<1>1. /\ at \in {"select", "single", "ask", "answers", "metadata", "update"} /\ at' = "exited"
      /\ failures < MaxFailures /\ failures' = failures + 1
      /\ UNCHANGED <<height, txs, waiting, read, decoders, decoder, ids, done, fatal, reported>>
  BY DEF Fails
<1>2. TableOK' /\ RowsRight'
  <2>1. CASE UNCHANGED rows
    BY <1>1, <2>1, TableAlone
  <2>2. CASE at = "single" /\ Write(txs[1], 1)
    <3>1. height \in Stored /\ 1 \in 1..Size /\ txs[1] = 1
      BY <2>2, Selected
    <3> QED
      BY <1>1, <2>2, <3>1, WriteRight
  <2>3. CASE at = "update" /\ Write(txs[done + 1], ids[done + 1])
    <3>1. /\ height \in Stored /\ Size \in Nat /\ done \in Nat /\ done < Size
          /\ \A k \in 1..Size : txs[k] = k /\ ids[k] = k
      BY <2>3, Selected DEF IInv, TxsOK, NumbersOK
    <3>2. done + 1 \in 1..Size /\ txs[done + 1] = done + 1 /\ ids[done + 1] = done + 1
      BY <3>1
    <3> QED
      BY <1>1, <2>3, <3>1, <3>2, WriteRight
  <2> QED
    BY <2>1, <2>2, <2>3 DEF Fails
<1>3. failures' \in 0..MaxFailures
  BY <1>1, BoundAssumption DEF IInv, OtherTypes
<1>4. TxsOK'
  BY <1>1 DEF IInv, TxsOK, Identity, Size
<1>5. ~fatal
  BY <1>1 DEF IInv, FatalOK
<1> QED
  BY <1>1, <1>2, <1>3, <1>4, <1>5 DEF IInv, OtherTypes, Places, NumbersOK, Written, FatalOK

\* It is run again.
LEMMA RerunStep == ASSUME IInv, Rerun PROVE IInv'
<1>1. /\ at' = "select" /\ height' \in {From, height}
      /\ txs' = <<>> /\ waiting' = {} /\ read' = FALSE
      /\ decoders' = Unasked /\ decoder' = None /\ done' = 0 /\ fatal' = FALSE
      /\ UNCHANGED <<rows, reported, failures>>
  BY DEF Rerun
<1>2. height' \in Heights
  BY <1>1, RangeAssumption DEF IInv, OtherTypes, Heights
<1>3. decoders' \in [Versions -> Versions \cup {None}]
  BY <1>1 DEF Unasked
<1> QED
  BY <1>1, <1>2, <1>3, TableAlone
     DEF IInv, OtherTypes, Places, TxsOK, NumbersOK, Written, FatalOK

LEMMA InvInit == Init => IInv
<1> SUFFICES ASSUME Init PROVE IInv
  OBVIOUS
<1>1. TableOK /\ RowsRight
  <2>1. /\ DOMAIN rows = Stored /\ reported = {}
        /\ \A h \in Stored : rows[h] = [p \in 1..Len(Block[h]) |-> Old]
    BY BlockFacts DEF Init
  <2> QED
    BY <2>1 DEF TableOK, RowsRight
<1>2. decoders \in [Versions -> Versions \cup {None}]
  BY DEF Init, Unasked
<1>3. OtherTypes
  <2>1. height \in Heights /\ failures \in 0..MaxFailures
    BY RangeAssumption, BoundAssumption DEF Init, Heights
  <2> QED
    BY <1>2, <2>1 DEF Init, OtherTypes, Places
<1> QED
  BY <1>1, <1>3 DEF Init, IInv, TxsOK, NumbersOK, Written, FatalOK

LEMMA InvStep == IInv /\ [Next]_vars => IInv'
<1> SUFFICES ASSUME IInv, [Next]_vars PROVE IInv'
  OBVIOUS
<1>1. CASE UNCHANGED vars
  BY <1>1, TableAlone
     DEF vars, IInv, OtherTypes, TxsOK, Identity, Size, NumbersOK, Written, FatalOK, Understood,
         Executing
<1> QED
  BY <1>1, SelectStep, SingleStep, AskStep, PairStep, UpdateStep, ReportStep, FailsStep, RerunStep
     DEF Next

\* What holds in every reachable state of the migration, its runs and reruns.
THEOREM Invariance == Spec => []IInv
  BY InvInit, InvStep, PTL DEF Spec

-----------------------------------------------------------------------------
(* The theorems.                                                           *)

\* Every variable of the migration keeps its type; in particular the rows are
\* written with numbers, and only the rows that there are.
THEOREM TypeCorrect == Spec => []TypeOK
<1>1. IInv => TypeOK
  <2> SUFFICES ASSUME IInv PROVE TypeOK
    OBVIOUS
  <2>1. \A h \in Stored : rows[h] \in [DOMAIN Block[h] -> Nat \cup {Old}]
    BY BlockFacts DEF IInv, TableOK
  <2>2. (\A k \in DOMAIN txs : txs[k] \in DOMAIN Block[height]) /\ done \in 0..Len(txs)
    <3>1. CASE height \in Stored /\ txs = Identity /\ done \in 0..Size
      <4>1. Size \in Nat /\ DOMAIN Block[height] = 1..Size
        BY <3>1, BlockFacts DEF Size
      <4>2. txs \in [1..Size -> Nat] /\ \A k \in 1..Size : txs[k] = k
        BY <3>1, <4>1 DEF Identity
      <4>3. Len(txs) = Size
        BY <4>1, <4>2
      <4> QED
        BY <3>1, <4>1, <4>2, <4>3
    <3>2. CASE txs = <<>> /\ done = 0
      BY <3>2
    <3> QED
      BY <3>1, <3>2 DEF IInv, TxsOK
  <2> QED
    BY <2>1, <2>2 DEF IInv, OtherTypes, TypeOK
<1> QED
  BY <1>1, Invariance, PTL

\* Whatever fails and however often the migration is run again, a row has the
\* number of its own extrinsic, or is as it was and its height not reported.
THEOREM RowsStayRight == Spec => []RowsRight
<1>1. IInv => RowsRight
  BY DEF IInv
<1> QED
  BY <1>1, Invariance, PTL

\* "fatal error on height" means that the block was not read, or read with the
\* metadata or version of another runtime.
THEOREM FatalIsExplained == Spec => []FatalHasCause
<1>1. IInv => FatalHasCause
  BY DEF IInv, FatalOK, FatalHasCause
<1> QED
  BY <1>1, Invariance, PTL
=============================================================================

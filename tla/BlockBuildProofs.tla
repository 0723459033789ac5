-------------------------- MODULE BlockBuildProofs --------------------------
(***************************************************************************)
(* What is proved of BlockBuild for any queries, blocks, runtime versions, *)
(* events and number of connections to proxies.                            *)
(***************************************************************************)
EXTENDS BlockBuild, EventMapperProofs, TLAPS

\* Until main has added all connections no query begins.
Starting == added < Proxies => \A q \in Queries : at[q] = "idle"

\* Connections before next have been chosen once more than the others.
Rounds ==
  \E k \in Nat : \A i \in 0..(Proxies - 1) : calls[i] = k + (IF i < next THEN 1 ELSE 0)

\* A query that has not begun has no decoder of an earlier base.
IdleFresh == \A q \in Queries : at[q] = "idle" => decoder[q] = None

Inv == TypeOK /\ Starting /\ Rounds /\ IdleFresh /\ DecoderOfVersion

LEMMA InitInv == Init => Inv
<1> SUFFICES ASSUME Init PROVE Inv
  OBVIOUS
<1>1. TypeOK
  <2>1. added \in 0..Proxies /\ next \in 0..(Proxies - 1) /\ calls \in [0..(Proxies - 1) -> Nat]
    BY ProxiesAssumption DEF Init
  <2>2. height \in [Queries -> Nat] /\ base \in [Queries -> Heights]
    BY VersionsAssumption DEF Init
  <2>3. /\ decoders \in [Versions -> Versions \cup {None}]
        /\ decoder \in [Queries -> Versions \cup {None}]
    BY DEF Init
  <2>4. /\ at \in [Queries -> {"idle", "others", "lookup", "fetch", "decode", "proxy",
                                "done", "failed", "hung"}]
        /\ block \in [Queries -> {"missing", "null", "unread", "read"}]
        /\ waiting \in [Queries -> SUBSET Fields]
        /\ \A q \in Queries : at[q] = "others" => waiting[q] # {}
    BY DEF Init
  <2>5. named \in [Queries -> BOOLEAN] /\ err \in [Queries -> BOOLEAN] /\ crashed \in BOOLEAN
    BY DEF Init
  <2> QED
    BY <2>1, <2>2, <2>3, <2>4, <2>5 DEF TypeOK
<1>2. Starting /\ IdleFresh /\ DecoderOfVersion
  BY DEF Init, Starting, IdleFresh, DecoderOfVersion
<1>3. Rounds
  <2>1. 0 \in Nat /\ \A i \in 0..(Proxies - 1) : calls[i] = 0 + (IF i < next THEN 1 ELSE 0)
    BY ProxiesAssumption DEF Init
  <2> QED
    BY <2>1 DEF Rounds
<1> QED
  BY <1>1, <1>2, <1>3 DEF Inv

-----------------------------------------------------------------------------
(* The round robin.                                                        *)

\* Choosing a connection keeps the index within the connections.
LEMMA NextInRange ==
  ASSUME TypeOK, added = Proxies, GetNext
  PROVE  /\ next' \in 0..(Proxies - 1)
         /\ calls' \in [0..(Proxies - 1) -> Nat]
         /\ added' = added
  BY ProxiesAssumption DEF TypeOK, GetNext, Inc

\* Choosing a connection keeps the rounds even: the last of a round begins
\* the next one.
LEMMA RoundsGoOn ==
  ASSUME TypeOK, Rounds, added = Proxies, GetNext
  PROVE  Rounds'
<1>1. PICK k \in Nat : \A i \in 0..(Proxies - 1) : calls[i] = k + (IF i < next THEN 1 ELSE 0)
  BY DEF Rounds
<1>2. /\ calls' = [calls EXCEPT ![next] = calls[next] + 1]
      /\ calls \in [0..(Proxies - 1) -> Nat] /\ next \in 0..(Proxies - 1)
  BY DEF GetNext, TypeOK
<1>3. CASE next = Proxies - 1
  <2>1. next' = 0
    BY <1>3 DEF GetNext, Inc
  <2>2. \A i \in 0..(Proxies - 1) : calls'[i] = k + 1
    BY <1>1, <1>2, <1>3, ProxiesAssumption
  <2>3. k + 1 \in Nat /\ \A i \in 0..(Proxies - 1) : calls'[i] = (k + 1) + (IF i < next' THEN 1 ELSE 0)
    BY <2>1, <2>2
  <2> QED
    BY <2>3 DEF Rounds
<1>4. CASE next # Proxies - 1
  <2>1. next' = next + 1
    BY <1>4 DEF GetNext, Inc
  <2>2. \A i \in 0..(Proxies - 1) : calls'[i] = k + (IF i < next' THEN 1 ELSE 0)
    BY <1>1, <1>2, <1>4, <2>1, ProxiesAssumption
  <2> QED
    BY <2>2 DEF Rounds
<1> QED
  BY <1>3, <1>4

\* Every step leaves the connections alone, adds one, or chooses one when
\* all have been added.
LEMMA ConnSteps ==
  ASSUME TypeOK, Starting, Next
  PROVE  \/ UNCHANGED <<added, next, calls>>
         \/ added < Proxies /\ added' = added + 1 /\ UNCHANGED <<next, calls>>
         \/ added = Proxies /\ GetNext
<1>1. CASE Add
  BY <1>1 DEF Add
<1>2. ASSUME NEW q \in Queries, Step(q)
      PROVE  UNCHANGED <<added, next, calls>> \/ (added = Proxies /\ GetNext)
  <2>1. CASE Begin(q) \/ LookUp(q) \/ Fetch(q) \/ Balance(q)
             \/ Decoded(q) \/ QueryFails(q) \/ \E f \in Fields : OthersAnswer(q, f)
    BY <2>1 DEF Begin, LookUp, Fetch, Balance, Decoded, QueryFails,
                OthersAnswer, shared
  <2>2. CASE GetAccountBalance(q)
    BY <2>2 DEF GetAccountBalance
  <2>3. CASE Decode(q)
    <3>1. at[q] = "decode" /\ GetNext
      BY <2>3 DEF Decode, DecodeData
    <3>2. added = Proxies
      BY <3>1, ProxiesAssumption DEF Starting, TypeOK
    <3> QED
      BY <3>1, <3>2
  <2> QED
    BY <1>2, <2>1, <2>2, <2>3 DEF Step
<1> QED
  BY <1>1, <1>2 DEF Next

\* Whatever calls interleave, the round robin stays even.
LEMMA ConnInv ==
  ASSUME TypeOK, Starting, Rounds, Next
  PROVE  /\ added' \in 0..Proxies /\ next' \in 0..(Proxies - 1)
         /\ calls' \in [0..(Proxies - 1) -> Nat]
         /\ Rounds'
<1>1. CASE UNCHANGED <<added, next, calls>>
  BY <1>1 DEF TypeOK, Rounds
<1>2. CASE added < Proxies /\ added' = added + 1 /\ UNCHANGED <<next, calls>>
  <2>1. added' \in 0..Proxies
    BY <1>2, ProxiesAssumption DEF TypeOK
  <2>2. next' = next /\ calls' = calls
    BY <1>2
  <2> QED
    BY <2>1, <2>2 DEF TypeOK, Rounds
<1>3. CASE added = Proxies /\ GetNext
  BY <1>3, NextInRange, RoundsGoOn DEF TypeOK
<1> QED
  BY <1>1, <1>2, <1>3, ConnSteps

\* No query begins before all connections have been added, and none comes back.
LEMMA StartingInv ==
  ASSUME TypeOK, Starting, Next
  PROVE  Starting'
<1>1. CASE Add
  BY <1>1 DEF Add, Starting, TypeOK
<1>2. ASSUME NEW q \in Queries, Step(q)
      PROVE  Starting'
  <2>1. added = Proxies
    <3>1. CASE at[q] = "idle"
      BY <1>2, <3>1 DEF Step, Begin, LookUp, Fetch, Decode, GetAccountBalance,
                        Balance, Decoded, QueryFails, OthersAnswer
    <3>2. CASE at[q] # "idle"
      BY <3>2, ProxiesAssumption DEF Starting, TypeOK
    <3> QED
      BY <3>1, <3>2
  <2>2. added' = added
    BY <1>2, <2>1, ConnSteps DEF Next, GetNext, TypeOK
  <2> QED
    BY <2>1, <2>2, ProxiesAssumption DEF Starting
<1> QED
  BY <1>1, <1>2 DEF Next

-----------------------------------------------------------------------------
(* The decoders.                                                           *)

\* Versions and metadata are those of the base.
LEMMA VersionType ==
  ASSUME TypeOK, NEW q \in Queries
  PROVE  Version(q) \in Versions /\ MetadataOf(q) = Version(q) /\ Version(q) # None
  BY VersionsAssumption DEF TypeOK, Version, MetadataOf, Versions

\* A base is chosen once, and the decoder afterwards is of its version.
LEMMA DecoderInv ==
  ASSUME TypeOK, IdleFresh, DecoderOfVersion, Next
  PROVE  /\ decoders' \in [Versions -> Versions \cup {None}]
         /\ decoder' \in [Queries -> Versions \cup {None}]
         /\ base' \in [Queries -> Heights] /\ height' \in [Queries -> Nat]
         /\ IdleFresh' /\ DecoderOfVersion'
<1>1. CASE Add
  BY <1>1 DEF Add, TypeOK, IdleFresh, DecoderOfVersion, Version
<1>2. ASSUME NEW q \in Queries, Begin(q)
      PROVE  /\ decoders' \in [Versions -> Versions \cup {None}]
             /\ decoder' \in [Queries -> Versions \cup {None}]
             /\ base' \in [Queries -> Heights] /\ height' \in [Queries -> Nat]
             /\ IdleFresh' /\ DecoderOfVersion'
  <2>1. /\ decoders' = decoders /\ decoder' = decoder
        /\ at[q] = "idle" /\ \A p \in Queries : at'[p] = "idle" => at[p] = "idle"
    BY <1>2 DEF Begin, Goto, shared, TypeOK
  <2>2. PICK h \in HeightsOf[q], b \in Heights :
               height' = [height EXCEPT ![q] = h] /\ base' = [base EXCEPT ![q] = b]
    BY <1>2 DEF Begin
  <2>3. h \in Nat /\ b \in Heights
    BY QueriesAssumption
  <2>4. base' \in [Queries -> Heights] /\ height' \in [Queries -> Nat]
    BY <2>2, <2>3 DEF TypeOK
  <2>5. IdleFresh'
    BY <2>1 DEF IdleFresh
  <2>6. ASSUME NEW p \in Queries PROVE decoder'[p] \in {None, Version(p)'}
    <3>1. CASE p = q
      BY <2>1, <3>1 DEF IdleFresh
    <3>2. CASE p # q
      BY <2>1, <2>2, <3>2 DEF DecoderOfVersion, Version, TypeOK
    <3> QED
      BY <3>1, <3>2
  <2> QED
    BY <2>1, <2>4, <2>5, <2>6 DEF DecoderOfVersion, TypeOK
<1>3. ASSUME NEW q \in Queries, LookUp(q)
      PROVE  /\ decoders' \in [Versions -> Versions \cup {None}]
             /\ decoder' \in [Queries -> Versions \cup {None}]
             /\ base' \in [Queries -> Heights] /\ height' \in [Queries -> Nat]
             /\ IdleFresh' /\ DecoderOfVersion'
  <2>1. /\ UNCHANGED <<decoders, base, height>>
        /\ at[q] # "idle" /\ at'[q] # "idle" /\ \A p \in Queries : p # q => at'[p] = at[p]
        /\ decoder' = decoder \/ decoder' = [decoder EXCEPT ![q] = decoders[Version(q)]]
    BY <1>3 DEF LookUp, GetMDecoder, Goto, shared, TypeOK
  <2>2. decoders[Version(q)] \in {None, Version(q)} /\ Version(q) \in Versions
    BY VersionType DEF DecoderOfVersion
  <2>3. \A p \in Queries : decoder'[p] \in {None, Version(p)'} /\ (p # q => decoder'[p] = decoder[p])
    BY <2>1, <2>2 DEF TypeOK, DecoderOfVersion, Version
  <2>4. decoder' \in [Queries -> Versions \cup {None}]
    BY <2>1, <2>2 DEF TypeOK
  <2> QED
    BY <2>1, <2>3, <2>4 DEF TypeOK, DecoderOfVersion, IdleFresh
<1>4. ASSUME NEW q \in Queries, Fetch(q)
      PROVE  /\ decoders' \in [Versions -> Versions \cup {None}]
             /\ decoder' \in [Queries -> Versions \cup {None}]
             /\ base' \in [Queries -> Heights] /\ height' \in [Queries -> Nat]
             /\ IdleFresh' /\ DecoderOfVersion'
  <2>1. /\ UNCHANGED <<base, height>>
        /\ at[q] # "idle" /\ at'[q] # "idle" /\ \A p \in Queries : p # q => at'[p] = at[p]
        /\ decoder' = [decoder EXCEPT ![q] = Version(q)]
        /\ decoders' = [decoders EXCEPT ![Version(q)] = Version(q)]
    BY <1>4, VersionType DEF Fetch, SetMetadataDecoder, Goto, TypeOK
  <2>2. Version(q) \in Versions
    BY VersionType
  <2>3. /\ decoder' \in [Queries -> Versions \cup {None}]
        /\ decoders' \in [Versions -> Versions \cup {None}]
    BY <2>1, <2>2 DEF TypeOK
  <2>4. \A p \in Queries : decoder'[p] \in {None, Version(p)'} /\ (p # q => decoder'[p] = decoder[p])
    BY <2>1, <2>2 DEF TypeOK, DecoderOfVersion, Version
  <2>5. \A v \in Versions : decoders'[v] \in {None, v}
    BY <2>1, <2>2 DEF TypeOK, DecoderOfVersion
  <2> QED
    BY <2>1, <2>3, <2>4, <2>5 DEF TypeOK, DecoderOfVersion, IdleFresh
<1>5. ASSUME NEW q \in Queries,
             \/ Decode(q) \/ GetAccountBalance(q) \/ Balance(q)
             \/ Decoded(q) \/ QueryFails(q) \/ \E f \in Fields : OthersAnswer(q, f)
      PROVE  /\ decoders' \in [Versions -> Versions \cup {None}]
             /\ decoder' \in [Queries -> Versions \cup {None}]
             /\ base' \in [Queries -> Heights] /\ height' \in [Queries -> Nat]
             /\ IdleFresh' /\ DecoderOfVersion'
  <2>1. UNCHANGED <<decoders, decoder, base, height>>
    BY <1>5 DEF Decode, GetAccountBalance, Balance, Decoded, QueryFails,
               OthersAnswer, shared
  <2>2. \A p \in Queries : at'[p] = "idle" => at[p] = "idle"
    BY <1>5 DEF Decode, DecodeData, GetAccountBalance, Balance, Decoded, QueryFails,
               OthersAnswer, Dropped, Used, Goto, TypeOK
  <2> QED
    BY <2>1, <2>2 DEF TypeOK, IdleFresh, DecoderOfVersion, Version
<1> QED
  BY <1>1, <1>2, <1>3, <1>4, <1>5 DEF Next, Step

-----------------------------------------------------------------------------
(* The remaining types, and the theorems.                                  *)

\* getOthers is never left waiting for nothing.
LEMMA AnswersType ==
  ASSUME TypeOK, Next
  PROVE  /\ waiting' \in [Queries -> SUBSET Fields]
         /\ block' \in [Queries -> {"missing", "null", "unread", "read"}]
         /\ named' \in [Queries -> BOOLEAN] /\ err' \in [Queries -> BOOLEAN]
         /\ at' \in [Queries -> {"idle", "others", "lookup", "fetch", "decode", "proxy",
                                 "done", "failed", "hung"}]
         /\ \A q \in Queries : at'[q] = "others" => waiting'[q] # {}
         /\ crashed' \in BOOLEAN
<1> DEFINE Right ==
         /\ waiting' \in [Queries -> SUBSET Fields]
         /\ block' \in [Queries -> {"missing", "null", "unread", "read"}]
         /\ named' \in [Queries -> BOOLEAN] /\ err' \in [Queries -> BOOLEAN]
         /\ at' \in [Queries -> {"idle", "others", "lookup", "fetch", "decode", "proxy",
                                 "done", "failed", "hung"}]
         /\ \A q \in Queries : at'[q] = "others" => waiting'[q] # {}
         /\ crashed' \in BOOLEAN
<1>1. CASE Add
  BY <1>1 DEF Add, TypeOK, answers
<1>2. ASSUME NEW q \in Queries, Begin(q)
      PROVE  Right
  BY <1>2, FieldsAssumption DEF Begin, Goto, TypeOK
<1>3. ASSUME NEW q \in Queries, NEW f \in Fields, OthersAnswer(q, f)
      PROVE  Right
  <2>1. at[q] = "others" /\ f \in waiting[q] /\ crashed' = crashed
    BY <1>3 DEF OthersAnswer
  <2>2. CASE Dropped(q, f)
    BY <2>1, <2>2 DEF Dropped, Goto, TypeOK
  <2>3. ASSUME NEW r \in Results(f), Used(q, f, r)
        PROVE  Right
    <3>1. ErrAfter(q, f, r) \in BOOLEAN
      <4>1. err[q] \in BOOLEAN
        BY DEF TypeOK
      <4>2. (r \in {"bad", "part"}) \in BOOLEAN
        OBVIOUS
      <4>3. CASE f \in {"block", "version"}
        BY <4>2, <4>3 DEF ErrAfter
      <4>4. CASE f \notin {"block", "version"}
        BY <4>1, <4>4 DEF ErrAfter
      <4> QED
        BY <4>3, <4>4
    <3>2. /\ waiting' \in [Queries -> SUBSET Fields]
          /\ block' \in [Queries -> {"missing", "null", "unread", "read"}]
          /\ named' \in [Queries -> BOOLEAN]
      BY <2>3 DEF Used, Read, TypeOK
    <3>3. err' \in [Queries -> BOOLEAN]
      BY <2>3, <3>1 DEF Used, TypeOK
    <3>4. /\ at' \in [Queries -> {"idle", "others", "lookup", "fetch", "decode", "proxy",
                                  "done", "failed", "hung"}]
          /\ \A p \in Queries : at'[p] = "others" => waiting'[p] # {}
      BY <2>1, <2>3 DEF Used, Goto, TypeOK
    <3> QED
      BY <2>1, <3>2, <3>3, <3>4 DEF TypeOK
  <2> QED
    BY <1>3, <2>2, <2>3 DEF OthersAnswer
<1>5. ASSUME NEW q \in Queries,
             LookUp(q) \/ Fetch(q) \/ Decode(q) \/ GetAccountBalance(q) \/ Balance(q) \/ QueryFails(q)
      PROVE  Right
  BY <1>5 DEF LookUp, GetMDecoder, Fetch, SetMetadataDecoder, Decode, DecodeData, 
              GetAccountBalance, Balance, QueryFails, Goto, answers, TypeOK
<1>6. ASSUME NEW q \in Queries, Decoded(q)
      PROVE  Right
  <2>1. UNCHANGED answers /\ (Goto(q, "done") \/ Goto(q, "failed"))
    BY <1>6 DEF Decoded
  <2>2. crashed' \in BOOLEAN
    BY <1>6 DEF Decoded, TypeOK
  <2> QED
    BY <2>1, <2>2 DEF Goto, answers, TypeOK
<1> QED
  BY <1>1, <1>2, <1>3, <1>5, <1>6 DEF Next, Step

LEMMA NextInv == Inv /\ [Next]_vars => Inv'
<1> SUFFICES ASSUME Inv, [Next]_vars PROVE Inv'
  OBVIOUS
<1>1. CASE Next
  <2>1. TypeOK /\ Starting /\ Rounds /\ IdleFresh /\ DecoderOfVersion
    BY DEF Inv
  <2>2. TypeOK'
    BY <1>1, <2>1, ConnInv, DecoderInv, AnswersType DEF TypeOK
  <2> QED
    BY <1>1, <2>1, <2>2, ConnInv, StartingInv, DecoderInv DEF Inv
<1>2. CASE UNCHANGED vars
  BY <1>2 DEF vars, shared, answers, Inv, TypeOK, Starting, Rounds, IdleFresh, DecoderOfVersion, Version
<1> QED
  BY <1>1, <1>2

\* The types of what queries and connections keep, and that getOthers never
\* waits for nothing.
THEOREM BuildTypes == Spec => []TypeOK
<1>1. Inv => TypeOK
  BY DEF Inv
<1> QED
  BY InitInv, NextInv, <1>1, PTL DEF Spec

\* Metadata is stored under, and used for, the runtime version it is of,
\* whatever queries ask for it at the same time (GetMetadata).
THEOREM DecodersRight == Spec => []DecoderOfVersion
<1>1. Inv => DecoderOfVersion
  BY DEF Inv
<1> QED
  BY InitInv, NextInv, <1>1, PTL DEF Spec

\* The round robin serves all connections to the proxies evenly
\* (GRPConnections).
THEOREM ProxiesEvenlyUsed == Spec => []EvenlyUsed
<1>1. Inv => EvenlyUsed
  <2> SUFFICES ASSUME Inv PROVE EvenlyUsed
    OBVIOUS
  <2>1. PICK k \in Nat : \A i \in 0..(Proxies - 1) : calls[i] = k + (IF i < next THEN 1 ELSE 0)
    BY DEF Inv, Rounds
  <2>2. \A i \in 0..(Proxies - 1) : calls[i] \in {k, k + 1}
    BY <2>1
  <2>3. \A i, j \in 0..(Proxies - 1) : calls[i] <= calls[j] + 1
    BY <2>1, <2>2
  <2> QED
    BY <2>3 DEF EvenlyUsed
<1> QED
  BY InitInv, NextInv, <1>1, PTL DEF Spec

-----------------------------------------------------------------------------
(* The transactions of a block.                                            *)

\* Transactions are returned only at the end, and from what was read of the
\* block with the decoder the query has.
Built(q) ==
  /\ at[q] \notin {"idle", "failed"} => height[q] \in HeightsOf[q]
  /\ at[q] = "proxy" => seen[q] \in Seen(q)
  /\ at[q] # "done" => ids[q] = <<>>
  /\ at[q] = "done" => ReturnedRight(q)

AllBuilt == /\ seen = [q \in Queries |-> seen[q]] /\ ids = [q \in Queries |-> ids[q]]
            /\ \A q \in Queries : KindOf[q] = "block" => Built(q)

\* A query is built from what is its own.
LEMMA BuiltFrame ==
  ASSUME NEW q \in Queries, Built(q),
         at'[q] = at[q], height'[q] = height[q], seen'[q] = seen[q], ids'[q] = ids[q],
         block'[q] = block[q], decoder'[q] = decoder[q]
  PROVE  Built(q)'
  BY DEF Built, Seen, Raw, Executing, ReturnedRight

\* A listing of all extrinsics is paired with them one by one.
LEMMA PairedRight ==
  ASSUME NEW q \in Queries, KindOf[q] = "block", height[q] \in HeightsOf[q], seen[q] \in Seen(q),
         block[q] \in {"unread", "read"}
  PROVE  LET r == Paired(Block[height[q]], Raw(q), seen[q], Listing[height[q]])
         IN  /\ Len(r) = Len(Block[height[q]])
             /\ \A k \in DOMAIN r :
                  IF block[q] = "read"
                    THEN \/ r[k] = k
                         \/ r[k] = NoID /\ ~Block[height[q]][k].signed /\ decoder[q] # Executing(q)
                    ELSE r[k] = Zero
<1> DEFINE b == Block[height[q]]
           r == Paired(b, Raw(q), seen[q], Listing[height[q]])
<1>1. b \in Seq([signed : BOOLEAN, module : Modules])
  BY BlockAssumption
<1>2. r = [k \in 1..Len(b) |-> IDOf(b, Raw(q), seen[q], k, k)]
  <2>1. Unique(Listing[height[q]]) = [k \in DOMAIN b |-> k]
    BY ListingAssumption
  <2> QED
    BY <1>1, <2>1 DEF Paired
<1>3. Len(r) = Len(b) /\ DOMAIN r = 1..Len(b)
  BY <1>1, <1>2
<1>4. ASSUME NEW k \in 1..Len(b)
      PROVE  IF block[q] = "read"
               THEN r[k] = k \/ (r[k] = NoID /\ ~b[k].signed /\ decoder[q] # Executing(q))
               ELSE r[k] = Zero
  <2>1. r[k] = IDOf(b, Raw(q), seen[q], k, k)
    BY <1>2
  <2>2. CASE block[q] = "read"
    <3>1. Raw(q) = b
      BY <2>2 DEF Raw
    <3>2. CASE b[k].signed
      <4>1. SameHash(b, k) # {}
        BY <1>1, <3>2 DEF SameHash
      <4> QED
        BY <2>1, <2>2, <3>1, <4>1 DEF IDOf
    <3>3. CASE ~b[k].signed
      <4>1. SameHash(b, k) = {} /\ HasCandidate(b, k)
        BY <1>1, <3>3 DEF SameHash, HasCandidate
      <4>2. r[k] = IF seen[q][k] = b[k].module THEN k ELSE NoID
        BY <2>1, <3>1, <4>1 DEF IDOf
      <4>3. decoder[q] = Executing(q) => seen[q][k] = b[k].module
        BY <1>1, <3>1 DEF Seen
      <4> QED
        BY <2>2, <3>3, <4>2, <4>3
    <3> QED
      BY <3>2, <3>3
  <2>3. CASE block[q] = "unread"
    <3>1. Raw(q) = <<>>
      BY <2>3 DEF Raw
    <3>2. SameHash(<<>>, k) = {} /\ ~HasCandidate(<<>>, k)
      BY DEF SameHash, HasCandidate
    <3> QED
      BY <2>1, <2>3, <3>1, <3>2 DEF IDOf
  <2> QED
    BY <2>2, <2>3
<1> QED
  BY <1>3, <1>4

\* A step of one query leaves what the others have.
LEMMA OthersKeep ==
  ASSUME TypeOK, AllBuilt, NEW q \in Queries, Step(q)
  PROVE  /\ seen' = [p \in Queries |-> seen'[p]] /\ ids' = [p \in Queries |-> ids'[p]]
         /\ \A p \in Queries : p # q =>
              /\ at'[p] = at[p] /\ height'[p] = height[p] /\ seen'[p] = seen[p] /\ ids'[p] = ids[p]
              /\ block'[p] = block[p] /\ decoder'[p] = decoder[p]
<1> DEFINE Same(f, g) == \A p \in Queries : p # q => f[p] = g[p]
<1>1. Same(at', at)
  BY DEF Step, Begin, LookUp, Fetch, Decode, DecodeData, GetAccountBalance, Balance,
         Decoded, QueryFails, OthersAnswer, Dropped, Used, Goto, TypeOK
<1>2. Same(height', height)
  BY DEF Step, Begin, LookUp, Fetch, Decode, GetAccountBalance, Balance,
         Decoded, QueryFails, OthersAnswer, TypeOK
<1>3. Same(block', block)
  BY DEF Step, Begin, LookUp, Fetch, Decode, GetAccountBalance, Balance,
         Decoded, QueryFails, OthersAnswer, Dropped, Used, answers, TypeOK
<1>4. Same(decoder', decoder)
  BY DEF Step, Begin, LookUp, Fetch, Decode, GetAccountBalance, Balance,
         Decoded, QueryFails, OthersAnswer, TypeOK
<1>5. seen' = seen \/ \E s : seen' = [seen EXCEPT ![q] = s]
  BY DEF Step, Begin, LookUp, Fetch, Decode, GetAccountBalance, Balance,
         Decoded, QueryFails, OthersAnswer
<1>6. ids' = ids \/ \E s : ids' = [ids EXCEPT ![q] = s]
  BY DEF Step, Begin, LookUp, Fetch, Decode, GetAccountBalance, Balance,
         Decoded, QueryFails, OthersAnswer
<1>7. seen' = [p \in Queries |-> seen'[p]] /\ Same(seen', seen)
  BY <1>5 DEF AllBuilt
<1>8. ids' = [p \in Queries |-> ids'[p]] /\ Same(ids', ids)
  BY <1>6 DEF AllBuilt
<1> QED
  BY <1>1, <1>2, <1>3, <1>4, <1>7, <1>8

\* Every step of a block query builds it rightly.
LEMMA StepBuilds ==
  ASSUME TypeOK, AllBuilt, NEW q \in Queries, KindOf[q] = "block", Step(q)
  PROVE  Built(q)'
<1>1. Built(q)
  BY DEF AllBuilt
<1>2. CASE Begin(q)
  <2>1. at'[q] = "others" /\ ids'[q] = ids[q] /\ at[q] = "idle"
    BY <1>2 DEF Begin, Goto, TypeOK
  <2>2. height'[q] \in HeightsOf[q]
    BY <1>2 DEF Begin, TypeOK
  <2> QED
    BY <1>1, <2>1, <2>2 DEF Built
<1>3. CASE Decode(q)
  <2>1. /\ at[q] = "decode" /\ at'[q] = "proxy"
        /\ height' = height /\ ids' = ids /\ block' = block /\ decoder' = decoder
    BY <1>3 DEF Decode, DecodeData, Goto, answers, TypeOK
  <2>2. seen'[q] \in Seen(q)
    BY <1>3 DEF Decode, AllBuilt
  <2>3. seen'[q] \in Seen(q)'
    BY <2>1, <2>2 DEF Seen, Raw, Executing
  <2> QED
    BY <1>1, <2>1, <2>3 DEF Built
<1>4. CASE Decoded(q)
  <2>1. /\ at[q] = "proxy" /\ block[q] \in {"unread", "read"} /\ at'[q] \in {"done", "failed"}
        /\ height' = height /\ block' = block /\ decoder' = decoder
    BY <1>4 DEF Decoded, Goto, answers, TypeOK
  <2>2. height[q] \in HeightsOf[q] /\ seen[q] \in Seen(q) /\ ids[q] = <<>>
    BY <1>1, <2>1 DEF Built
  <2>3. CASE Listing[height[q]] = <<>>
    <3>1. ids' = ids /\ at'[q] = "done"
      BY <1>4, <2>3 DEF Decoded, Goto, TypeOK
    <3>2. Block[height[q]] = <<>>
      BY <2>2, <2>3, ListingAssumption
    <3>3. ReturnedRight(q)'
      BY <2>1, <2>2, <3>1, <3>2 DEF ReturnedRight
    <3> QED
      BY <2>1, <2>2, <3>1, <3>3 DEF Built
  <2>4. CASE at'[q] = "done" /\ Listing[height[q]] # <<>>
    <3>1. ids'[q] = Paired(Block[height[q]], Raw(q), seen[q], Listing[height[q]])
      BY <1>4, <2>4 DEF Decoded, Goto, TypeOK, AllBuilt
    <3>2. ReturnedRight(q)'
      BY <2>1, <2>2, <3>1, PairedRight DEF ReturnedRight, Executing
    <3> QED
      BY <2>1, <2>2, <2>4, <3>2 DEF Built
  <2>5. CASE at'[q] = "failed" /\ Listing[height[q]] # <<>>
    <3>1. ids' = ids
      BY <1>4, <2>5 DEF Decoded, Goto, TypeOK
    <3> QED
      BY <2>2, <2>5, <3>1 DEF Built
  <2> QED
    BY <2>1, <2>3, <2>4, <2>5
<1>5. CASE \/ LookUp(q) \/ Fetch(q) \/ QueryFails(q)
           \/ \E f \in Fields : OthersAnswer(q, f)
  <2>1. /\ at[q] # "done" /\ at'[q] \notin {"idle", "proxy", "done"}
        /\ at[q] \in {"idle", "failed"} => at'[q] = "failed"
    BY <1>5 DEF LookUp, Fetch, QueryFails, OthersAnswer, Dropped, Used, Goto, TypeOK
  <2>2. height' = height /\ ids' = ids
    BY <1>5 DEF LookUp, Fetch, QueryFails, OthersAnswer
  <2> QED
    BY <1>1, <2>1, <2>2 DEF Built
<1> QED
  BY <1>2, <1>3, <1>4, <1>5 DEF Step, GetAccountBalance, Balance

LEMMA BuiltInv == Inv /\ AllBuilt /\ [Next]_vars => AllBuilt'
<1> SUFFICES ASSUME Inv, AllBuilt, [Next]_vars PROVE AllBuilt'
  OBVIOUS
<1>1. TypeOK
  BY DEF Inv
<1>2. CASE UNCHANGED vars \/ Add
  <2>1. UNCHANGED <<at, height, seen, ids, block, decoder>>
    BY <1>2 DEF vars, answers, Add
  <2> QED
    BY <2>1, BuiltFrame DEF AllBuilt
<1>3. ASSUME NEW q \in Queries, Step(q)
      PROVE  AllBuilt'
  <2>1. ASSUME NEW p \in Queries, KindOf[p] = "block" PROVE Built(p)'
    <3>1. CASE p = q
      BY <1>1, <1>3, <2>1, <3>1, StepBuilds
    <3>2. CASE p # q
      BY <1>1, <1>3, <2>1, <3>2, OthersKeep, BuiltFrame DEF AllBuilt
    <3> QED
      BY <3>1, <3>2
  <2> QED
    BY <1>1, <1>3, <2>1, OthersKeep DEF AllBuilt
<1> QED
  BY <1>2, <1>3 DEF Next

\* A block query returns a transaction for every extrinsic, under its own
\* number, but for unsigned ones decoded with another runtime's metadata and
\* for a block the worker has not read (the pairing of blockAndTx).
THEOREM ReturnsRightTransactions == Spec => []TransactionsRight
<1>1. Init => AllBuilt
  BY DEF Init, AllBuilt, Built
<1>2. AllBuilt => TransactionsRight
  BY DEF AllBuilt, Built, TransactionsRight
<1> QED
  BY InitInv, NextInv, BuiltInv, <1>1, <1>2, PTL DEF Spec

-----------------------------------------------------------------------------
(* The events of a block.                                                  *)

\* An event kept with a query is one the proxy may send, mapped by getEvent.
EventsMapped ==
  /\ event = [q \in Queries |-> event[q]]
  /\ \A q \in Queries : event[q] # None =>
       event[q].of \in Events /\ event[q].as = getEvent(event[q].of)

LEMMA MappedInv == Inv /\ AllBuilt /\ EventsMapped /\ [Next]_vars => EventsMapped'
<1> SUFFICES ASSUME Inv, AllBuilt, EventsMapped, [Next]_vars PROVE EventsMapped'
  OBVIOUS
<1>1. CASE UNCHANGED event
  BY <1>1 DEF EventsMapped
<1>2. ASSUME NEW q \in Queries, Decoded(q), ~UNCHANGED event
      PROVE  EventsMapped'
  <2>1. at[q] = "proxy" /\ KindOf[q] = "block"
    BY <1>2 DEF Decoded
  <2>2. height[q] \in HeightsOf[q]
    BY <2>1 DEF AllBuilt, Built
  <2>3. PICK e \in EventsOf[height[q]] : event' = [event EXCEPT ![q] = [of |-> e, as |-> getEvent(e)]]
    BY <1>2 DEF Decoded
  <2>4. e \in Events
    BY <2>1, <2>2, EventsAssumption
  <2>5. event' = [p \in Queries |-> event'[p]]
    BY <2>3 DEF EventsMapped
  <2>6. ASSUME NEW p \in Queries, event'[p] # None
        PROVE  event'[p].of \in Events /\ event'[p].as = getEvent(event'[p].of)
    <3>1. CASE p = q
      <4>1. event'[p] = [of |-> e, as |-> getEvent(e)]
        BY <2>3, <3>1 DEF EventsMapped
      <4>2. event'[p].of = e /\ event'[p].as = getEvent(e)
        BY <4>1
      <4> QED
        BY <2>4, <4>2
    <3>2. CASE p # q
      <4>1. event'[p] = event[p]
        BY <2>3, <3>2 DEF EventsMapped
      <4> QED
        BY <2>6, <4>1 DEF EventsMapped
    <3> QED
      BY <3>1, <3>2
  <2> QED
    BY <2>5, <2>6 DEF EventsMapped
<1>3. UNCHANGED event \/ \E q \in Queries : Decoded(q)
  BY DEF vars, Next, Add, Step, Begin, LookUp, Fetch, Decode, GetAccountBalance, Balance,
         QueryFails, OthersAnswer
<1> QED
  BY <1>1, <1>2, <1>3

\* Every event that is mapped, in whatever block and query, has the amounts,
\* parties, sender and recipient of its description (getEvent).
THEOREM EventsMappedRight == Spec => []EventsRight
<1>1. Init => AllBuilt /\ EventsMapped
  BY DEF Init, AllBuilt, Built, EventsMapped
<1>2. EventsMapped => EventsRight
  BY EventIsMappedRight DEF EventsMapped, EventsRight
<1> QED
  BY InitInv, NextInv, BuiltInv, MappedInv, <1>1, <1>2, PTL DEF Spec
=============================================================================

-------------------------- MODULE BlockHashesProofs --------------------------
(***************************************************************************)
(* What is proved of BlockHashes for any number of queries and nodes, any  *)
(* height and any size of the cache.                                       *)
(***************************************************************************)
EXTENDS BlockHashes, FiniteSetTheorems, TLAPS

-----------------------------------------------------------------------------
(* The inductive invariant.                                                *)

Asking == {"lookup parent", "lookup grandparent", "wait"}

\* What a query waits for was asked for since it began, and at a height where
\* there is such a block.
PendingOK(w) ==
  /\ pending[w] # {} => pc[w] \in Asking
  /\ pc[w] = "lookup parent" \/ "parent" \in pending[w] => height[w] >= 1
  /\ pc[w] = "lookup grandparent" \/ "grandparent" \in pending[w] => height[w] >= 2

\* A hash that has been looked up is right, on its way, or lost to an error.
BlockKnown(w) ==
  pc[w] \in Asking =>
    \/ hash[w]["block"] \in {height[w], Null}
    \/ "block" \in pending[w]
    \/ failed[w]

ParentKnown(w) ==
  pc[w] \in {"lookup grandparent", "wait"} /\ height[w] >= 1 =>
    \/ hash[w]["parent"] \in {height[w] - 1, Null}
    \/ "parent" \in pending[w]
    \/ failed[w]

\* An error came in answer to a request and is remembered.
FailedOK(w) ==
  failed[w] => expected[w] # {} /\ err[w] /\ pc[w] \in {"wait", "done"}

Ended(w) ==
  Succeeded(w) =>
    /\ hash[w]["block"] \in {height[w], Null}
    /\ height[w] > 0 => hash[w]["parent"] \in {height[w] - 1, Null}

QueryOK(w) == PendingOK(w) /\ BlockKnown(w) /\ ParentKnown(w) /\ FailedOK(w) /\ Ended(w)

CacheOK ==
  /\ DOMAIN cache \subseteq Heights /\ Cardinality(DOMAIN cache) <= CacheCap
  /\ \A k \in DOMAIN cache : cache[k] \in Hashes
  /\ CacheRight

TypesOK ==
  /\ best \in [Nodes -> Heights]
  /\ pc \in [Queries -> PCs]
  /\ height \in [Queries -> Heights]
  /\ hash \in [Queries -> [Ids -> Hashes \cup {Blank}]]
  /\ expected \in [Queries -> SUBSET Ids] /\ pending \in [Queries -> SUBSET Ids]
  /\ \A w \in Queries : pending[w] \subseteq expected[w]
  /\ err \in [Queries -> BOOLEAN] /\ failed \in [Queries -> BOOLEAN]

IInv == TypesOK /\ CacheOK /\ \A w \in Queries : QueryOK(w)

-----------------------------------------------------------------------------
(* The cache.                                                              *)

\* Add keeps the cache within its capacity, whichever entry it evicts, and
\* changes no entry but the one it is about.
LEMMA AddBounded ==
  ASSUME DOMAIN cache \subseteq Heights, Cardinality(DOMAIN cache) <= CacheCap,
         NEW k \in Heights, NEW v, Add(k, v)
  PROVE  /\ DOMAIN cache' \subseteq DOMAIN cache \cup {k}
         /\ Cardinality(DOMAIN cache') <= CacheCap
         /\ \A j \in DOMAIN cache' : cache'[j] = IF j = k THEN v ELSE cache[j]
<1> DEFINE D == DOMAIN cache
           full == k \notin D /\ Cardinality(D) = CacheCap
<1>1. PICK lost \in IF full THEN D ELSE {k} :
        cache' = [j \in (D \ {lost}) \cup {k} |-> IF j = k THEN v ELSE cache[j]]
  BY DEF Add
<1>2. DOMAIN cache' = (D \ {lost}) \cup {k}
  BY <1>1
<1>3. IsFiniteSet(D) /\ Cardinality(D) \in Nat
  <2>1. IsFiniteSet(Heights)
    BY HashesAssumption, FS_Interval DEF Heights
  <2> QED
    BY <2>1, FS_Subset, FS_CardinalityType
<1>4. IsFiniteSet(D \ {lost})
      /\ Cardinality(D \ {lost}) = IF lost \in D THEN Cardinality(D) - 1 ELSE Cardinality(D)
  BY <1>3, FS_RemoveElement
<1>5. Cardinality((D \ {lost}) \cup {k}) =
        IF k \in D \ {lost} THEN Cardinality(D \ {lost}) ELSE Cardinality(D \ {lost}) + 1
  BY <1>4, FS_AddElement
<1>6. Cardinality((D \ {lost}) \cup {k}) <= CacheCap
  <2>1. CASE full
    BY <1>3, <1>4, <1>5, <2>1
  <2>2. CASE ~full
    <3>1. lost = k
      BY <1>1, <2>2
    <3>2. Cardinality((D \ {lost}) \cup {k}) =
            IF k \in D THEN Cardinality(D) ELSE Cardinality(D) + 1
      BY <1>3, <1>4, <1>5, <3>1
    <3> QED
      BY <1>3, <2>2, <3>2, HashesAssumption
  <2> QED
    BY <2>1, <2>2
<1> QED
  BY <1>1, <1>2, <1>6

LEMMA AddRight ==
  ASSUME CacheOK, NEW k \in Heights, NEW v \in {k, Null}, Add(k, v)
  PROVE  CacheOK'
<1>1. /\ DOMAIN cache' \subseteq DOMAIN cache \cup {k}
      /\ Cardinality(DOMAIN cache') <= CacheCap
      /\ \A j \in DOMAIN cache' : cache'[j] = IF j = k THEN v ELSE cache[j]
  BY AddBounded DEF CacheOK
<1> QED
  BY <1>1 DEF CacheOK, CacheRight, Hashes

-----------------------------------------------------------------------------
(* The steps of a query.                                                   *)

\* A query is not disturbed by a step of another.
LEMMA Undisturbed ==
  ASSUME NEW v \in Queries, QueryOK(v),
         pc'[v] = pc[v], height'[v] = height[v], hash'[v] = hash[v],
         expected'[v] = expected[v], pending'[v] = pending[v],
         err'[v] = err[v], failed'[v] = failed[v]
  PROVE  QueryOK(v)'
  BY DEF QueryOK, PendingOK, BlockKnown, ParentKnown, FailedOK, Ended, Succeeded

LEMMA StartStep ==
  ASSUME IInv, NEW w \in Queries, Start(w)
  PROVE  IInv'
<1>1. TypesOK /\ CacheOK /\ QueryOK(w) /\ pending[w] = {}
  BY DEF IInv, Start, QueryOK, PendingOK, Asking
<1>2. TypesOK'
  <2>1. 0 \in Heights /\ \A k \in 1..MaxHeight : k \in Heights
    BY HashesAssumption DEF Heights
  <2>2. height' \in [Queries -> Heights] /\ pc' \in [Queries -> PCs]
    BY <1>1, <2>1 DEF TypesOK, Start, PCs
  <2>3. hash' \in [Queries -> [Ids -> Hashes \cup {Blank}]]
    <3>1. [id \in Ids |-> Blank] \in [Ids -> Hashes \cup {Blank}]
      OBVIOUS
    <3> QED
      BY <1>1, <3>1 DEF TypesOK, Start
  <2> QED
    BY <1>1, <2>2, <2>3 DEF TypesOK, Start
<1>3. CacheOK'
  BY <1>1 DEF CacheOK, CacheRight, Start
<1>4. QueryOK(w)'
  BY <1>1 DEF TypesOK, Start, Asking, QueryOK, PendingOK, BlockKnown, ParentKnown, FailedOK,
              Ended, Succeeded
<1>5. ASSUME NEW v \in Queries, v # w PROVE QueryOK(v)'
  BY <1>1, <1>5, Undisturbed DEF IInv, TypesOK, Start
<1> QED
  BY <1>2, <1>3, <1>4, <1>5 DEF IInv

\* The finalized head and its header.
LEMMA LatestStep ==
  ASSUME IInv, NEW w \in Queries, Head(w) \/ Header(w) \/ LatestFails(w)
  PROVE  IInv'
<1>1. TypesOK /\ CacheOK /\ QueryOK(w) /\ pending[w] = {} /\ ~failed[w]
  BY DEF IInv, Head, Header, LatestFails, QueryOK, PendingOK, FailedOK, Asking
<1>2. TypesOK'
  <2>1. \A n \in Nodes : \A k \in 0..best[n] : k \in Heights
    BY <1>1, HashesAssumption DEF TypesOK, Heights
  <2> QED
    BY <1>1, <2>1 DEF TypesOK, Head, Header, LatestFails, Stop, PCs
<1>3. CacheOK'
  <2>1. CASE Header(w)
    BY <1>1, <2>1, AddRight DEF Header, TypesOK
  <2>2. CASE Head(w) \/ LatestFails(w)
    BY <1>1, <2>2 DEF CacheOK, CacheRight, Head, LatestFails
  <2> QED
    BY <2>1, <2>2
<1>4. QueryOK(w)'
  BY <1>1 DEF TypesOK, Head, Header, LatestFails, Stop, PCs, Asking, QueryOK, PendingOK,
              BlockKnown, ParentKnown, FailedOK, Ended, Succeeded
<1>5. ASSUME NEW v \in Queries, v # w PROVE QueryOK(v)'
  BY <1>1, <1>5, Undisturbed DEF IInv, TypesOK, Head, Header, LatestFails, Stop
<1> QED
  BY <1>2, <1>3, <1>4, <1>5 DEF IInv

\* What a lookup changes and what it leaves alone.
LookedUp(w, id, key, to) ==
  /\ TypesOK' /\ CacheOK'
  /\ pc' = [pc EXCEPT ![w] = to]
  /\ UNCHANGED <<height, err, failed>>
  /\ expected[w] \subseteq expected'[w] /\ pending[w] \subseteq pending'[w]
  /\ pending'[w] \subseteq pending[w] \cup {id}
  /\ hash'[w][id] \in {key, Null} \/ id \in pending'[w]
  /\ \A i \in Ids \ {id} : hash'[w][i] = hash[w][i]
  /\ \A v \in Queries \ {w} : /\ hash'[v] = hash[v]
                              /\ expected'[v] = expected[v]
                              /\ pending'[v] = pending[v]

\* A lookup brings a hash of the cache or makes a request pending.
LEMMA LookUpTypes ==
  ASSUME TypesOK, CacheOK, NEW w \in Queries, NEW id \in Ids, NEW key, NEW from, NEW to \in PCs,
         LookUp(w, id, key, from, to)
  PROVE  LookedUp(w, id, key, to)
<1> USE DEF LookedUp
<1>1. pc' = [pc EXCEPT ![w] = to] /\ UNCHANGED <<best, cache, height, err, failed>>
  BY DEF LookUp
<1>2. CASE key \in DOMAIN cache
  <2>1. /\ cache[key] \in Hashes /\ cache[key] \in {key, Null}
        /\ hash' = [hash EXCEPT ![w][id] = cache[key]]
        /\ UNCHANGED <<expected, pending>>
    BY <1>2 DEF LookUp, CacheOK, CacheRight
  <2>2. /\ hash' \in [Queries -> [Ids -> Hashes \cup {Blank}]]
        /\ hash'[w][id] = cache[key]
        /\ \A i \in Ids \ {id} : hash'[w][i] = hash[w][i]
        /\ \A v \in Queries \ {w} : hash'[v] = hash[v]
    BY <2>1 DEF TypesOK
  <2>3. TypesOK'
    BY <1>1, <2>1, <2>2 DEF TypesOK
  <2> QED
    BY <1>1, <2>1, <2>2, <2>3 DEF CacheOK, CacheRight
<1>3. CASE key \notin DOMAIN cache
  <2>1. /\ expected' = [expected EXCEPT ![w] = @ \cup {id}]
        /\ pending' = [pending EXCEPT ![w] = @ \cup {id}]
        /\ UNCHANGED hash
    BY <1>3 DEF LookUp
  <2>2. TypesOK'
    BY <1>1, <2>1 DEF TypesOK
  <2> QED
    BY <1>1, <2>1, <2>2 DEF CacheOK, CacheRight, TypesOK
<1> QED
  BY <1>2, <1>3

LEMMA LookUpStep ==
  ASSUME IInv, NEW w \in Queries, LookUpBlock(w) \/ LookUpParent(w) \/ LookUpGrandparent(w)
  PROVE  IInv'
<1>1. TypesOK /\ CacheOK /\ QueryOK(w) /\ height[w] \in Heights
  BY DEF IInv, TypesOK
<1>0. height[w] \in Nat
  BY <1>1, HashesAssumption DEF Heights
<1> USE DEF LookedUp
<1>2. ASSUME NEW id \in Ids, NEW key, NEW to, LookedUp(w, id, key, to), QueryOK(w)'
      PROVE  IInv'
  <2>1. ASSUME NEW v \in Queries, v # w PROVE QueryOK(v)'
    BY <1>1, <1>2, <2>1, Undisturbed DEF IInv, TypesOK
  <2> QED
    BY <1>2, <2>1 DEF IInv
<1>3. CASE LookUpBlock(w)
  <2> DEFINE to == CASE height[w] = 0 -> "wait" [] OTHER -> "lookup parent"
  <2>1. to \in PCs /\ "block" \in Ids
    BY DEF PCs, Ids
  <2>2. LookUp(w, "block", height[w], "lookup block", to) /\ pc[w] = "lookup block"
    BY <1>3 DEF LookUpBlock, LookUp
  <2>3. LookedUp(w, "block", height[w], to)
    <3> HIDE DEF to
    <3> QED
      BY <1>1, <2>1, <2>2, LookUpTypes
  <2>4. height[w] = 0 => to = "wait"
    OBVIOUS
  <2>5. height[w] # 0 => to = "lookup parent" /\ height[w] >= 1
    BY <1>1, HashesAssumption DEF Heights
  <2>6. QueryOK(w)'
    <3> HIDE DEF to
    <3> QED
      <4>1. /\ pc'[w] = to /\ to \in {"wait", "lookup parent"} /\ height'[w] = height[w]
            /\ ~failed[w] /\ failed'[w] = failed[w]
        BY <1>1, <2>2, <2>3, <2>4, <2>5 DEF TypesOK, QueryOK, FailedOK
      <4>2. PendingOK(w)'
        BY <1>0, <1>1, <2>2, <2>3, <2>4, <2>5, <4>1 DEF Asking, QueryOK, PendingOK
      <4>3. BlockKnown(w)'
        BY <2>3, <4>1 DEF BlockKnown
      <4>4. ParentKnown(w)'
        <5>1. CASE height[w] = 0
          <6>1. height'[w] = 0
            BY <4>1, <5>1
          <6>2. ~(height'[w] >= 1)
            BY <6>1
          <6> QED
            BY <6>2 DEF ParentKnown
        <5>2. CASE height[w] # 0
          BY <2>5, <4>1, <5>2 DEF ParentKnown
        <5> QED
          BY <5>1, <5>2
      <4> QED
        BY <2>2, <4>1, <4>2, <4>3, <4>4 DEF QueryOK, FailedOK, Ended, Succeeded
  <2> QED
    BY <1>2, <2>1, <2>3, <2>6
<1>4. CASE LookUpParent(w)
  <2> DEFINE to == CASE height[w] = 1 -> "wait" [] OTHER -> "lookup grandparent"
  <2>1. to \in PCs /\ "parent" \in Ids
    BY DEF PCs, Ids
  <2>2. LookUp(w, "parent", height[w] - 1, "lookup parent", to) /\ pc[w] = "lookup parent"
    BY <1>4 DEF LookUpParent, LookUp, ParentKey
  <2>3. LookedUp(w, "parent", height[w] - 1, to)
    <3> HIDE DEF to
    <3> QED
      BY <1>1, <2>1, <2>2, LookUpTypes
  <2>4. height[w] = 1 => to = "wait"
    OBVIOUS
  <2>5. height[w] # 1 => to = "lookup grandparent" /\ height[w] >= 2
    <3>1. height[w] # 1 => to = "lookup grandparent"
      OBVIOUS
    <3>2. height[w] \in Nat
      BY <1>1, HashesAssumption DEF Heights
    <3>3. height[w] >= 1
      BY <1>1, <2>2 DEF QueryOK, PendingOK
    <3> QED
      BY <3>1, <3>2, <3>3
  <2>6. QueryOK(w)'
    <3> HIDE DEF to
    <3> QED
      <4>1. /\ pc'[w] = to /\ to \in {"wait", "lookup grandparent"} /\ height'[w] = height[w]
            /\ ~failed[w] /\ failed'[w] = failed[w]
        BY <1>1, <2>2, <2>3, <2>4, <2>5 DEF TypesOK, QueryOK, FailedOK
      <4>2. PendingOK(w)'
        BY <1>0, <1>1, <2>2, <2>3, <2>4, <2>5, <4>1 DEF Asking, QueryOK, PendingOK
      <4>3. BlockKnown(w)' /\ ParentKnown(w)'
        BY <1>0, <1>1, <2>2, <2>3, <2>4, <2>5, <4>1
           DEF Asking, Ids, QueryOK, BlockKnown, ParentKnown
      <4> QED
        BY <2>2, <4>1, <4>2, <4>3 DEF QueryOK, FailedOK, Ended, Succeeded
  <2> QED
    BY <1>2, <2>1, <2>3, <2>6
<1>5. CASE LookUpGrandparent(w)
  <2>1. "wait" \in PCs /\ "grandparent" \in Ids
    BY DEF PCs, Ids
  <2>2. LookUp(w, "grandparent", height[w] - 1, "lookup grandparent", "wait")
        /\ pc[w] = "lookup grandparent"
    BY <1>5 DEF LookUpGrandparent, LookUp, GrandparentKey
  <2>3. LookedUp(w, "grandparent", height[w] - 1, "wait")
    BY <1>1, <2>1, <2>2, LookUpTypes
  <2>6. QueryOK(w)'
    BY <1>1, <2>2, <2>3
       DEF TypesOK, Asking, Ids, QueryOK, PendingOK, BlockKnown, ParentKnown, FailedOK, Ended,
           Succeeded
  <2> QED
    BY <1>2, <2>1, <2>3, <2>6
<1> QED
  BY <1>3, <1>4, <1>5

\* An answer: the node's hash for the height that was asked for, or an error.
LEMMA AnswerStep ==
  ASSUME IInv, NEW w \in Queries, NEW id \in pending[w], Answer(w, id) \/ AnswerFails(w, id)
  PROVE  IInv'
<1>1. TypesOK /\ CacheOK /\ QueryOK(w) /\ height[w] \in Heights /\ id \in Ids /\ id \in expected[w]
  BY DEF IInv, TypesOK
<1>2. CASE Answer(w, id)
  <2>1. PICK n \in Nodes :
          LET v == HashFrom(n, Wanted(w, id))
          IN  /\ hash' = [hash EXCEPT ![w][id] = v]
              /\ IF id = "block" THEN Add(height[w], v) ELSE UNCHANGED cache
    BY <1>2 DEF Answer
  <2> DEFINE v == HashFrom(n, Wanted(w, id))
  <2>2. /\ Wanted(w, id) \in Heights /\ v \in {Wanted(w, id), Null}
        /\ id = "block" => Wanted(w, id) = height[w]
        /\ id = "parent" => Wanted(w, id) = height[w] - 1
    <3>1. CASE id = "block"
      BY <1>1, <3>1 DEF Wanted, HashFrom
    <3>2. CASE id = "parent"
      <4>1. height[w] >= 1
        BY <1>1, <3>2 DEF QueryOK, PendingOK
      <4>2. height[w] - 1 \in Heights
        BY <1>1, <4>1, HashesAssumption DEF Heights
      <4> QED
        BY <3>2, <4>2 DEF Wanted, HashFrom
    <3>3. CASE id = "grandparent"
      <4>1. height[w] >= 2
        BY <1>1, <3>3 DEF QueryOK, PendingOK
      <4>2. height[w] - 2 \in Heights
        BY <1>1, <4>1, HashesAssumption DEF Heights
      <4> QED
        BY <3>3, <4>2 DEF Wanted, HashFrom
    <3> QED
      BY <1>1, <3>1, <3>2, <3>3 DEF Ids
  <2> HIDE DEF v
  <2>3. TypesOK'
    <3>1. hash' \in [Queries -> [Ids -> Hashes \cup {Blank}]]
      BY <1>1, <2>1, <2>2 DEF TypesOK, Hashes, v
    <3> QED
      BY <1>1, <1>2, <3>1 DEF Answer, TypesOK, ErrAfter
  <2>4. CacheOK'
    <3>1. CASE id = "block"
      <4>1. Add(height[w], v) /\ v \in {height[w], Null}
        BY <2>1, <2>2, <3>1 DEF v
      <4> QED
        BY <1>1, <4>1, AddRight
    <3>2. CASE id # "block"
      BY <1>1, <2>1, <3>2 DEF CacheOK, CacheRight
    <3> QED
      BY <3>1, <3>2
  <2>5. QueryOK(w)'
    <3>1. hash'[w] = [hash[w] EXCEPT ![id] = v]
      BY <1>1, <2>1 DEF TypesOK, v
    <3> QED
      BY <1>1, <1>2, <2>2, <3>1
         DEF Answer, TypesOK, ErrAfter, Asking, Ids, QueryOK, PendingOK, BlockKnown, ParentKnown,
             FailedOK, Ended, Succeeded
  <2>6. ASSUME NEW u \in Queries, u # w PROVE QueryOK(u)'
    BY <1>1, <1>2, <2>1, <2>6, Undisturbed DEF IInv, TypesOK, Answer
  <2> QED
    BY <2>3, <2>4, <2>5, <2>6 DEF IInv
<1>3. CASE AnswerFails(w, id)
  <2>1. TypesOK'
    BY <1>1, <1>3 DEF AnswerFails, TypesOK, ErrAfter
  <2>2. CacheOK'
    BY <1>1, <1>3 DEF AnswerFails, CacheOK, CacheRight
  <2>3. QueryOK(w)'
    BY <1>1, <1>3
       DEF AnswerFails, TypesOK, ErrAfter, Asking, QueryOK, PendingOK, BlockKnown, ParentKnown,
           FailedOK, Ended, Succeeded
  <2>4. ASSUME NEW u \in Queries, u # w PROVE QueryOK(u)'
    BY <1>1, <1>3, <2>4, Undisturbed DEF IInv, TypesOK, AnswerFails
  <2> QED
    BY <2>1, <2>2, <2>3, <2>4 DEF IInv
<1> QED
  BY <1>2, <1>3

LEMMA ReturnStep ==
  ASSUME IInv, NEW w \in Queries, ReturnCached(w) \/ Return(w)
  PROVE  IInv'
<1>1. /\ TypesOK /\ CacheOK /\ QueryOK(w) /\ height[w] \in Heights
      /\ pending[w] = {} /\ pc[w] = "wait" /\ "wait" \in Asking
  BY DEF IInv, TypesOK, ReturnCached, Return, Asking
<1>2. /\ StandIn(w) \in [Ids -> Hashes \cup {Blank}]
      /\ StandIn(w)["block"] = hash[w]["block"]
      /\ height[w] > 0 => StandIn(w)["parent"] = hash[w]["parent"]
  BY <1>1, HashesAssumption DEF StandIn, TypesOK, Ids, Heights
<1>3. TypesOK'
  BY <1>1, <1>2 DEF ReturnCached, Return, Stop, TypesOK, PCs
<1>4. CacheOK'
  BY <1>1 DEF ReturnCached, Return, CacheOK, CacheRight
<1>5. QueryOK(w)'
  <2>1. height[w] \in Nat
    BY <1>1, HashesAssumption DEF Heights
  <2>2. /\ hash[w]["block"] \in {height[w], Null} \/ failed[w]
        /\ height[w] > 0 => hash[w]["parent"] \in {height[w] - 1, Null} \/ failed[w]
    BY <1>1, <2>1 DEF Asking, QueryOK, BlockKnown, ParentKnown
  <2>3. /\ pc'[w] = "done" /\ UNCHANGED <<height, pending, expected, failed>>
        /\ failed[w] => err'[w] /\ expected[w] # {}
        /\ hash'[w] \in {hash[w], StandIn(w)}
    BY <1>1 DEF ReturnCached, Return, Stop, TypesOK, QueryOK, FailedOK
  <2> QED
    BY <1>1, <1>2, <2>1, <2>2, <2>3
       DEF Asking, QueryOK, PendingOK, BlockKnown, ParentKnown, FailedOK, Ended, Succeeded
<1>6. ASSUME NEW v \in Queries, v # w PROVE QueryOK(v)'
  BY <1>1, <1>6, Undisturbed DEF IInv, TypesOK, ReturnCached, Return, Stop
<1> QED
  BY <1>3, <1>4, <1>5, <1>6 DEF IInv

-----------------------------------------------------------------------------
LEMMA InvInit == Init => IInv
<1> SUFFICES ASSUME Init PROVE IInv
  OBVIOUS
<1>1. CacheOK
  <2>1. DOMAIN cache = {}
    BY DEF Init
  <2> QED
    BY <2>1, FS_EmptySet, HashesAssumption DEF CacheOK, CacheRight
<1>2. TypesOK
  BY HashesAssumption DEF Init, TypesOK, PCs, Heights, Hashes
<1>3. ASSUME NEW w \in Queries PROVE QueryOK(w)
  BY DEF Init, Asking, QueryOK, PendingOK, BlockKnown, ParentKnown, FailedOK, Ended, Succeeded
<1> QED
  BY <1>1, <1>2, <1>3 DEF IInv

LEMMA ImportStep ==
  ASSUME IInv, NEW n \in Nodes, Import(n)
  PROVE  IInv'
<1>1. TypesOK /\ CacheOK
  BY DEF IInv
<1>2. TypesOK' /\ CacheOK'
  BY <1>1, HashesAssumption DEF Import, TypesOK, CacheOK, CacheRight, Heights
<1>3. ASSUME NEW v \in Queries PROVE QueryOK(v)'
  BY Undisturbed DEF IInv, Import
<1> QED
  BY <1>2, <1>3 DEF IInv

LEMMA InvStep == IInv /\ [Next]_vars => IInv'
<1> SUFFICES ASSUME IInv, [Next]_vars PROVE IInv'
  OBVIOUS
<1>1. CASE UNCHANGED vars
  <2>1. ASSUME NEW v \in Queries PROVE QueryOK(v)'
    BY <1>1, Undisturbed DEF IInv, vars
  <2> QED
    BY <1>1, <2>1 DEF IInv, vars, TypesOK, CacheOK, CacheRight
<1>2. ASSUME NEW w \in Queries, NEW id \in pending[w], Answer(w, id) \/ AnswerFails(w, id)
      PROVE  IInv'
  BY <1>2, AnswerStep
<1>3. ASSUME NEW n \in Nodes, Import(n) PROVE IInv'
  BY <1>3, ImportStep
<1> QED
  BY <1>1, <1>2, <1>3, StartStep, LatestStep, LookUpStep, ReturnStep DEF Next

\* What holds in every reachable state of the cache and the queries that share it.
THEOREM Invariance == Spec => []IInv
  BY InvInit, InvStep, PTL DEF Spec

-----------------------------------------------------------------------------
(* The theorems.                                                           *)

\* Every variable keeps its type, the cache its capacity (the LRU cache made
\* in NewClient), and no answer is awaited that was not asked for.
THEOREM TypeCorrect == Spec => []TypeOK
<1>1. IInv => TypeOK
  BY DEF IInv, TypesOK, CacheOK, TypeOK
<1> QED
  BY <1>1, Invariance, PTL

\* The cache never holds the hash of a block of another height, however many
\* calls of GetBlockHashes and getLatestHeight fill it.
THEOREM CacheIsRight == Spec => []CacheRight
<1>1. IInv => CacheRight
  BY DEF IInv, CacheOK
<1> QED
  BY <1>1, Invariance, PTL

\* A successful GetBlockHashes gives the hashes of the block and its parent.
THEOREM HashesAreRight == Spec => []BlockAndParentRight
<1>1. IInv => BlockAndParentRight
  BY DEF IInv, QueryOK, Ended, BlockAndParentRight
<1> QED
  BY <1>1, Invariance, PTL

\* An error in any answer GetBlockHashes reads is in what it returns.
THEOREM FailuresAreReported == Spec => []FailureReported
<1>1. IInv => FailureReported
  BY DEF IInv, QueryOK, FailedOK, FailureReported
<1> QED
  BY <1>1, Invariance, PTL
=============================================================================

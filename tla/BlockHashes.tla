----------------------------- MODULE BlockHashes -----------------------------
(***************************************************************************)
(* The block hash cache: GetBlockHashes and getLatestHeight,               *)
(* indexer/getBlock.go.  Many queries run at once; each looks up the       *)
(* hashes of a block, its parent and its grandparent in the LRU cache,     *)
(* asks for what is missing, and adds the hash of the block itself.        *)
(* Requests go to whichever node connection takes them, so the answers of  *)
(* one query may come from nodes that have seen different parts of the     *)
(* chain.  The hash of the block at height k is written k; an answer       *)
(* "null", which a node gives for a height it has not seen, loses its      *)
(* first and last character like any other and becomes the hash Null.      *)
(***************************************************************************)
EXTENDS Integers, FiniteSets

CONSTANTS Queries, Nodes, MaxHeight, CacheCap, Null, Blank

ASSUME HashesAssumption ==
  /\ MaxHeight \in Nat /\ CacheCap \in Nat \ {0}
  /\ Null \notin 0..MaxHeight /\ Blank \notin 0..MaxHeight /\ Blank # Null

VARIABLES
  best,    \* best[n]: the highest block node n knows
  cache,   \* BlockHashCache, a partial function from heights to hashes
  pc,      \* pc[w]: where query w stands
  height,  \* the height it is about
  hash,    \* its blockHash, parentHash and grandparentHash
  expected, \* the hashes it has asked for
  pending, \* those it still waits for
  err,     \* its err is set
  failed   \* one of its answers was an error (history)

vars == <<best, cache, pc, height, hash, expected, pending, err, failed>>

Heights == 0..MaxHeight
Hashes  == Heights \cup {Null}
Ids     == {"block", "parent", "grandparent"}
PCs     == {"idle", "head", "header", "lookup block", "lookup parent",
            "lookup grandparent", "wait", "done"}

Init ==
  /\ best = [n \in Nodes |-> 0]
  /\ cache = [k \in {} |-> Null]
  /\ pc = [w \in Queries |-> "idle"]
  /\ height = [w \in Queries |-> 0]
  /\ hash = [w \in Queries |-> [i \in Ids |-> Blank]]
  /\ expected = [w \in Queries |-> {}]
  /\ pending = [w \in Queries |-> {}]
  /\ err = [w \in Queries |-> FALSE]
  /\ failed = [w \in Queries |-> FALSE]

-----------------------------------------------------------------------------
(* Helpers.                                                                *)

\* Mutant of Add: an entry goes under the key of the parent.
AddBelow(k, v) ==
  LET b == IF k = 0 THEN 0 ELSE k - 1
  IN  cache' = [j \in DOMAIN cache \cup {b} |-> IF j = b THEN v ELSE cache[j]]

\* Mutant of Add: nothing is evicted.
AddAnyway(k, v) == cache' = [j \in DOMAIN cache \cup {k} |-> IF j = k THEN v ELSE cache[j]]

\* BlockHashCache.Add: a full cache loses some other entry.
Add(k, v) ==
  LET full == k \notin DOMAIN cache /\ Cardinality(DOMAIN cache) = CacheCap
  IN  \E lost \in IF full THEN DOMAIN cache ELSE {k} :
        cache' = [j \in (DOMAIN cache \ {lost}) \cup {k} |-> IF j = k THEN v ELSE cache[j]]

\* Mutant of ParentKey: off by one.
ParentKeySame(w) == height[w]

ParentKey(w) == height[w] - 1

\* The key the grandparent is looked up with is that of the parent ...
GrandparentKey(w) == height[w] - 1

\* ... but the height that is asked for when it is not there is its own.
Wanted(w, id) == CASE id = "block"       -> height[w]
                   [] id = "parent"      -> height[w] - 1
                   [] id = "grandparent" -> height[w] - 2

\* What a node says to chain_getBlockHash.
HashFrom(n, k) == IF k <= best[n] THEN k ELSE Null

\* One lookup: take the hash from the cache, or send the request.
LookUp(w, id, key, from, to) ==
  /\ pc[w] = from
  /\ IF key \in DOMAIN cache
       THEN /\ hash' = [hash EXCEPT ![w][id] = cache[key]]
            /\ UNCHANGED <<expected, pending>>
       ELSE /\ expected' = [expected EXCEPT ![w] = @ \cup {id}]
            /\ pending' = [pending EXCEPT ![w] = @ \cup {id}]
            /\ UNCHANGED hash
  /\ pc' = [pc EXCEPT ![w] = to]
  /\ UNCHANGED <<best, cache, height, err, failed>>

Stop(w, fails) == /\ pc' = [pc EXCEPT ![w] = "done"]
                  /\ err' = [err EXCEPT ![w] = fails]

-----------------------------------------------------------------------------
(* getLatestHeight.                                                        *)

\* A task or an HTTP request names its height or, with 0, the latest.
Start(w) ==
  /\ pc[w] \in {"idle", "done"}
  /\ \/ /\ pc' = [pc EXCEPT ![w] = "head"]
        /\ height' = [height EXCEPT ![w] = 0]
     \/ /\ pc' = [pc EXCEPT ![w] = "lookup block"]
        /\ \E k \in 1..MaxHeight : height' = [height EXCEPT ![w] = k]
  /\ hash' = [hash EXCEPT ![w] = [id \in Ids |-> Blank]]
  /\ expected' = [expected EXCEPT ![w] = {}]
  /\ err' = [err EXCEPT ![w] = FALSE]
  /\ failed' = [failed EXCEPT ![w] = FALSE]
  /\ UNCHANGED <<best, cache, pending>>

\* chain_getFinalizedHead: some node's finalized block.
Head(w) ==
  /\ pc[w] = "head"
  /\ \E n \in Nodes : \E k \in 0..best[n] : height' = [height EXCEPT ![w] = k]
  /\ pc' = [pc EXCEPT ![w] = "header"]
  /\ UNCHANGED <<best, cache, hash, expected, pending, err, failed>>

\* chain_getHeader, of a node that has the block: its number, and the cache
\* gets the hash.  GetLatestMark ends here.
Header(w) ==
  /\ pc[w] = "header"
  /\ \E n \in Nodes : height[w] <= best[n]
  /\ Add(height[w], height[w])
  /\ \E to \in {"lookup block", "idle"} : pc' = [pc EXCEPT ![w] = to]
  /\ UNCHANGED <<best, height, hash, expected, pending, err, failed>>

\* Either request fails, or the header is unknown to the node that was asked.
LatestFails(w) ==
  /\ pc[w] \in {"head", "header"}
  /\ Stop(w, TRUE)
  /\ UNCHANGED <<best, cache, height, hash, expected, pending, failed>>

-----------------------------------------------------------------------------
(* GetBlockHashes.                                                         *)

LookUpBlock(w) ==
  LookUp(w, "block", height[w], "lookup block",
         CASE height[w] = 0 -> "wait" [] OTHER -> "lookup parent")

LookUpParent(w) ==
  LookUp(w, "parent", ParentKey(w), "lookup parent",
         CASE height[w] = 1 -> "wait" [] OTHER -> "lookup grandparent")

LookUpGrandparent(w) ==
  LookUp(w, "grandparent", GrandparentKey(w), "lookup grandparent", "wait")

\* Mutant of ErrAfter: the last answer decides.
ErrOfLast(w, bad) == bad

ErrAfter(w, bad) == err[w] \/ bad

\* An answer is read, in any order; only the block's own hash is cached.
Answer(w, id) ==
  /\ pc[w] = "wait" /\ id \in pending[w]
  /\ pending' = [pending EXCEPT ![w] = @ \ {id}]
  /\ \E n \in Nodes :
       LET v == HashFrom(n, Wanted(w, id))
       IN  /\ hash' = [hash EXCEPT ![w][id] = v]
           /\ IF id = "block" THEN Add(height[w], v) ELSE UNCHANGED cache
  /\ err' = [err EXCEPT ![w] = ErrAfter(w, FALSE)]
  /\ UNCHANGED <<best, pc, height, expected, failed>>

\* An error, or a reply without a result.
AnswerFails(w, id) ==
  /\ pc[w] = "wait" /\ id \in pending[w]
  /\ pending' = [pending EXCEPT ![w] = @ \ {id}]
  /\ err' = [err EXCEPT ![w] = ErrAfter(w, TRUE)]
  /\ failed' = [failed EXCEPT ![w] = TRUE]
  /\ UNCHANGED <<best, cache, pc, height, hash, expected>>

\* Everything was in the cache: the function returns before the wait, and
\* before the ancestors that stand in below.
ReturnCached(w) ==
  /\ pc[w] = "wait" /\ expected[w] = {}
  /\ Stop(w, FALSE)
  /\ UNCHANGED <<best, cache, height, hash, expected, pending, failed>>

\* Where a block has no parent or grandparent its nearest ancestor stands in.
StandIn(w) ==
  CASE height[w] = 0 -> [id \in Ids |-> hash[w]["block"]]
    [] height[w] = 1 -> [hash[w] EXCEPT !["grandparent"] = hash[w]["parent"]]
    [] OTHER         -> hash[w]

Return(w) ==
  /\ pc[w] = "wait" /\ expected[w] # {} /\ pending[w] = {}
  /\ hash' = [hash EXCEPT ![w] = StandIn(w)]
  /\ Stop(w, err[w])
  /\ UNCHANGED <<best, cache, height, expected, pending, failed>>

-----------------------------------------------------------------------------
\* A node imports the next block; nodes are not in step with each other.
Import(n) ==
  /\ best[n] < MaxHeight
  /\ best' = [best EXCEPT ![n] = @ + 1]
  /\ UNCHANGED <<cache, pc, height, hash, expected, pending, err, failed>>

Next == \/ \E w \in Queries : \/ Start(w) \/ Head(w) \/ Header(w) \/ LatestFails(w)
                              \/ LookUpBlock(w) \/ LookUpParent(w) \/ LookUpGrandparent(w)
                              \/ ReturnCached(w) \/ Return(w)
                              \/ \E id \in pending[w] : Answer(w, id) \/ AnswerFails(w, id)
        \/ \E n \in Nodes : Import(n)

Spec == Init /\ [][Next]_vars

-----------------------------------------------------------------------------
(* Properties.                                                             *)

\* Types; a query waits only for what it has asked for.
TypeOK ==
  /\ best \in [Nodes -> Heights]
  /\ DOMAIN cache \subseteq Heights /\ Cardinality(DOMAIN cache) <= CacheCap
  /\ \A k \in DOMAIN cache : cache[k] \in Hashes
  /\ pc \in [Queries -> PCs]
  /\ height \in [Queries -> Heights]
  /\ hash \in [Queries -> [Ids -> Hashes \cup {Blank}]]
  /\ expected \in [Queries -> SUBSET Ids]
  /\ \A w \in Queries : pending[w] \subseteq expected[w]
  /\ err \in [Queries -> BOOLEAN] /\ failed \in [Queries -> BOOLEAN]

\* A query that came back with hashes.
Succeeded(w) == pc[w] = "done" /\ ~err[w]

\* No cached hash belongs to a block of another height, whichever queries fill
\* the cache at the same time and whatever is evicted meanwhile.
CacheRight == \A k \in DOMAIN cache : cache[k] \in {k, Null}

\* Where a successful query gives the hash of a block and of its parent, they
\* are those two blocks' hashes, from the cache or from any mixture of nodes.
BlockAndParentRight ==
  \A w \in Queries : Succeeded(w) =>
    /\ hash[w]["block"] \in {height[w], Null}
    /\ height[w] > 0 => hash[w]["parent"] \in {height[w] - 1, Null}

\* An error in one of the answers is reported, also when later ones are fine.
FailureReported == \A w \in Queries : pc[w] = "done" /\ failed[w] => err[w]

\* The third hash of a successful query is that of the grandparent, the one
\* the function asks the node for with RequestGrandparentBlockHash.
GrandparentRight ==
  \A w \in Queries : Succeeded(w) /\ height[w] > 1
    => hash[w]["grandparent"] \in {height[w] - 2, Null}

\* A query that ends without an error has a block hash that is one: a block
\* the node does not know makes it fail ("block hash is empty").
UnknownBlockFails == \A w \in Queries : Succeeded(w) => hash[w]["block"] # Null
=============================================================================

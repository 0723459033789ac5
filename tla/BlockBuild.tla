---------------------------- MODULE BlockBuild -----------------------------
(***************************************************************************)
(* What a block query (blockAndTx, indexer/getBlock.go) makes of the       *)
(* answers it gets, and what it shares with other queries of               *)
(* polkadot-worker: the storage of metadata decoders by runtime version    *)
(* (api/scale/scale.go) and the round robin over the connections to the    *)
(* proxies (proxy/conns.go), which balance queries (GetAccountBalance,     *)
(* proxy/client.go) use too.  How requests are answered, and which channel *)
(* a query reads, is the subject of RpcConn and RespChannels; the hashes   *)
(* it begins with are BlockHashes'.                                        *)
(*                                                                         *)
(* A query's base is the block it gets the runtime version and metadata    *)
(* of.  A block is executed by the runtime its parent's state has, but the *)
(* base is the grandparent, or the parent that is taken for it.            *)
(***************************************************************************)
EXTENDS EventMapper, Pairing, FiniteSets

CONSTANTS Queries,    \* calls of the two functions
          KindOf,     \* "block" or "balance" of each
          HeightsOf,  \* heights each may be for
          Proxies,    \* number of connections to proxies
          SpecOf,     \* the runtime version in the state of a block
          Block,      \* the extrinsics of a block: whether signed, which module
          Listing,    \* what the proxy answers: all extrinsics in order, some again
          EventsOf,   \* events it may answer with
          Modules,    \* names of modules
          Fields,     \* what getOthers asks for
          None        \* no decoder, no event

Heights  == DOMAIN SpecOf
Versions == {SpecOf[h] : h \in Heights}

ASSUME QueriesAssumption ==
  /\ KindOf \in [Queries -> {"block", "balance"}]
  /\ \A q \in Queries : HeightsOf[q] \subseteq Nat \ {0}
ASSUME ProxiesAssumption == Proxies \in Nat \ {0}
ASSUME FieldsAssumption == {"block", "version"} \subseteq Fields
ASSUME BlockAssumption ==
  \A q \in Queries : KindOf[q] = "block" =>
    \A h \in HeightsOf[q] : Block[h] \in Seq([signed : BOOLEAN, module : Modules])
ASSUME ListingAssumption ==
  \A q \in Queries : KindOf[q] = "block" =>
    \A h \in HeightsOf[q] : /\ Unique(Listing[h]) = [k \in DOMAIN Block[h] |-> k]
                            /\ Listing[h] = <<>> => Block[h] = <<>>
ASSUME EventsAssumption ==
  \A q \in Queries : KindOf[q] = "block" => \A h \in HeightsOf[q] : EventsOf[h] \subseteq Events
ASSUME VersionsAssumption == 0 \in Heights /\ None \notin Versions

VARIABLES added,      \* GRPConnections.len
          next,       \* GRPConnections.next
          calls,      \* how often each connection has been chosen
          decoders,   \* DecodeStorage.decoders: the version a decoder's metadata is of
          at,         \* where a query is
          height, base,
          waiting,    \* answers getOthers waits for
          block,      \* what it has of the block
          named,      \* whether prm names the chain's runtime
          err,        \* its err
          decoder,    \* the decoder a query uses
          seen,       \* the modules it has read with it
          ids,        \* the transactions it returns
          event,      \* an event of the block, and what it is mapped to
          crashed     \* the process has panicked

shared  == <<added, next, calls, decoders>>
answers == <<waiting, block, named, err>>
vars    == <<shared, at, height, base, answers, decoder, seen, ids, event, crashed>>

TypeOK ==
  /\ added \in 0..Proxies /\ next \in 0..(Proxies - 1)
  /\ calls \in [0..(Proxies - 1) -> Nat]
  /\ decoders \in [Versions -> Versions \cup {None}]
  /\ at \in [Queries -> {"idle", "others", "lookup", "fetch", "decode", "proxy",
                         "done", "failed", "hung"}]
  /\ height \in [Queries -> Nat] /\ base \in [Queries -> Heights]
  /\ waiting \in [Queries -> SUBSET Fields]
  /\ block \in [Queries -> {"missing", "null", "unread", "read"}]
  /\ named \in [Queries -> BOOLEAN] /\ err \in [Queries -> BOOLEAN]
  /\ decoder \in [Queries -> Versions \cup {None}]
  /\ \A q \in Queries : at[q] = "others" => waiting[q] # {}
  /\ crashed \in BOOLEAN

Init ==
  /\ added = 0 /\ next = 0
  /\ calls = [i \in 0..(Proxies - 1) |-> 0]
  /\ decoders = [v \in Versions |-> None]
  /\ at = [q \in Queries |-> "idle"]
  /\ height = [q \in Queries |-> 0] /\ base = [q \in Queries |-> 0]
  /\ waiting = [q \in Queries |-> {}] /\ block = [q \in Queries |-> "missing"]
  /\ named = [q \in Queries |-> FALSE] /\ err = [q \in Queries |-> FALSE]
  /\ decoder = [q \in Queries |-> None] /\ seen = [q \in Queries |-> <<>>]
  /\ ids = [q \in Queries |-> <<>>] /\ event = [q \in Queries |-> None]
  /\ crashed = FALSE

Goto(q, place) == at' = [at EXCEPT ![q] = place]

-----------------------------------------------------------------------------
(* The connections to the proxies.                                         *)

\* main adds one connection for each address it has been given, which are
\* one at least, before anything else runs.
Add == /\ added < Proxies
       /\ added' = added + 1
       /\ UNCHANGED <<next, calls, decoders, at, height, base, answers, decoder, seen, ids, event, crashed>>

\* Mutant of Inc: goes back to the first one step too late.
IncPastEnd == IF next = added THEN 0 ELSE next + 1

\* Mutant of Inc: goes back one step too soon.
IncBeforeEnd == IF next + 2 >= added THEN 0 ELSE next + 1

Inc == IF next = added - 1 THEN 0 ELSE next + 1

\* The six GetNext...Client are alike, each one step under the lock.
GetNext == /\ calls' = [calls EXCEPT ![next] = @ + 1]
           /\ next' = Inc
           /\ UNCHANGED added

-----------------------------------------------------------------------------
(* The answers a query is built from.                                      *)

\* The hashes are known and the requests have been sent.
Begin(q) ==
  /\ at[q] = "idle" /\ added = Proxies /\ KindOf[q] = "block"
  /\ \E h \in HeightsOf[q] : \E b \in Heights \cap {h - 1, h - 2} :
       /\ height' = [height EXCEPT ![q] = h]
       /\ base' = [base EXCEPT ![q] = b]
  /\ waiting' = [waiting EXCEPT ![q] = Fields]
  /\ Goto(q, "others")
  /\ UNCHANGED <<shared, block, named, err, decoder, seen, ids, event, crashed>>

\* An error is dropped, but after the last answer getOthers waits for more.
Dropped(q, f) ==
  /\ waiting' = [waiting EXCEPT ![q] = @ \ {f}]
  /\ Goto(q, IF waiting[q] = {f} THEN "hung" ELSE "others")
  /\ UNCHANGED <<block, named, err>>

\* err is what the block or the version gave last.
ErrAfter(q, f, r) == IF f \in {"block", "version"} THEN r \in {"bad", "part"} ELSE err[q]

\* The result null leaves what it is read into as it is; a block of which
\* something cannot be read ("bad", "part") may be read in part.
Read(r) == CASE r = "null" -> "null" [] r = "bad" -> "unread" [] OTHER -> "read"

Used(q, f, r) ==
  /\ waiting' = [waiting EXCEPT ![q] = @ \ {f}]
  /\ block' = [block EXCEPT ![q] = IF f = "block" THEN Read(r) ELSE @]
  /\ named' = [named EXCEPT ![q] = IF f = "version" THEN r = "ok" ELSE @]
  /\ err' = [err EXCEPT ![q] = ErrAfter(q, f, r)]
  /\ Goto(q, IF waiting[q] # {f} THEN "others"
             ELSE IF ErrAfter(q, f, r) THEN "failed" ELSE "lookup")

Results(f) == CASE f = "block"   -> {"ok", "null", "bad", "part"}
                [] f = "version" -> {"ok", "null"}
                [] OTHER         -> {"ok"}

OthersAnswer(q, f) ==
  /\ at[q] = "others" /\ f \in waiting[q]
  /\ \/ Dropped(q, f)
     \/ \E r \in Results(f) : Used(q, f, r)
  /\ UNCHANGED <<shared, height, base, decoder, seen, ids, event, crashed>>

-----------------------------------------------------------------------------
(* The metadata decoders.                                                  *)

Version(q) == SpecOf[base[q]]

\* A runtime of another name than the chain's is refused.
GetMDecoder(q) == IF named[q] THEN {decoders[Version(q)]} ELSE {}

LookUp(q) ==
  /\ at[q] = "lookup"
  /\ \/ /\ GetMDecoder(q) = {}
        /\ Goto(q, "failed") /\ UNCHANGED decoder
     \/ \E found \in GetMDecoder(q) :
          /\ Goto(q, IF found = None THEN "fetch" ELSE "decode")
          /\ decoder' = [decoder EXCEPT ![q] = found]
  /\ UNCHANGED <<shared, height, base, answers, seen, ids, event, crashed>>

\* Mutant of MetadataOf: of the block that is queried.
MetadataOfBlock(q) == SpecOf[height[q]]

MetadataOf(q) == SpecOf[base[q]]

SetMetadataDecoder(v, metadata) == decoders' = [decoders EXCEPT ![v] = metadata]

\* The metadata has come; others may have stored theirs meanwhile.
Fetch(q) ==
  /\ at[q] = "fetch"
  /\ SetMetadataDecoder(Version(q), MetadataOf(q))
  /\ decoder' = [decoder EXCEPT ![q] = MetadataOf(q)]
  /\ Goto(q, "decode")
  /\ UNCHANGED <<added, next, calls, height, base, answers, seen, ids, event, crashed>>

-----------------------------------------------------------------------------
(* The transactions of a block.                                            *)

Executing(q) == SpecOf[height[q] - 1]

Raw(q) == IF block[q] = "read" THEN Block[height[q]] ELSE <<>>

\* What the decoder may take the extrinsics' modules for: with the metadata of
\* another runtime than the block's, anything.
Seen(q) == IF decoder[q] = Executing(q)
             THEN {[k \in DOMAIN Raw(q) |-> Raw(q)[k].module]}
             ELSE [DOMAIN Raw(q) -> Modules]

\* DecodeData as far as its call, for which there is no rate limiter.
DecodeData(q) == GetNext /\ Goto(q, "proxy")

Decode(q) ==
  /\ at[q] = "decode"
  /\ seen' \in {[seen EXCEPT ![q] = s] : s \in Seen(q)}
  /\ DecodeData(q)
  /\ UNCHANGED <<decoders, height, base, answers, decoder, ids, event, crashed>>

\* GetAccountBalance once the rate limiter lets it pass, and its answer.
GetAccountBalance(q) ==
  /\ at[q] = "idle" /\ added = Proxies /\ KindOf[q] = "balance"
  /\ GetNext /\ Goto(q, "proxy")
  /\ UNCHANGED <<decoders, height, base, answers, decoder, seen, ids, event, crashed>>

Balance(q) ==
  /\ at[q] = "proxy" /\ KindOf[q] = "balance"
  /\ Goto(q, "done")
  /\ UNCHANGED <<shared, height, base, answers, decoder, seen, ids, event, crashed>>

\* The proxy has decoded the block, which it can only when it was sent one;
\* an event that cannot be mapped loses the block, or the process.
Decoded(q) ==
  /\ at[q] = "proxy" /\ KindOf[q] = "block" /\ block[q] \in {"unread", "read"}
  /\ LET listing == Listing[height[q]]
     IN  IF listing = <<>>
           THEN Goto(q, "done") /\ UNCHANGED <<ids, event, crashed>>
           ELSE \E e \in EventsOf[height[q]] :
                  LET mapped == getEvent(e)
                  IN  /\ event' = [event EXCEPT ![q] = [of |-> e, as |-> mapped]]
                      /\ crashed' = (mapped.status = "panic")
                      /\ IF mapped.status = "ok"
                           THEN /\ Goto(q, "done")
                                /\ ids' = [ids EXCEPT ![q] =
                                     Paired(Block[height[q]], Raw(q), seen[q], listing)]
                           ELSE Goto(q, "failed") /\ UNCHANGED ids
  /\ seen' = [seen EXCEPT ![q] = <<>>]
  /\ UNCHANGED <<shared, height, base, answers, decoder>>

\* Hashes that are not known, a Send or a rate limiter that refuses, an error
\* for an answer, what cannot be decoded or mapped.
QueryFails(q) ==
  /\ added = Proxies /\ at[q] \in {"idle", "fetch", "decode", "proxy"}
  /\ Goto(q, "failed")
  /\ UNCHANGED <<shared, height, base, answers, decoder, seen, ids, event, crashed>>

Step(q) ==
  /\ ~crashed
  /\ \/ Begin(q) \/ LookUp(q) \/ Fetch(q) \/ Decode(q)
     \/ GetAccountBalance(q) \/ Balance(q) \/ Decoded(q) \/ QueryFails(q)
     \/ \E f \in Fields : OthersAnswer(q, f)

Next == Add \/ \E q \in Queries : Step(q)

Spec == Init /\ [][Next]_vars

-----------------------------------------------------------------------------
(* Properties                                                              *)

\* However queries interleave, what is stored for a version is the metadata
\* of that version, and a query decodes, and has the proxy decode, with that
\* of the runtime version it was told (GetMetadata).
DecoderOfVersion ==
  /\ \A v \in Versions : decoders[v] \in {None, v}
  /\ \A q \in Queries : decoder[q] \in {None, Version(q)}

ReturnedRight(q) ==
  /\ Len(ids[q]) = Len(Block[height[q]])
  /\ \A k \in DOMAIN ids[q] :
       IF block[q] = "read"
         THEN \/ ids[q][k] = k
              \/ ids[q][k] = NoID /\ ~Block[height[q]][k].signed /\ decoder[q] # Executing(q)
         ELSE ids[q][k] = Zero

\* Transactions are returned for all extrinsics of the block, each under the
\* number of its extrinsic, save unsigned ones that were decoded with the
\* metadata of another runtime, whose events may be left without an ID.  If
\* the worker itself read nothing of the block, they are all blank.
TransactionsRight ==
  \A q \in Queries : at[q] = "done" /\ KindOf[q] = "block" => ReturnedRight(q)

\* Whoever calls, and however often, no connection gets two calls more than
\* another (GRPConnections).
EvenlyUsed == \A i, j \in 0..(Proxies - 1) : calls[i] <= calls[j] + 1

\* An event's amounts, parties, sender and recipient are those of its
\* description, whatever the order and kinds of its data (getEvent).
EventsRight == \A q \in Queries : event[q] # None => MapsRight(event[q].of, event[q].as)
=============================================================================

----------------------------- MODULE TaskStream -----------------------------
(***************************************************************************)
(* Client.RegisterStream, Run and the task handlers (indexer/client.go):   *)
(* managers give tasks over streams, each served by goroutines of its own, *)
(* and get responses.  A range of heights is fetched by concurrent calls   *)
(* of BlockAndTx, which store what they fetch, first the block and then    *)
(* its transactions.  The range requester, the streams and the store are   *)
(* libraries.  What blockAndTx does with the nodes is in RespChannels;     *)
(* here it succeeds, fails or hangs.                                       *)
(***************************************************************************)
EXTENDS Naturals, Sequences

CONSTANTS
  Streams, Tasks, Heights,
  Workers,  \* the goroutines of all streams (40 each)
  StreamOf, \* the stream each of them serves
  HasTxs,   \* the heights whose block has transactions
  Requests  \* what each task may ask for

Types == {"balance", "latest", "range", "unknown"}

ASSUME StreamAssumption ==
  /\ HasTxs \subseteq Heights
  /\ StreamOf \in [Workers -> Streams]
  /\ Requests \in [Tasks -> SUBSET [type : Types, readable : BOOLEAN, heights : SUBSET Heights]]
  /\ Tasks \cap {"new", "idle", "returned"} = {}

\* RegisterStream starts goroutines for every stream.
ASSUME ServedAssumption == \A s \in Streams : \E g \in Workers : StreamOf[g] = s

VARIABLES
  request,   \* what each task asks for, and the stream it comes from
  at,        \* where each task is
  responses, \* the calls of stream.Send for each task
  streams,   \* the registered streams
  ctxDone,   \* streams whose context is cancelled
  finished,  \* streams whose channel Finish is closed
  worker,    \* each goroutine: "new", "idle", "returned" or its task
  call,      \* BlockAndTx for a task and a height
  blocks, txs \* the heights whose blocks and transactions the store has

taskVars   == <<at, responses>>
streamVars == <<streams, ctxDone, finished>>
store      == <<blocks, txs>>
vars == <<request, taskVars, streamVars, worker, call, store>>

\* A range of heights that is empty starts above its end.
BadRange(t) == request[t].type = "range" /\ request[t].heights = {}

\* Tasks answered with an error before anything is asked for.
Refused(t) ==
  \/ request[t].type = "unknown"
  \/ ~request[t].readable /\ request[t].type # "latest"
  \/ BadRange(t)

\* Mutant of RequestListener: the listener is closed with the stream and gives zero tasks.
ClosedListener(s) ==
  {t \in Tasks : at[t] = "queued" /\ request[t].from = s}
    \cup IF s \in finished THEN {"zero"} ELSE {}

\* The tasks Run may receive from a stream.
RequestListener(s) == {t \in Tasks : at[t] = "queued" /\ request[t].from = s}

\* The goroutines of a stream.
Of(s) == {g \in Workers : StreamOf[g] = s}

Started(s) == \A g \in Of(s) : worker[g] # "new"

Init ==
  /\ request \in [Tasks -> [type : Types, readable : BOOLEAN,
                            heights : SUBSET Heights, from : Streams]]
  /\ \A t \in Tasks : [type |-> request[t].type, readable |-> request[t].readable,
                       heights |-> request[t].heights] \in Requests[t]
  /\ at = [t \in Tasks |-> "new"] /\ responses = [t \in Tasks |-> <<>>]
  /\ streams = {} /\ ctxDone = {} /\ finished = {}
  /\ worker = [g \in Workers |-> "new"]
  /\ call = [t \in Tasks |-> [h \in Heights |-> "none"]]
  /\ blocks = {} /\ txs = {}

-----------------------------------------------------------------------------
(* The streams, driven by the manager and its library.                     *)

RegisterStream(s) ==
  /\ \A g \in Of(s) : worker[g] = "new"
  /\ streams' = streams \cup {s}
  /\ worker' = [g \in Workers |-> IF g \in Of(s) THEN "idle" ELSE worker[g]]
  /\ UNCHANGED <<request, taskVars, ctxDone, finished, call, store>>

\* The goroutines go on: only Finish and the context stop them.
CloseStream(s) ==
  /\ s \in streams
  /\ streams' = streams \ {s}
  /\ UNCHANGED <<request, taskVars, ctxDone, finished, worker, call, store>>

Submit(t) ==
  /\ at[t] = "new" /\ Started(request[t].from) /\ request[t].from \notin finished
  /\ at' = [at EXCEPT ![t] = "queued"]
  /\ UNCHANGED <<request, responses, streamVars, worker, call, store>>

CtxCancelled(s) ==
  /\ Started(s) /\ s \notin ctxDone
  /\ ctxDone' = ctxDone \cup {s}
  /\ UNCHANGED <<request, taskVars, streams, finished, worker, call, store>>

Finish(s) ==
  /\ Started(s) /\ s \notin finished
  /\ finished' = finished \cup {s}
  /\ UNCHANGED <<request, taskVars, streams, ctxDone, worker, call, store>>

-----------------------------------------------------------------------------
(* Run: its select takes any case that is ready.                           *)

\* Mutant of RunCtxDone: Run returns without removing the stream.
RunJustReturns(g) ==
  /\ worker[g] = "idle" /\ StreamOf[g] \in ctxDone
  /\ worker' = [worker EXCEPT ![g] = "returned"]
  /\ UNCHANGED <<request, taskVars, streamVars, call, store>>

RunCtxDone(g) ==
  /\ worker[g] = "idle" /\ StreamOf[g] \in ctxDone
  /\ streams' = streams \ {StreamOf[g]}
  /\ worker' = [worker EXCEPT ![g] = "returned"]
  /\ UNCHANGED <<request, taskVars, ctxDone, finished, call, store>>

\* Mutant of RunFinish: Run does not look at Finish.
NoFinish(g) == FALSE

RunFinish(g) ==
  /\ worker[g] = "idle" /\ StreamOf[g] \in finished
  /\ worker' = [worker EXCEPT ![g] = "returned"]
  /\ UNCHANGED <<request, taskVars, streamVars, call, store>>

RunReceives(g) ==
  /\ worker[g] = "idle"
  /\ \E t \in RequestListener(StreamOf[g]) :
       /\ worker' = [worker EXCEPT ![g] = t]
       /\ at' = [at EXCEPT ![t] = "handle"]
  /\ UNCHANGED <<request, responses, streamVars, call, store>>

-----------------------------------------------------------------------------
(* The handlers.  An error of Send is only logged.                         *)

Send(g, t, error, heights) ==
  responses' = [responses EXCEPT ![t] =
                  Append(@, [to |-> StreamOf[g], error |-> error, heights |-> heights])]

\* The last Send of a handler, after which Run listens again.
SendAndReturn(g, error, heights) ==
  /\ Send(g, worker[g], error, heights)
  /\ at' = [at EXCEPT ![worker[g]] = "over"]
  /\ worker' = [worker EXCEPT ![g] = "idle"]
  /\ UNCHANGED <<request, streamVars, call, store>>

\* The goroutine is in the handler of a task of this type.
Handles(g, stage, type) ==
  /\ worker[g] \in Tasks
  /\ at[worker[g]] = stage /\ request[worker[g]].type = type

\* Mutant of Refuse: an unreadable task is answered and then handled all the same.
RefuseAndGoOn(g) ==
  /\ worker[g] \in Tasks /\ at[worker[g]] = "handle" /\ Refused(worker[g])
  /\ Send(g, worker[g], TRUE, {})
  /\ at' = [at EXCEPT ![worker[g]] = "range"]
  /\ UNCHANGED <<request, streamVars, worker, call, store>>

Refuse(g) ==
  /\ worker[g] \in Tasks /\ at[worker[g]] = "handle" /\ Refused(worker[g])
  /\ SendAndReturn(g, TRUE, {})

\* The proxy and the mapper answer, or one of them fails.
GetAccountBalance(g) ==
  /\ Handles(g, "handle", "balance") /\ ~Refused(worker[g])
  /\ \E error \in BOOLEAN : SendAndReturn(g, error, {})

\* A payload that cannot be read is reported, and the height asked for all
\* the same.
LatestRequest(g) ==
  /\ Handles(g, "handle", "latest")
  /\ IF request[worker[g]].readable
     THEN UNCHANGED responses
     ELSE Send(g, worker[g], TRUE, {})
  /\ at' = [at EXCEPT ![worker[g]] = "latest"]
  /\ UNCHANGED <<request, streamVars, worker, call, store>>

LatestHeight(g) ==
  /\ Handles(g, "latest", "latest")
  /\ \E error \in BOOLEAN : SendAndReturn(g, error, {})

\* conn.Send waits for a connection, without a timeout and whatever becomes of
\* the task's context: if none ever comes the handler never returns.  (If one
\* comes after a while, this is a late LatestHeight.)
LatestHangs(g) ==
  /\ Handles(g, "latest", "latest")
  /\ at' = [at EXCEPT ![worker[g]] = "hung"]
  /\ UNCHANGED <<request, responses, streamVars, worker, call, store>>

GetTransactions(g) ==
  /\ Handles(g, "handle", "range") /\ ~Refused(worker[g])
  /\ at' = [at EXCEPT ![worker[g]] = "range"]
  /\ UNCHANGED <<request, responses, streamVars, worker, call, store>>

-----------------------------------------------------------------------------
(* GetRange calls BlockAndTx for the heights of its range concurrently and *)
(* returns the heights that succeeded, and an error if one did not.        *)

Fetched(t) == {h \in Heights : call[t][h] = "ok"}
Failed(t)  == {h \in Heights : call[t][h] = "error"}
Busy(t)    == {h \in Heights : call[t][h] \in {"fetch", "blocks", "txs", "hung"}}

CallHeight(t, h) ==
  /\ at[t] = "range" /\ h \in request[t].heights /\ call[t][h] = "none"
  /\ call' = [call EXCEPT ![t][h] = "fetch"]
  /\ UNCHANGED <<request, taskVars, streamVars, worker, store>>

RangeDone(g) ==
  /\ Handles(g, "range", "range")
  /\ Fetched(worker[g]) = request[worker[g]].heights
  /\ SendAndReturn(g, FALSE, Fetched(worker[g]))

\* Mutant of RangeFails: a range gives up only when all its heights have failed.
FailedRangeWaits(g) ==
  /\ Handles(g, "range", "range")
  /\ Failed(worker[g]) = request[worker[g]].heights
  /\ SendAndReturn(g, TRUE, Fetched(worker[g]))

RangeFails(g) ==
  /\ Handles(g, "range", "range")
  /\ Failed(worker[g]) # {} /\ Busy(worker[g]) = {}
  /\ SendAndReturn(g, TRUE, Fetched(worker[g]))

\* The context of the task ends, after 40 minutes or with its stream.  The
\* calls in progress may outlive their range.
RangeAbandoned(g) ==
  /\ Handles(g, "range", "range")
  /\ SendAndReturn(g, TRUE, Fetched(worker[g]))

-----------------------------------------------------------------------------
(* BlockAndTx.  A store call that reports an error may have had its effect.*)

SetCall(t, h, to) ==
  /\ call' = [call EXCEPT ![t][h] = to]
  /\ UNCHANGED <<request, taskVars, streamVars, worker>>

\* The block and its transactions are fetched and the store gives a
\* session, or one of these fails.
Fetch(t, h) ==
  /\ call[t][h] = "fetch"
  /\ \E to \in {"blocks", "error"} : SetCall(t, h, to)
  /\ UNCHANGED store

\* getOthers waits for an answer that does not come, or conn.Send for a
\* connection.
FetchHangs(t, h) ==
  /\ call[t][h] = "fetch"
  /\ SetCall(t, h, "hung")
  /\ UNCHANGED store

StoreBlocks(t, h) ==
  /\ call[t][h] = "blocks"
  /\ blocks' = blocks \cup {h}
  /\ SetCall(t, h, IF h \in HasTxs THEN "txs" ELSE "ok")
  /\ UNCHANGED txs

StoreBlocksFails(t, h) ==
  /\ call[t][h] = "blocks"
  /\ blocks' \in {blocks, blocks \cup {h}}
  /\ SetCall(t, h, "error")
  /\ UNCHANGED txs

StoreTransactions(t, h) ==
  /\ call[t][h] = "txs"
  /\ txs' = txs \cup {h}
  /\ SetCall(t, h, "ok")
  /\ UNCHANGED blocks

\* Mutant of StoreTransactionsFails: a failed StoreTransactions is logged and not returned.
StoreTransactionsIgnored(t, h) ==
  /\ call[t][h] = "txs"
  /\ txs' \in {txs, txs \cup {h}}
  /\ SetCall(t, h, "ok")
  /\ UNCHANGED blocks

StoreTransactionsFails(t, h) ==
  /\ call[t][h] = "txs"
  /\ txs' \in {txs, txs \cup {h}}
  /\ SetCall(t, h, "error")
  /\ UNCHANGED blocks

-----------------------------------------------------------------------------
BlockAndTx(t, h) ==
  \/ Fetch(t, h)
  \/ StoreBlocks(t, h) \/ StoreBlocksFails(t, h)
  \/ StoreTransactions(t, h) \/ StoreTransactionsFails(t, h)

Run(g) ==
  \/ RunCtxDone(g) \/ RunFinish(g) \/ RunReceives(g)
  \/ Refuse(g) \/ GetAccountBalance(g)
  \/ LatestRequest(g) \/ LatestHeight(g)
  \/ GetTransactions(g) \/ RangeDone(g) \/ RangeFails(g)

Manager ==
  \/ \E s \in Streams : RegisterStream(s) \/ CloseStream(s) \/ CtxCancelled(s) \/ Finish(s)
  \/ \E t \in Tasks : Submit(t)

Next ==
  \/ Manager
  \/ \E g \in Workers : Run(g) \/ RangeAbandoned(g) \/ LatestHangs(g)
  \/ \E t \in Tasks, h \in Heights : CallHeight(t, h) \/ BlockAndTx(t, h) \/ FetchHangs(t, h)

Spec == Init /\ [][Next]_vars

\* Every goroutine runs; a query that hangs is not obliged to go on, and none
\* is obliged not to hang: nothing is assumed of the connections.
Fairness ==
  /\ \A g \in Workers : WF_vars(Run(g))
  /\ \A t \in Tasks, h \in Heights : WF_vars(CallHeight(t, h) \/ BlockAndTx(t, h))

FairSpec == Spec /\ Fairness

-----------------------------------------------------------------------------
(* Properties.                                                             *)

Stages    == {"new", "queued", "handle", "latest", "range", "hung", "over"}
CallSteps == {"none", "fetch", "blocks", "txs", "ok", "error", "hung"}
Responses == [to : Streams, error : BOOLEAN, heights : SUBSET Heights]

\* Types: whatever Run receives is a task that a manager gave.
TypeOK ==
  /\ request \in [Tasks -> [type : Types, readable : BOOLEAN,
                            heights : SUBSET Heights, from : Streams]]
  /\ at \in [Tasks -> Stages] /\ responses \in [Tasks -> Seq(Responses)]
  /\ streams \subseteq Streams /\ ctxDone \subseteq Streams /\ finished \subseteq Streams
  /\ worker \in [Workers -> {"new", "idle", "returned"} \cup Tasks]
  /\ call \in [Tasks -> [Heights -> CallSteps]]
  /\ blocks \subseteq Heights /\ txs \subseteq Heights

Stored(h) == h \in blocks /\ (h \in HasTxs => h \in txs)

\* Heights are stored before a manager is told of them, with their
\* transactions, and a response to GetTransactions without an error means
\* the whole range: whatever store calls failed, whichever ranges overlap,
\* whatever was stored by halves before (BlockAndTx).
ReportedIsStored ==
  \A t \in Tasks : \A i \in DOMAIN responses[t] :
    /\ \A h \in responses[t][i].heights : Stored(h)
    /\ request[t].type = "range" /\ ~responses[t][i].error
         => responses[t][i].heights = request[t].heights

\* A reader of the store never finds transactions whose block is missing:
\* BlockAndTx stores the block first and stops if that fails.
NoOrphanTransactions == txs \subseteq blocks

\* No two goroutines ever have the same task, and one has it exactly from
\* when Run receives it until its handler returns.
OneHandler ==
  /\ \A a, b \in Workers : worker[a] \in Tasks /\ worker[a] = worker[b] => a = b
  /\ \A t \in Tasks : at[t] \in {"handle", "latest", "range", "hung"}
                       <=> \E a \in Workers : worker[a] = t

\* Every response is sent as the final one: a task gets at most one.
OneFinalResponse == \A t \in Tasks : Len(responses[t]) <= 1

\* The same but for a latest mark that cannot be read, which gets two; and a
\* handler that has returned has answered.
FinalResponses ==
  \A t \in Tasks :
    /\ (request[t].type # "latest" \/ request[t].readable) => Len(responses[t]) <= 1
    /\ Len(responses[t]) <= 2
    /\ at[t] = "over" => responses[t] # <<>>

\* A stream that is still registered when its goroutines are gone was
\* finished by the other side, which then calls CloseStream.
LeftoverIsFinished ==
  \A s \in streams : (\A g \in Of(s) : worker[g] = "returned") => s \in finished

\* How far a call of BlockAndTx has come is how much the store has.
CallInv ==
  \A t \in Tasks, h \in Heights :
    /\ call[t][h] = "txs" => h \in blocks
    /\ call[t][h] = "ok" => Stored(h)

\* How far a handler has come is how often it has answered.
AnswerInv ==
  \A t \in Tasks :
    /\ at[t] \in {"new", "queued", "handle", "range"} => Len(responses[t]) = 0
    /\ at[t] \in {"latest", "hung"} =>
         /\ Len(responses[t]) = IF request[t].readable THEN 0 ELSE 1
         /\ request[t].type = "latest"
    /\ at[t] = "over" =>
         \/ Len(responses[t]) = 1
         \/ Len(responses[t]) = 2 /\ request[t].type = "latest" /\ ~request[t].readable

\* What makes the properties inductive (TaskStreamProofs).
StreamInv == CallInv /\ AnswerInv /\ OneHandler /\ ReportedIsStored

\* A query of the task waits, perhaps for ever: a latest mark for a connection,
\* a range for one or for an answer.
Hangs(t) == at[t] = "hung" \/ \E h \in Heights : call[t][h] = "hung"
HungUp(g) == worker[g] \in Tasks /\ Hangs(worker[g])

\* A task put on a stream is answered, unless the stream ends, a query of
\* its own hangs (GetLatestMark or BlockAndTx, in conn.Send or getOthers), or
\* hanging queries hold every goroutine of the stream.
TasksAnswered ==
  \A t \in Tasks :
    at[t] = "queued" ~> \/ responses[t] # <<>>
                        \/ request[t].from \in ctxDone \cup finished
                        \/ Hangs(t)
                        \/ \A g \in Of(request[t].from) : HungUp(g)

\* When a stream ends its goroutines return, one by one as their handlers
\* do, but for those that hanging queries hold: a range is given up with its
\* context, a latest mark that waits in conn.Send is not.
GoroutinesReturn ==
  \A s \in Streams : s \in ctxDone \cup finished ~>
    \A g \in Of(s) : worker[g] = "returned" \/ HungUp(g)

=============================================================================

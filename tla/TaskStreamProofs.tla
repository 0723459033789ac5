-------------------------- MODULE TaskStreamProofs --------------------------
(***************************************************************************)
(* What is proved of TaskStream for any number of streams, goroutines,     *)
(* tasks and heights, whatever the store does.                             *)
(***************************************************************************)
EXTENDS TaskStream, TLAPS

\* Types of Send and of a handler's return.
LEMMA SendType ==
  ASSUME TypeOK, NEW g \in Workers, NEW t \in Tasks, NEW error \in BOOLEAN,
         NEW hs \in SUBSET Heights, Send(g, t, error, hs)
  PROVE  responses' \in [Tasks -> Seq(Responses)]
<1> DEFINE r == [to |-> StreamOf[g], error |-> error, heights |-> hs]
<1>1. r \in Responses
  BY StreamAssumption DEF Responses
<1>2. Append(responses[t], r) \in Seq(Responses)
  BY <1>1 DEF TypeOK
<1> QED
  BY <1>2 DEF Send, TypeOK

LEMMA ReturnType ==
  ASSUME TypeOK, NEW g \in Workers, worker[g] \in Tasks,
         NEW error \in BOOLEAN, NEW hs \in SUBSET Heights, SendAndReturn(g, error, hs)
  PROVE  TypeOK'
<1>1. responses' \in [Tasks -> Seq(Responses)]
  BY SendType DEF SendAndReturn
<1> QED
  BY <1>1 DEF SendAndReturn, TypeOK, Stages, streamVars, store

\* A call of BlockAndTx moves on, and what it stores is a height.
LEMMA CallType ==
  ASSUME TypeOK, NEW t \in Tasks, NEW h \in Heights, NEW to \in CallSteps, SetCall(t, h, to),
         blocks' \subseteq blocks \cup {h}, txs' \subseteq txs \cup {h}
  PROVE  TypeOK'
  BY DEF SetCall, TypeOK, taskVars, streamVars

\* The steps of Run and its handlers keep the types.
LEMMA RunType ==
  ASSUME TypeOK, NEW g \in Workers,
         Run(g) \/ RangeAbandoned(g) \/ LatestHangs(g)
  PROVE  TypeOK'
<1>1. CASE RunCtxDone(g)
  BY <1>1 DEF RunCtxDone, TypeOK, taskVars, store
<1>2. CASE RunFinish(g)
  BY <1>2 DEF RunFinish, TypeOK, taskVars, streamVars, store
<1>3. CASE RunReceives(g)
  BY <1>3 DEF RunReceives, RequestListener, TypeOK, Stages, streamVars, store
<1>4. CASE Refuse(g)
  BY <1>4, ReturnType DEF Refuse
<1>5. CASE GetAccountBalance(g)
  BY <1>5, ReturnType DEF GetAccountBalance, Handles
<1>6. CASE LatestRequest(g)
  <2>1. worker[g] \in Tasks
    BY <1>6 DEF LatestRequest, Handles
  <2>2. responses' \in [Tasks -> Seq(Responses)]
    <3>1. CASE responses' = responses
      BY <3>1 DEF TypeOK
    <3>2. CASE Send(g, worker[g], TRUE, {})
      <4>1. {} \in SUBSET Heights /\ TRUE \in BOOLEAN
        OBVIOUS
      <4> QED
        BY <2>1, <3>2, <4>1, SendType, Zenon
    <3> QED
      BY <1>6, <3>1, <3>2 DEF LatestRequest
  <2> QED
    BY <1>6, <2>1, <2>2 DEF LatestRequest, TypeOK, Stages, streamVars, store
<1>7. CASE LatestHeight(g)
  BY <1>7, ReturnType DEF LatestHeight, Handles
<1>8. CASE GetTransactions(g)
  BY <1>8 DEF GetTransactions, TypeOK, Stages, streamVars, store
<1>9. CASE RangeDone(g) \/ RangeFails(g) \/ RangeAbandoned(g)
  <2>1. worker[g] \in Tasks /\ Fetched(worker[g]) \in SUBSET Heights
    BY <1>9 DEF RangeDone, RangeFails, RangeAbandoned, Handles, Fetched
  <2> QED
    BY <1>9, <2>1, ReturnType DEF RangeDone, RangeFails, RangeAbandoned
<1>10. CASE LatestHangs(g)
  BY <1>10 DEF LatestHangs, TypeOK, Stages, streamVars, store
<1> QED
  BY <1>1, <1>2, <1>3, <1>4, <1>5, <1>6, <1>7, <1>8, <1>9, <1>10 DEF Run

\* And so do those of BlockAndTx.
LEMMA BlockAndTxType ==
  ASSUME TypeOK, NEW t \in Tasks, NEW h \in Heights,
         CallHeight(t, h) \/ BlockAndTx(t, h) \/ FetchHangs(t, h)
  PROVE  TypeOK'
<1>1. CASE CallHeight(t, h)
  BY <1>1 DEF CallHeight, TypeOK, CallSteps, taskVars, streamVars, store
<1>2. CASE Fetch(t, h)
  BY <1>2, CallType DEF Fetch, CallSteps, store
<1>3. CASE FetchHangs(t, h)
  BY <1>3, CallType DEF FetchHangs, CallSteps, store
<1>4. CASE StoreBlocks(t, h)
  BY <1>4, CallType DEF StoreBlocks, CallSteps
<1>5. CASE StoreBlocksFails(t, h)
  BY <1>5, CallType DEF StoreBlocksFails, CallSteps
<1>6. CASE StoreTransactions(t, h)
  BY <1>6, CallType DEF StoreTransactions, CallSteps
<1>7. CASE StoreTransactionsFails(t, h)
  BY <1>7, CallType DEF StoreTransactionsFails, CallSteps
<1> QED
  BY <1>1, <1>2, <1>3, <1>4, <1>5, <1>6, <1>7 DEF BlockAndTx

LEMMA ManagerType == TypeOK /\ Manager => TypeOK'
<1> SUFFICES ASSUME TypeOK, Manager PROVE TypeOK'
  OBVIOUS
<1> USE DEF taskVars, store
<1>1. ASSUME NEW s \in Streams, RegisterStream(s) PROVE TypeOK'
  BY <1>1 DEF RegisterStream, TypeOK
<1>2. ASSUME NEW s \in Streams, CloseStream(s) \/ CtxCancelled(s) \/ Finish(s) PROVE TypeOK'
  BY <1>2 DEF CloseStream, CtxCancelled, Finish, TypeOK
<1>3. ASSUME NEW t \in Tasks, Submit(t) PROVE TypeOK'
  BY <1>3 DEF Submit, TypeOK, Stages, streamVars
<1> QED
  BY <1>1, <1>2, <1>3 DEF Manager

LEMMA TypeStep == TypeOK /\ [Next]_vars => TypeOK'
<1>1. TypeOK /\ UNCHANGED vars => TypeOK'
  BY DEF vars, TypeOK, taskVars, streamVars, store
<1> QED
  BY <1>1, RunType, BlockAndTxType, ManagerType DEF Next

\* Run only ever receives tasks a manager gave, and every variable keeps its
\* type.
THEOREM StreamTypes == Spec => []TypeOK
<1>1. Init => TypeOK
  BY StreamAssumption DEF Init, TypeOK, Stages, CallSteps, Responses
<1> QED
  BY <1>1, TypeStep, PTL DEF Spec

-----------------------------------------------------------------------------
(* The invariant: steps that only concern the streams, and those of Run.   *)

\* What the store says, a step that leaves the calls and the store alone
\* leaves true.
LEMMA CallsAlone == CallInv /\ UNCHANGED <<call, store>> => CallInv'
  BY DEF CallInv, Stored, store

LEMMA ManagerStep == TypeOK /\ StreamInv /\ Manager => StreamInv'
<1> SUFFICES ASSUME TypeOK, StreamInv, Manager PROVE StreamInv'
  OBVIOUS
<1>1. UNCHANGED <<request, responses, call, store>>
  BY DEF Manager, RegisterStream, CloseStream, CtxCancelled, Finish, Submit, taskVars
<1>2. CallInv' /\ ReportedIsStored'
  BY <1>1, CallsAlone DEF StreamInv, ReportedIsStored, Stored, store
<1>3. CASE \E s \in Streams : RegisterStream(s)
  <2>1. PICK s \in Streams : RegisterStream(s)
    BY <1>3
  <2>2. \A g \in Workers, t \in Tasks : worker'[g] = t <=> worker[g] = t
    BY <2>1, StreamAssumption DEF RegisterStream, TypeOK, Of
  <2>3. at' = at
    BY <2>1 DEF RegisterStream, taskVars
  <2>4. OneHandler'
    BY <2>2, <2>3 DEF StreamInv, OneHandler, RegisterStream, TypeOK, Of
  <2> QED
    BY <1>1, <1>2, <2>3, <2>4 DEF StreamInv, AnswerInv
<1>4. CASE \E s \in Streams : CloseStream(s) \/ CtxCancelled(s) \/ Finish(s)
  <2>1. UNCHANGED <<at, worker>>
    BY <1>4 DEF CloseStream, CtxCancelled, Finish, taskVars
  <2> QED
    BY <1>1, <1>2, <2>1 DEF StreamInv, AnswerInv, OneHandler
<1>5. CASE \E t \in Tasks : Submit(t)
  <2>1. PICK t \in Tasks : Submit(t)
    BY <1>5
  <2>2. worker' = worker /\ \A u \in Tasks : at'[u] = at[u] \/ (at[u] = "new" /\ at'[u] = "queued")
    <3>1. at[t] = "new" /\ at' = [at EXCEPT ![t] = "queued"] /\ worker' = worker
      BY <2>1 DEF Submit
    <3>2. \A u \in Tasks : at'[u] = IF u = t THEN "queued" ELSE at[u]
      BY <3>1 DEF TypeOK
    <3> QED
      BY <3>1, <3>2
  <2>3. OneHandler'
    BY <2>2 DEF StreamInv, OneHandler
  <2>4. AnswerInv'
    <3> SUFFICES ASSUME NEW u \in Tasks
                 PROVE  /\ at'[u] \in {"new", "queued", "handle", "range"} => Len(responses[u]) = 0
                        /\ at'[u] \in {"latest", "hung"} =>
                             /\ Len(responses[u]) = IF request[u].readable THEN 0 ELSE 1
                             /\ request[u].type = "latest"
                        /\ at'[u] = "over" =>
                             \/ Len(responses[u]) = 1
                             \/ Len(responses[u]) = 2 /\ request[u].type = "latest" /\ ~request[u].readable
      BY <1>1 DEF AnswerInv
    <3> QED
      BY <2>2 DEF StreamInv, AnswerInv
  <2> QED
    BY <1>2, <2>3, <2>4 DEF StreamInv
<1> QED
  BY <1>3, <1>4, <1>5 DEF Manager

\* What Append does to a sequence of responses.
LEMMA AppendFacts ==
  ASSUME NEW q \in Seq(Responses), NEW r \in Responses
  PROVE  /\ Len(Append(q, r)) = Len(q) + 1
         /\ \A i \in DOMAIN Append(q, r) :
              Append(q, r)[i] = r \/ (i \in DOMAIN q /\ Append(q, r)[i] = q[i])
<1>1. Len(Append(q, r)) = Len(q) + 1 /\ Len(q) \in Nat
  OBVIOUS
<1>2. DOMAIN Append(q, r) = 1 .. Len(q) + 1 /\ DOMAIN q = 1 .. Len(q)
  OBVIOUS
<1>3. ASSUME NEW i \in 1 .. Len(q) + 1
      PROVE  Append(q, r)[i] = r \/ (i \in 1 .. Len(q) /\ Append(q, r)[i] = q[i])
  <2>1. CASE i = Len(q) + 1
    <3>1. Append(q, r)[Len(q) + 1] = r
      OBVIOUS
    <3> QED
      BY <2>1, <3>1
  <2>2. CASE i # Len(q) + 1
    BY <1>1, <2>2
  <2> QED
    BY <2>1, <2>2
<1> QED
  BY <1>1, <1>2, <1>3

\* A handler that returns has answered once, or twice in the one case.
LEMMA ReturnStep ==
  ASSUME TypeOK, StreamInv, NEW g \in Workers, worker[g] \in Tasks,
         NEW error \in BOOLEAN, NEW hs \in SUBSET Heights, SendAndReturn(g, error, hs),
         \A h \in hs : Stored(h),
         request[worker[g]].type = "range" /\ ~error => hs = request[worker[g]].heights
  PROVE  StreamInv'
<1> DEFINE t == worker[g]
           r == [to |-> StreamOf[g], error |-> error, heights |-> hs]
<1>1. /\ at' = [at EXCEPT ![t] = "over"]
      /\ worker' = [worker EXCEPT ![g] = "idle"]
      /\ responses' = [responses EXCEPT ![t] = Append(responses[t], r)]
      /\ UNCHANGED <<request, call, blocks, txs>>
  BY DEF SendAndReturn, Send, store
<1>2. at[t] \in {"handle", "latest", "range", "hung"}
  BY DEF StreamInv, OneHandler
<1>3. responses[t] \in Seq(Responses) /\ r \in Responses
  BY StreamAssumption DEF TypeOK, Responses
<1>4. /\ Len(Append(responses[t], r)) = Len(responses[t]) + 1
      /\ \A i \in DOMAIN Append(responses[t], r) :
           \/ Append(responses[t], r)[i] = r
           \/ i \in DOMAIN responses[t] /\ Append(responses[t], r)[i] = responses[t][i]
  BY <1>3, AppendFacts
<1>5. CallInv'
  BY <1>1, CallsAlone DEF StreamInv, store
<1>6. OneHandler'
  BY <1>1, <1>2, StreamAssumption DEF StreamInv, OneHandler, TypeOK
<1>7. AnswerInv'
  <2>1. /\ at'[t] = "over"
        /\ \A u \in Tasks : u # t => at'[u] = at[u] /\ responses'[u] = responses[u]
        /\ Len(responses'[t]) = Len(responses[t]) + 1
    BY <1>1, <1>4 DEF TypeOK
  <2>2. \/ Len(responses'[t]) = 1
        \/ Len(responses'[t]) = 2 /\ request[t].type = "latest" /\ ~request[t].readable
    BY <1>2, <2>1 DEF StreamInv, AnswerInv
  <2>3. request' = request
    BY <1>1
  <2> QED
    BY <2>1, <2>2, <2>3 DEF StreamInv, AnswerInv
<1>8. ReportedIsStored'
  <2> SUFFICES ASSUME NEW u \in Tasks, NEW i \in DOMAIN responses'[u]
               PROVE  /\ \A h \in responses'[u][i].heights : Stored(h)
                      /\ request[u].type = "range" /\ ~responses'[u][i].error
                           => responses'[u][i].heights = request[u].heights
    BY <1>1 DEF ReportedIsStored, Stored
  <2>1. CASE u = t
    <3>1. responses'[u] = Append(responses[t], r)
      BY <1>1, <2>1 DEF TypeOK
    <3>2. CASE responses'[u][i] = r
      BY <2>1, <3>2
    <3>3. CASE i \in DOMAIN responses[t] /\ responses'[u][i] = responses[t][i]
      BY <2>1, <3>3 DEF StreamInv, ReportedIsStored
    <3> QED
      BY <1>4, <3>1, <3>2, <3>3
  <2>2. CASE u # t
    BY <1>1, <2>2 DEF StreamInv, ReportedIsStored, TypeOK
  <2> QED
    BY <2>1, <2>2
<1> QED
  BY <1>5, <1>6, <1>7, <1>8 DEF StreamInv

\* What GetRange reports has been stored.
LEMMA FetchedStored ==
  ASSUME CallInv, NEW t \in Tasks
  PROVE  Fetched(t) \in SUBSET Heights /\ \A h \in Fetched(t) : Stored(h)
  BY DEF CallInv, Fetched

\* The steps of Run and its handlers.
LEMMA RunInv ==
  ASSUME TypeOK, StreamInv, NEW g \in Workers,
         Run(g) \/ RangeAbandoned(g) \/ LatestHangs(g)
  PROVE  StreamInv'
<1>1. CASE RunCtxDone(g) \/ RunFinish(g)
  <2>1. /\ worker' = [worker EXCEPT ![g] = "returned"] /\ worker[g] = "idle"
        /\ UNCHANGED <<request, at, responses, call, blocks, txs>>
    BY <1>1 DEF RunCtxDone, RunFinish, taskVars, store
  <2>2. OneHandler'
    BY <2>1, StreamAssumption DEF StreamInv, OneHandler, TypeOK
  <2> QED
    BY <2>1, <2>2 DEF StreamInv, CallInv, AnswerInv, ReportedIsStored, Stored
<1>2. CASE RunReceives(g)
  <2>1. PICK t \in Tasks :
          /\ at[t] = "queued" /\ worker[g] = "idle"
          /\ worker' = [worker EXCEPT ![g] = t] /\ at' = [at EXCEPT ![t] = "handle"]
    BY <1>2 DEF RunReceives, RequestListener
  <2>2. UNCHANGED <<request, responses, call, blocks, txs>>
    BY <1>2 DEF RunReceives, store
  <2>3. OneHandler'
    <3>1. \A a \in Workers : worker'[a] = IF a = g THEN t ELSE worker[a]
      BY <2>1 DEF TypeOK
    <3>2. \A u \in Tasks : at'[u] = IF u = t THEN "handle" ELSE at[u]
      BY <2>1 DEF TypeOK
    <3>3. \A a \in Workers : worker[a] # t
      BY <2>1 DEF StreamInv, OneHandler
    <3>4. worker[g] \notin Tasks
      BY <2>1, StreamAssumption
    <3>5. \A a, b \in Workers : worker'[a] \in Tasks /\ worker'[a] = worker'[b] => a = b
      BY <3>1, <3>3 DEF StreamInv, OneHandler
    <3>6. ASSUME NEW u \in Tasks
          PROVE  at'[u] \in {"handle", "latest", "range", "hung"} <=> \E a \in Workers : worker'[a] = u
      BY <3>1, <3>2, <3>4 DEF StreamInv, OneHandler
    <3> QED
      BY <3>5, <3>6 DEF OneHandler
  <2>4. AnswerInv'
    BY <2>1, <2>2 DEF StreamInv, AnswerInv, TypeOK
  <2> QED
    BY <2>2, <2>3, <2>4 DEF StreamInv, CallInv, ReportedIsStored, Stored
<1>3. CASE Refuse(g)
  <2>1. {} \in SUBSET Heights /\ TRUE \in BOOLEAN /\ \A h \in {} : Stored(h)
    OBVIOUS
  <2>2. worker[g] \in Tasks /\ SendAndReturn(g, TRUE, {})
    BY <1>3 DEF Refuse
  <2> QED
    BY <2>1, <2>2, ReturnStep, Zenon
<1>4. CASE GetAccountBalance(g)
  BY <1>4, ReturnStep DEF GetAccountBalance, Handles
<1>5. CASE LatestHeight(g)
  BY <1>5, ReturnStep DEF LatestHeight, Handles
<1>6. CASE RangeDone(g) \/ RangeFails(g) \/ RangeAbandoned(g)
  <2>1. worker[g] \in Tasks
    BY <1>6 DEF RangeDone, RangeFails, RangeAbandoned, Handles
  <2>2. Fetched(worker[g]) \in SUBSET Heights /\ \A h \in Fetched(worker[g]) : Stored(h)
    BY <2>1, FetchedStored DEF StreamInv
  <2> QED
    BY <1>6, <2>1, <2>2, ReturnStep DEF RangeDone, RangeFails, RangeAbandoned
<1>7. CASE GetTransactions(g)
  <2>1. /\ at' = [at EXCEPT ![worker[g]] = "range"] /\ worker[g] \in Tasks
        /\ at[worker[g]] = "handle"
        /\ UNCHANGED <<request, responses, worker, call, blocks, txs>>
    BY <1>7 DEF GetTransactions, Handles, store
  <2>2. OneHandler'
    BY <2>1 DEF StreamInv, OneHandler, TypeOK
  <2>3. AnswerInv'
    BY <2>1 DEF StreamInv, AnswerInv, TypeOK
  <2> QED
    BY <2>1, <2>2, <2>3 DEF StreamInv, CallInv, ReportedIsStored, Stored
<1>8. CASE LatestRequest(g)
  <2> DEFINE t == worker[g]
             r == [to |-> StreamOf[g], error |-> TRUE, heights |-> {}]
  <2>1. /\ t \in Tasks /\ at[t] = "handle" /\ request[t].type = "latest"
        /\ at' = [at EXCEPT ![t] = "latest"]
        /\ UNCHANGED <<request, worker, call, blocks, txs>>
    BY <1>8 DEF LatestRequest, Handles, store
  <2>2. IF request[t].readable THEN responses' = responses
        ELSE responses' = [responses EXCEPT ![t] = Append(responses[t], r)]
    BY <1>8 DEF LatestRequest, Send
  <2>3. responses[t] \in Seq(Responses) /\ r \in Responses /\ Len(responses[t]) = 0
    BY <2>1, StreamAssumption DEF TypeOK, Responses, StreamInv, AnswerInv
  <2>4. /\ Len(Append(responses[t], r)) = 1
        /\ \A i \in DOMAIN Append(responses[t], r) : Append(responses[t], r)[i] = r
    BY <2>3
  <2>5. OneHandler'
    BY <2>1 DEF StreamInv, OneHandler, TypeOK
  <2>6. AnswerInv'
    BY <2>1, <2>2, <2>3, <2>4 DEF StreamInv, AnswerInv, TypeOK
  <2>7. ReportedIsStored'
    <3>1. \A u \in Tasks : \A i \in DOMAIN responses'[u] :
            \/ i \in DOMAIN responses[u] /\ responses'[u][i] = responses[u][i]
            \/ responses'[u][i] = r
      BY <2>1, <2>2, <2>4 DEF TypeOK
    <3> QED
      BY <2>1, <3>1 DEF StreamInv, ReportedIsStored, Stored
  <2> QED
    BY <2>1, <2>5, <2>6, <2>7, CallsAlone DEF StreamInv, store
<1>9. CASE LatestHangs(g)
  <2>1. /\ at' = [at EXCEPT ![worker[g]] = "hung"] /\ worker[g] \in Tasks
        /\ at[worker[g]] = "latest"
        /\ UNCHANGED <<request, responses, worker, call, blocks, txs>>
    BY <1>9 DEF LatestHangs, Handles, store
  <2>2. OneHandler'
    BY <2>1 DEF StreamInv, OneHandler, TypeOK
  <2>3. AnswerInv'
    BY <2>1 DEF StreamInv, AnswerInv, TypeOK
  <2> QED
    BY <2>1, <2>2, <2>3 DEF StreamInv, CallInv, ReportedIsStored, Stored
<1> QED
  BY <1>1, <1>2, <1>3, <1>4, <1>5, <1>6, <1>7, <1>8, <1>9 DEF Run

-----------------------------------------------------------------------------
(* The invariant: the calls of BlockAndTx.                                 *)

\* Nothing is ever removed from the store.
LEMMA StoreGrows ==
  ASSUME StreamInv, UNCHANGED <<request, at, responses, worker>>,
         blocks \subseteq blocks', txs \subseteq txs', CallInv'
  PROVE  StreamInv'
<1>1. OneHandler' /\ AnswerInv'
  BY DEF StreamInv, OneHandler, AnswerInv
<1>2. \A h : Stored(h) => Stored(h)'
  BY DEF Stored
<1>3. ReportedIsStored'
  BY <1>2 DEF StreamInv, ReportedIsStored
<1> QED
  BY <1>1, <1>3 DEF StreamInv

LEMMA CallStep ==
  ASSUME TypeOK, StreamInv, NEW t \in Tasks, NEW h \in Heights,
         CallHeight(t, h) \/ BlockAndTx(t, h) \/ FetchHangs(t, h)
  PROVE  StreamInv'
<1> USE DEF SetCall, taskVars, store
<1>1. \A u \in Tasks, k \in Heights : u # t \/ k # h => call'[u][k] = call[u][k]
  BY DEF CallHeight, BlockAndTx, FetchHangs, Fetch, StoreBlocks, StoreBlocksFails,
         StoreTransactions, StoreTransactionsFails, TypeOK
<1>2. UNCHANGED <<request, at, responses, worker>>
  BY DEF CallHeight, BlockAndTx, FetchHangs, Fetch, StoreBlocks, StoreBlocksFails,
         StoreTransactions, StoreTransactionsFails
<1>3. blocks \subseteq blocks' /\ txs \subseteq txs'
  BY DEF CallHeight, BlockAndTx, FetchHangs, Fetch, StoreBlocks, StoreBlocksFails,
         StoreTransactions, StoreTransactionsFails
<1>4. /\ call'[t][h] = "txs" => h \in blocks'
      /\ call'[t][h] = "ok" => Stored(h)'
  <2>1. CASE CallHeight(t, h) \/ Fetch(t, h) \/ FetchHangs(t, h)
    BY <2>1 DEF CallHeight, Fetch, FetchHangs, TypeOK
  <2>2. CASE StoreBlocks(t, h)
    BY <2>2 DEF StoreBlocks, Stored, TypeOK
  <2>3. CASE StoreBlocksFails(t, h) \/ StoreTransactionsFails(t, h)
    BY <2>3 DEF StoreBlocksFails, StoreTransactionsFails, TypeOK
  <2>4. CASE StoreTransactions(t, h)
    BY <2>4 DEF StoreTransactions, StreamInv, CallInv, Stored, TypeOK
  <2> QED
    BY <2>1, <2>2, <2>3, <2>4 DEF BlockAndTx
<1>5. CallInv'
  BY <1>1, <1>3, <1>4 DEF StreamInv, CallInv, Stored
<1> QED
  BY <1>2, <1>3, <1>5, StoreGrows

-----------------------------------------------------------------------------
(* Theorems.                                                               *)

LEMMA StreamStep == TypeOK /\ StreamInv /\ [Next]_vars => StreamInv'
<1>1. StreamInv /\ UNCHANGED vars => StreamInv'
  BY DEF vars, taskVars, store, StreamInv, CallInv, AnswerInv, OneHandler, ReportedIsStored, Stored
<1> QED
  BY <1>1, RunInv, CallStep, ManagerStep DEF Next

\* The inductive invariant.
THEOREM StreamInvariant == Spec => []StreamInv
<1>1. Init => StreamInv
  BY StreamAssumption DEF Init, StreamInv, CallInv, AnswerInv, OneHandler, ReportedIsStored
<1> QED
  BY <1>1, StreamStep, StreamTypes, PTL DEF Spec

\* A manager is never told of a height before its block and transactions are
\* stored, however its ranges overlap and the store fails.
THEOREM ReportsTrue == Spec => []ReportedIsStored
<1>1. StreamInv => ReportedIsStored
  BY DEF StreamInv
<1> QED
  BY <1>1, StreamInvariant, PTL

\* A task is in one handler at a time.
THEOREM HandledOnce == Spec => []OneHandler
<1>1. StreamInv => OneHandler
  BY DEF StreamInv
<1> QED
  BY <1>1, StreamInvariant, PTL

\* No task but an unreadable latest mark gets two responses, and none is
\* left without one by a handler that returns.
THEOREM AnsweredOnce == Spec => []FinalResponses
<1>1. TypeOK /\ StreamInv => FinalResponses
  <2> SUFFICES ASSUME TypeOK, StreamInv, NEW t \in Tasks
               PROVE  /\ (request[t].type # "latest" \/ request[t].readable)
                           => Len(responses[t]) <= 1
                      /\ Len(responses[t]) <= 2
                      /\ at[t] = "over" => responses[t] # <<>>
    BY DEF FinalResponses
  <2>1. at[t] \in Stages /\ responses[t] \in Seq(Responses)
    BY DEF TypeOK
  <2>2. \/ Len(responses[t]) = 0 /\ at[t] # "over"
        \/ Len(responses[t]) = 1
        \/ Len(responses[t]) = 2 /\ request[t].type = "latest" /\ ~request[t].readable
    BY <2>1 DEF StreamInv, AnswerInv, Stages
  <2>3. Len(<<>>) = 0
    OBVIOUS
  <2>4. CASE Len(responses[t]) = 2 /\ request[t].type = "latest" /\ ~request[t].readable
    <3>1. Len(responses[t]) <= 2 /\ responses[t] # <<>>
      BY <2>3, <2>4
    <3>2. ~(request[t].type # "latest" \/ request[t].readable)
      BY <2>4, Zenon
    <3> QED
      BY <3>1, <3>2, Zenon
  <2>5. CASE Len(responses[t]) = 1
    <3>1. Len(responses[t]) <= 1 /\ Len(responses[t]) <= 2 /\ responses[t] # <<>>
      BY <2>3, <2>5
    <3> QED
      BY <3>1, Zenon
  <2>6. CASE Len(responses[t]) = 0 /\ at[t] # "over"
    <3>1. Len(responses[t]) <= 1 /\ Len(responses[t]) <= 2
      BY <2>6
    <3> QED
      BY <2>6, <3>1, Zenon
  <2> QED
    BY <2>2, <2>4, <2>5, <2>6, Zenon
<1> QED
  BY <1>1, StreamTypes, StreamInvariant, PTL

\* The store never has transactions without their block.
THEOREM NoOrphans == Spec => []NoOrphanTransactions
<1>1. Init => NoOrphanTransactions
  BY DEF Init, NoOrphanTransactions
<1>2. StreamInv /\ NoOrphanTransactions /\ [Next]_vars => NoOrphanTransactions'
  <2> SUFFICES ASSUME StreamInv, NoOrphanTransactions, [Next]_vars
               PROVE  NoOrphanTransactions'
    OBVIOUS
  <2> USE DEF store
  <2>1. CASE UNCHANGED vars
    BY <2>1 DEF vars, NoOrphanTransactions
  <2>2. CASE Manager
    BY <2>2 DEF Manager, RegisterStream, CloseStream, CtxCancelled, Finish, Submit,
                NoOrphanTransactions
  <2>3. ASSUME NEW g \in Workers, Run(g) \/ RangeAbandoned(g) \/ LatestHangs(g)
        PROVE  NoOrphanTransactions'
    <3>1. UNCHANGED store
      BY <2>3 DEF Run, RunCtxDone, RunFinish, RunReceives, Refuse, GetAccountBalance,
                  LatestRequest, LatestHeight, LatestHangs, GetTransactions, RangeDone,
                  RangeFails, RangeAbandoned, SendAndReturn
    <3> QED
      BY <3>1 DEF NoOrphanTransactions
  <2>4. ASSUME NEW t \in Tasks, NEW h \in Heights,
               CallHeight(t, h) \/ BlockAndTx(t, h) \/ FetchHangs(t, h)
        PROVE  NoOrphanTransactions'
    BY <2>4 DEF BlockAndTx, CallHeight, Fetch, FetchHangs, StoreBlocks, StoreBlocksFails,
                StoreTransactions, StoreTransactionsFails, StreamInv, CallInv,
                NoOrphanTransactions
  <2> QED
    BY <2>1, <2>2, <2>3, <2>4 DEF Next
<1> QED
  BY <1>1, <1>2, StreamInvariant, PTL DEF Spec

\* A goroutine of a stream only returns when the stream is no longer
\* registered, or has been finished.
Departed ==
  \A g \in Workers : worker[g] = "returned" => StreamOf[g] \notin streams \/ StreamOf[g] \in finished

LEMMA DepartedStep == TypeOK /\ Departed /\ [Next]_vars => Departed'
<1> SUFFICES ASSUME TypeOK, Departed, [Next]_vars PROVE Departed'
  OBVIOUS
<1>1. CASE UNCHANGED vars
  BY <1>1 DEF vars, streamVars, Departed
<1>2. ASSUME NEW s \in Streams, RegisterStream(s) PROVE Departed'
  BY <1>2 DEF RegisterStream, Of, TypeOK, Departed
<1>3. ASSUME NEW s \in Streams, CloseStream(s) \/ CtxCancelled(s) \/ Finish(s) PROVE Departed'
  BY <1>3 DEF CloseStream, CtxCancelled, Finish, Departed
<1>4. ASSUME NEW t \in Tasks, Submit(t) PROVE Departed'
  BY <1>4 DEF Submit, streamVars, Departed
<1>5. ASSUME NEW g \in Workers, RunCtxDone(g) \/ RunFinish(g) PROVE Departed'
  BY <1>5 DEF RunCtxDone, RunFinish, streamVars, TypeOK, Departed
<1>6. ASSUME UNCHANGED streamVars,
             NEW g \in Workers, NEW to \in {"idle"} \cup Tasks,
             worker' = [worker EXCEPT ![g] = to]
      PROVE  Departed'
  <2>1. to # "returned"
    BY StreamAssumption
  <2>2. \A a \in Workers : worker'[a] = "returned" => worker[a] = "returned"
    BY <1>6, <2>1 DEF TypeOK
  <2> QED
    BY <1>6, <2>2 DEF streamVars, Departed
<1>7. ASSUME NEW g \in Workers, RunReceives(g) PROVE Departed'
  BY <1>6, <1>7 DEF RunReceives, RequestListener
<1>8. ASSUME NEW g \in Workers,
             Refuse(g) \/ GetAccountBalance(g) \/ LatestHeight(g)
               \/ RangeDone(g) \/ RangeFails(g) \/ RangeAbandoned(g)
      PROVE  Departed'
  <2>1. UNCHANGED streamVars /\ worker' = [worker EXCEPT ![g] = "idle"]
    BY <1>8 DEF Refuse, GetAccountBalance, LatestHeight, RangeDone, RangeFails, RangeAbandoned,
                SendAndReturn
  <2> QED
    BY <1>6, <2>1
<1>9. ASSUME NEW g \in Workers, LatestRequest(g) \/ LatestHangs(g) \/ GetTransactions(g)
      PROVE  Departed'
  BY <1>9 DEF LatestRequest, LatestHangs, GetTransactions, streamVars, Departed
<1>10. ASSUME NEW t \in Tasks, NEW h \in Heights,
              CallHeight(t, h) \/ BlockAndTx(t, h) \/ FetchHangs(t, h)
       PROVE  Departed'
  BY <1>10 DEF BlockAndTx, CallHeight, Fetch, FetchHangs, StoreBlocks, StoreBlocksFails,
               StoreTransactions, StoreTransactionsFails, SetCall, streamVars, Departed
<1> QED
  BY <1>1, <1>2, <1>3, <1>4, <1>5, <1>7, <1>8, <1>9, <1>10 DEF Next, Manager, Run

\* The goroutines do not all leave a stream that is registered behind, unless
\* the other side has finished it (RunCtxDone's delete from streams).
THEOREM NoneLeftBehind == Spec => []LeftoverIsFinished
<1>1. Init => Departed
  BY DEF Init, Departed
<1>2. TypeOK /\ Departed => LeftoverIsFinished
  <2> SUFFICES ASSUME TypeOK, Departed, NEW s \in streams, \A g \in Of(s) : worker[g] = "returned"
               PROVE  s \in finished
    BY DEF LeftoverIsFinished
  <2>1. PICK g \in Workers : StreamOf[g] = s
    BY ServedAssumption DEF TypeOK
  <2> QED
    BY <2>1 DEF Of, Departed
<1> QED
  BY <1>1, <1>2, DepartedStep, StreamTypes, PTL DEF Spec

=============================================================================

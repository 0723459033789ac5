---------------------------- MODULE RespChannels ----------------------------
(***************************************************************************)
(* The response channels of package indexer and the queries that share     *)
(* them: getBlockPool (pool.go), GetAccount and cleanupTimeoutedCh         *)
(* (account.go), blockAndTx and the functions it reads answers with        *)
(* (getBlock.go), GetLatestMark (client.go).  A query takes a channel from *)
(* the pool, goes through its steps - send the requests of the step, read  *)
(* as many answers - and puts the channel back.  An answer carries no      *)
(* trace of the query it belongs to, so everything rests on a channel      *)
(* being owed nothing when it changes hands.                               *)
(* The connection layer is used through what RpcService promises: after    *)
(* the first success no Send fails, and each request gets one answer.      *)
(***************************************************************************)
EXTENDS Naturals, Sequences, FiniteSets

CONSTANTS
  Queries,         \* the calls of GetAccount, BlockAndTx and GetLatestMark
  KindOf,          \* KindOf[s]: "account", "block" or "latest"
  Chans,           \* the channels Get may make, one per query at most
  PoolCap,         \* capacity of the pool (300 in NewClient)
  HashesMissing,   \* how many block hashes may not be in the cache (0..3)
  OthersRequests,  \* requests getOthers sends (7)
  StepTimeout,     \* GetAccount waits this long for one answer (30 s)
  AnsweredBy,      \* the connection layer answers within this time (70 s)
  CleanupTimeout,  \* cleanupTimeoutedCh waits this long (10 min)
  NoChan

ASSUME ChannelsAssumption ==
  /\ KindOf \in [Queries -> {"account", "block", "latest"}]
  /\ PoolCap \in Nat /\ OthersRequests \in Nat \ {0}
  /\ HashesMissing \subseteq Nat
  /\ StepTimeout \in Nat /\ AnsweredBy \in Nat
  /\ CleanupTimeout \in Nat \ {0}
  /\ NoChan \notin Chans

\* cleanupTimeoutedCh waits out the connection layer, after the query's own wait.
ASSUME TimeoutsAssumption == AnsweredBy < StepTimeout + CleanupTimeout

VARIABLES
  open,      \* Send does not fail any more (statusEvenOne)
  at,        \* at[s]: the step query s is in
  ch,        \* ch[s]: the channel it holds
  todo,      \* requests of the step still to be sent
  due,       \* answers the step still waits for
  verdict,   \* what the answers read so far come to
  pool,      \* getBlockPool.stor
  fresh,     \* channels not made yet
  closed,    \* closed channels
  buf,       \* buf[c]: the answers buffered in c
  out,       \* requests the connection layer has not answered
  waited,    \* waited[c]: time since the last request was sent with c
  cleaner,   \* the time on that clock at which c's cleanup gives up, or 0
  crashed    \* a goroutine outside an HTTP handler has panicked

queryVars == <<at, ch, todo, due, verdict>>
poolVars  == <<pool, fresh, closed>>
connVars  == <<open, buf, out>>
timeVars  == <<waited, cleaner>>
vars == <<queryVars, poolVars, connVars, timeVars, crashed>>

Steps  == {"head", "header", "hashes", "version", "others", "metadata", "data"}
Timed  == {"version", "data"}
Active(s) == at[s] \in Steps
Results == {"ok", "error", "empty"}
Requests == [query : Queries, step : Steps, nr : Nat, ch : Chans]

Init ==
  /\ open = FALSE
  /\ at = [s \in Queries |-> "idle"]
  /\ ch = [s \in Queries |-> NoChan]
  /\ todo = [s \in Queries |-> 0]
  /\ due = [s \in Queries |-> 0]
  /\ verdict = [s \in Queries |-> "ok"]
  /\ pool = <<>>
  /\ fresh = Chans
  /\ closed = {}
  /\ buf = [c \in Chans |-> <<>>]
  /\ out = {}
  /\ waited = [c \in Chans |-> 0]
  /\ cleaner = [c \in Chans |-> 0]
  /\ crashed = FALSE

-----------------------------------------------------------------------------
(* The order of the steps.                                                 *)

\* The height is given, or it is asked for first.
FirstSteps(s) == IF KindOf[s] = "latest" THEN {"head"} ELSE {"head", "hashes"}

NextStep(s) ==
  CASE at[s] = "head"     -> "header"
    [] at[s] = "header"   -> IF KindOf[s] = "latest" THEN "over" ELSE "hashes"
    [] at[s] = "hashes"   -> IF KindOf[s] = "block" THEN "others" ELSE "version"
    [] at[s] = "version"  -> "metadata"
    [] at[s] = "others"   -> "metadata"
    [] at[s] = "metadata" -> IF KindOf[s] = "block" THEN "over" ELSE "data"
    [] at[s] = "data"     -> "over"

\* Hashes and metadata may be known already.
RequestsOf(step) == CASE step = "hashes"   -> HashesMissing
                      [] step = "others"   -> {OthersRequests}
                      [] step = "metadata" -> {0, 1}
                      [] OTHER             -> {1}

Enter(s, step) == \E n \in RequestsOf(step) :
  /\ at' = [at EXCEPT ![s] = step]
  /\ todo' = [todo EXCEPT ![s] = n]
  /\ due' = [due EXCEPT ![s] = n]

\* Mutant of Put: the capacity is not looked at.
PutAnyway(c) == pool' = Append(pool, c) /\ UNCHANGED closed

\* getBlockPool.Put: a full pool closes the channel.
Put(c) == IF Len(pool) < PoolCap
            THEN pool' = Append(pool, c) /\ UNCHANGED closed
            ELSE closed' = closed \cup {c} /\ UNCHANGED pool

Leave(s) == /\ at' = [at EXCEPT ![s] = "over"]
            /\ ch' = [ch EXCEPT ![s] = NoChan]
            /\ todo' = [todo EXCEPT ![s] = 0]
            /\ due' = [due EXCEPT ![s] = 0]

\* GetLatestMark does not put its channel back.
End(s) ==
  /\ Leave(s)
  /\ IF KindOf[s] = "latest" THEN UNCHANGED <<pool, closed>> ELSE Put(ch[s])
  /\ UNCHANGED <<verdict, fresh, connVars, timeVars, crashed>>

\* Mutants of AfterTimeout: the channel goes back to the pool, is closed at
\* once, or is both put back and cleaned up.
PutAfterTimeout(s) == Put(ch[s]) /\ UNCHANGED cleaner
CloseAfterTimeout(s) == closed' = closed \cup {ch[s]} /\ UNCHANGED <<pool, cleaner>>
CleanAndPut(s) ==
  /\ cleaner' = [cleaner EXCEPT ![ch[s]] = waited[ch[s]] + CleanupTimeout]
  /\ Put(ch[s])

\* A query that times out hands its channel to cleanupTimeoutedCh.
AfterTimeout(s) ==
  /\ cleaner' = [cleaner EXCEPT ![ch[s]] = waited[ch[s]] + CleanupTimeout]
  /\ UNCHANGED <<pool, closed>>

-----------------------------------------------------------------------------
(* The queries.                                                            *)

\* getBlockPool.Get drains what it takes from the pool.
Get(s) ==
  /\ at[s] = "idle"
  /\ \/ /\ pool # <<>>
        /\ ch' = [ch EXCEPT ![s] = Head(pool)]
        /\ pool' = Tail(pool)
        /\ buf' = [buf EXCEPT ![Head(pool)] = <<>>]
        /\ UNCHANGED fresh
     \/ /\ pool = <<>>
        /\ \E c \in fresh : ch' = [ch EXCEPT ![s] = c] /\ fresh' = fresh \ {c}
        /\ UNCHANGED <<pool, buf>>
  /\ \E step \in FirstSteps(s) : Enter(s, step)
  /\ UNCHANGED <<verdict, closed, open, out, timeVars, crashed>>

Ask(s) ==
  /\ todo[s] > 0
  /\ open
  /\ out' = out \cup {[query |-> s, step |-> at[s], nr |-> todo[s], ch |-> ch[s]]}
  /\ todo' = [todo EXCEPT ![s] = @ - 1]
  /\ waited' = [waited EXCEPT ![ch[s]] = 0]
  /\ UNCHANGED <<at, ch, due, verdict, poolVars, open, buf, cleaner, crashed>>

AskRefused(s) ==
  /\ todo[s] > 0
  /\ ~open
  /\ End(s)

\* The last answer getOthers waits for is an error: neither i == 6 nor i == 7
\* is met, and it waits for one more.
OneMore(s, a) == at[s] = "others" /\ due[s] = 1 /\ a.result = "error"

\* Mutants of DueAfter: an error never ends the loop over the hashes; the
\* first error ends getOthers.
DueUnlessError(s, a) ==
  IF OneMore(s, a) \/ (at[s] = "hashes" /\ a.result # "ok") THEN due[s] ELSE due[s] - 1
DueFirstError(s, a) ==
  IF at[s] = "others" /\ a.result = "error" THEN 0 ELSE due[s] - 1

DueAfter(s, a) == IF OneMore(s, a) THEN due[s] ELSE due[s] - 1

\* getOthers forgets the errors before the last answer; the hashes are all
\* waited for, whatever the first ones were.
VerdictAfter(s, a) ==
  CASE at[s] = "others" -> IF OneMore(s, a) THEN "error" ELSE "ok"
    [] at[s] = "hashes" -> IF verdict[s] = "ok" /\ a.result = "ok" THEN "ok" ELSE "error"
    [] OTHER            -> a.result

\* s[1 : len(s)-1] of an answer without a result; getLatestHeight slices the
\* result of its first answer only when the second was good.
Panics(s, a) == \/ at[s] \in {"others", "metadata"} /\ a.result = "empty"
                \/ at[s] = "header" /\ verdict[s] = "empty" /\ a.result = "ok"

Reads(s) == /\ Active(s) /\ todo[s] = 0 /\ due[s] > 0
            /\ buf[ch[s]] # <<>>
            /\ buf' = [buf EXCEPT ![ch[s]] = Tail(@)]

Read(s) ==
  /\ Reads(s)
  /\ LET a == Head(buf[ch[s]])
     IN  /\ ~Panics(s, a)
         /\ due' = [due EXCEPT ![s] = DueAfter(s, a)]
         /\ verdict' = [verdict EXCEPT ![s] = VerdictAfter(s, a)]
  /\ UNCHANGED <<at, ch, todo, poolVars, open, out, timeVars, crashed>>

\* net/http recovers the panic of an account query, whose channel is lost.
ReadPanics(s) ==
  /\ Reads(s)
  /\ Panics(s, Head(buf[ch[s]]))
  /\ Leave(s)
  /\ crashed' = (KindOf[s] # "account")
  /\ UNCHANGED <<verdict, poolVars, open, out, timeVars>>

Complete(s) == Active(s) /\ todo[s] = 0 /\ due[s] = 0

\* A null result of chain_getFinalizedHead is passed on to chain_getHeader.
Advance(s) ==
  /\ Complete(s)
  /\ verdict[s] = "ok" \/ (at[s] = "head" /\ verdict[s] = "empty")
  /\ NextStep(s) # "over"
  /\ Enter(s, NextStep(s))
  /\ UNCHANGED <<ch, verdict, poolVars, connVars, timeVars, crashed>>

\* The last step is done, a step failed, or what it brought is of no use.
Return(s) ==
  /\ Complete(s)
  /\ verdict[s] = "error" \/ at[s] \notin {"head", "hashes"}
  /\ End(s)

TimesOut(s) ==
  /\ at[s] \in Timed /\ todo[s] = 0 /\ due[s] = 1
  /\ waited[ch[s]] >= StepTimeout
  /\ AfterTimeout(s)
  /\ Leave(s)
  /\ UNCHANGED <<verdict, fresh, connVars, waited, crashed>>

-----------------------------------------------------------------------------
(* cleanupTimeoutedCh reads one answer, or gives up, and closes.           *)

Close(c) == /\ closed' = closed \cup {c}
            /\ cleaner' = [cleaner EXCEPT ![c] = 0]
            /\ UNCHANGED <<queryVars, pool, fresh, open, out, waited, crashed>>

CleanerReads(c) ==
  /\ cleaner[c] # 0
  /\ buf[c] # <<>>
  /\ buf' = [buf EXCEPT ![c] = Tail(@)]
  /\ Close(c)

CleanerGivesUp(c) ==
  /\ cleaner[c] # 0
  /\ waited[c] >= cleaner[c]
  /\ UNCHANGED buf
  /\ Close(c)

-----------------------------------------------------------------------------
(* The surroundings: the connection layer and time.                        *)

Open == /\ ~open
        /\ open' = TRUE
        /\ UNCHANGED <<queryVars, poolVars, buf, out, timeVars, crashed>>

\* An answer sent on a closed channel panics in recv, timeoutChecker or run.
Answer(q) ==
  /\ out' = out \ {q}
  /\ IF q.ch \in closed
       THEN crashed' = TRUE /\ UNCHANGED buf
       ELSE /\ \E result \in Results :
                 buf' = [buf EXCEPT ![q.ch] = Append(@, [of |-> q, result |-> result])]
            /\ UNCHANGED crashed
  /\ UNCHANGED <<queryVars, poolVars, open, timeVars>>

OwedOn(c) == {q \in out : q.ch = c}

TimerRuns(c) == \/ cleaner[c] # 0 /\ waited[c] < cleaner[c]
                \/ \E s \in Queries : /\ ch[s] = c /\ at[s] \in Timed
                                      /\ todo[s] = 0 /\ due[s] = 1
                                      /\ waited[c] < AnsweredBy

\* No time passes while the connection layer's answer is overdue.
Tick(c) ==
  /\ TimerRuns(c)
  /\ OwedOn(c) # {} => waited[c] < AnsweredBy
  /\ waited' = [waited EXCEPT ![c] = @ + 1]
  /\ UNCHANGED <<queryVars, poolVars, connVars, cleaner, crashed>>

-----------------------------------------------------------------------------
QueryStep(s) == \/ Ask(s) \/ AskRefused(s) \/ Read(s) \/ ReadPanics(s)
                \/ Advance(s) \/ Return(s) \/ TimesOut(s)

CleanerStep(c) == CleanerReads(c) \/ CleanerGivesUp(c)

Step == \/ \E s \in Queries : Get(s) \/ QueryStep(s)
        \/ \E c \in Chans : CleanerStep(c) \/ Tick(c)
        \/ \E q \in out : Answer(q)
        \/ Open

\* getOthers has had its last answer, an error, and waits for another.
Stuck(s) == at[s] = "others" /\ verdict[s] = "error"

Finished == /\ crashed \/ ( /\ \A s \in Queries : at[s] = "over" \/ Stuck(s)
                            /\ out = {}
                            /\ \A c \in Chans : cleaner[c] = 0 )
            /\ UNCHANGED vars

Next == (~crashed /\ Step) \/ Finished

Spec == Init /\ [][Next]_vars

\* Goroutines run, time passes, and the connection layer answers.
FairSpec ==
  /\ Spec
  /\ \A s \in Queries : WF_vars(~crashed /\ QueryStep(s))
  /\ \A c \in Chans : WF_vars(~crashed /\ CleanerStep(c)) /\ WF_vars(~crashed /\ Tick(c))
  /\ WF_vars(~crashed /\ \E q \in out : Answer(q))

-----------------------------------------------------------------------------
(* Properties.                                                             *)

\* The channels in a queue of channels.
Members(q) == {q[i] : i \in DOMAIN q}

\* Types; a query has a channel exactly while it is in one of its steps.
TypeOK ==
  /\ open \in BOOLEAN /\ crashed \in BOOLEAN
  /\ at \in [Queries -> Steps \cup {"idle", "over"}]
  /\ ch \in [Queries -> Chans \cup {NoChan}]
  /\ \A s \in Queries : Active(s) <=> ch[s] # NoChan
  /\ todo \in [Queries -> Nat] /\ due \in [Queries -> Nat]
  /\ verdict \in [Queries -> Results]
  /\ pool \in Seq(Chans) /\ Len(pool) <= PoolCap
  /\ fresh \subseteq Chans /\ closed \subseteq Chans
  /\ buf \in [Chans -> Seq([of : Requests, result : Results])]
  /\ out \subseteq Requests
  /\ waited \in [Chans -> Nat] /\ cleaner \in [Chans -> Nat]

\* A query finds on its channel only answers to the requests of the step it is
\* in, although channels are reused and queries are given up half-way: nothing
\* in an answer to, say, state_getStorage says which query asked.
NoCrossTalk ==
  \A s \in Queries : Active(s) =>
    \A i \in 1..Len(buf[ch[s]]) :
      LET q == buf[ch[s]][i].of IN q.query = s /\ q.step = at[s]

\* No answer is on its way to a closed channel (sending on it would take the
\* process down), whether the pool or a cleanup closed it.
NoSendOnClosed == \A q \in out : q.ch \notin closed

\* A channel in the pool is open, empty and owed nothing.
PooledIdle ==
  \A c \in Members(pool) : c \notin closed /\ buf[c] = <<>> /\ OwedOn(c) = {}

\* A channel belongs to the pool, to one query or to its cleanup, and to
\* nobody once it is closed: none is used by two, or closed twice.
OneOwner ==
  /\ \A i, j \in 1..Len(pool) : pool[i] = pool[j] => i = j
  /\ \A s, t \in Queries : Active(s) /\ Active(t) /\ ch[s] = ch[t] => s = t
  /\ \A s \in Queries : Active(s) =>
       ch[s] \notin Members(pool) \cup fresh \cup closed /\ cleaner[ch[s]] = 0
  /\ \A c \in Chans : cleaner[c] # 0 => c \notin Members(pool) \cup fresh \cup closed
  /\ Members(pool) \cap (closed \cup fresh) = {} /\ closed \cap fresh = {}

\* A query waits for as many answers as it can still get, or, in getOthers
\* after a failed last answer, for one more.
Expected(s) == Len(buf[ch[s]]) + Cardinality(OwedOn(ch[s])) + todo[s]
CountsMatch ==
  \A s \in Queries : Active(s) =>
    due[s] = Expected(s) + (IF Stuck(s) THEN 1 ELSE 0)

\* Every query that was begun ends, if only by its timeout; the exception is
\* a block query whose last answer in getOthers was an error.
QueriesEnd ==
  \A s \in Queries : Active(s) ~> at[s] = "over" \/ Stuck(s) \/ crashed
=============================================================================

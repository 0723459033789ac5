------------------------------ MODULE RpcConn ------------------------------
(***************************************************************************)
(* The JSON-RPC connection layer, api/api.go.  One Conn serves several     *)
(* polkadot nodes.  Callers hand a request and the channel its answer must *)
(* go to over the unbuffered channel Conn.Requests; whichever connection   *)
(* is in its select takes it.  Per node there are four goroutines:         *)
(*   Run            dials again, after a pause, when run has ended         *)
(*   run            numbers, stores and writes requests; drains at the end *)
(*   recv           reads replies and delivers them                        *)
(*   timeoutChecker answers the requests that waited too long              *)
(* The last three share responseMap and its lock L.                        *)
(***************************************************************************)
EXTENDS Naturals, Sequences, FiniteSets

CONSTANTS
  Nodes,         \* the addresses Run was started for
  Reqs,          \* every call of Conn.Send the callers will ever make
  Chans,         \* the response channels
  ChanOf,        \* ChanOf[r]: the channel request r is sent with
  Unencodable,   \* requests json.Encode rejects
  ChanCap,       \* capacity of a response channel (20 in indexer/pool.go)
  MaxInFlight,   \* a caller reads before it has more requests than this out
  NoResult       \* what an answer that is an error carries

ASSUME ConnAssumption ==
  /\ ChanOf \in [Reqs -> Chans]
  /\ Unencodable \subseteq Reqs
  /\ ChanCap \in Nat /\ MaxInFlight \in Nat
  /\ NoResult \notin Reqs
  /\ IsFiniteSet(Reqs)

VARIABLES
  call,          \* call[r]: where the caller's Send of r stands
  answers,       \* answers[r]: how many answers r was given (history)
  chan,          \* chan[c]: the buffered answers of channel c
  statusEvenOne, \* conn.statusEvenOne is StateOnline
  stopped,       \* the context given to Run is cancelled
  run,           \* run[n]: program counter of run and of Run, its parent
  hand,          \* hand[n]: the request run is working on, at most one
  cancelled,     \* the context of this incarnation of run is cancelled
  nextMessageID,
  aged,          \* requests numbered below aged[n] waited past connTimeout
  responseMap,   \* responseMap[n]: unanswered requests, with their numbers
  wire,          \* wire[n]: requests written, replies not yet read
  recv,          \* program counter of recv; "off" once done is closed
  reply,         \* reply[n]: the reply recv has read, at most one
  checker        \* program counter of timeoutChecker

callVars == <<call, answers, chan>>
runVars  == <<run, hand, cancelled, nextMessageID, aged, responseMap>>
recvVars == <<wire, recv, reply>>
vars == <<callVars, statusEvenOne, stopped, runVars, recvVars, checker>>

Numbered == [id : Nat, req : Reqs]
Answers  == [req : Reqs, of : Reqs \cup {NoResult}]
CallStates    == {"idle", "sending", "accepted", "returned", "refused"}
RunStates     == {"dial", "loop", "reject", "store", "write",
                  "drain", "draining", "ended", "gone"}
RecvStates    == {"off", "reading", "locking", "holding"}
CheckerStates == {"off", "idle", "holding"}

Init ==
  /\ call = [r \in Reqs |-> "idle"]
  /\ answers = [r \in Reqs |-> 0]
  /\ chan = [c \in Chans |-> <<>>]
  /\ statusEvenOne = FALSE
  /\ stopped = FALSE
  /\ run = [n \in Nodes |-> "dial"]
  /\ hand = [n \in Nodes |-> {}]
  /\ cancelled = [n \in Nodes |-> FALSE]
  /\ nextMessageID = [n \in Nodes |-> 0]
  /\ aged = [n \in Nodes |-> 0]
  /\ responseMap = [n \in Nodes |-> {}]
  /\ wire = [n \in Nodes |-> {}]
  /\ recv = [n \in Nodes |-> "off"]
  /\ reply = [n \in Nodes |-> {}]
  /\ checker = [n \in Nodes |-> "off"]

-----------------------------------------------------------------------------
(* Helpers.                                                                *)

\* L is held by recv while it delivers, by timeoutChecker while it goes
\* through the map, and (for reading) by run while it drains.
LockFree(n) == /\ recv[n] # "holding"
               /\ checker[n] # "holding"
               /\ run[n] # "draining"

HasRoom(c) == Len(chan[c]) < ChanCap

\* respCH <- Response{...}: blocks until the buffered channel has room.
Put(e, result) ==
  LET c == ChanOf[e.req]
  IN  /\ HasRoom(c)
      /\ chan' = [chan EXCEPT ![c] = Append(@, [req |-> e.req, of |-> result])]
      /\ answers' = [answers EXCEPT ![e.req] = @ + 1]
      /\ UNCHANGED call

\* Mutant of Forget: the entry stays after it was answered.
ForgetNothing(n, e) == UNCHANGED responseMap

\* delete(responseMap.Map, e.ID)
Forget(n, e) ==
  responseMap' = [responseMap EXCEPT ![n] = {p \in @ : p.id # e.id}]

\* Mutants of NumberAfter: the number is reused, or counted down.
NumberReused(n) == nextMessageID[n]
NumberBefore(n) == nextMessageID[n] - 1

\* The number the next request gets.
NumberAfter(n) == nextMessageID[n] + 1

\* Mutant of Expired: off by one, the youngest never gets too old.
ExpiredButYoungest(n) == {e \in responseMap[n] : e.id + 1 < aged[n]}

Expired(n) == {e \in responseMap[n] : e.id < aged[n]}

\* Mutant of InFlight: answers waiting in the channel are not counted.
InFlightUnanswered(c) ==
  {r \in Reqs : ChanOf[r] = c /\ call[r] \in {"sending", "accepted"} /\ answers[r] = 0}

InFlight(c) == {r \in Reqs : ChanOf[r] = c /\ call[r] \in {"sending", "accepted"}}

SetRun(n, from, to) == run[n] = from /\ run' = [run EXCEPT ![n] = to]
OnlyRun == UNCHANGED <<callVars, statusEvenOne, stopped, hand, cancelled,
                       nextMessageID, aged, responseMap, recvVars, checker>>

-----------------------------------------------------------------------------
(* The callers.  A goroutine owns a response channel at a time, sends one  *)
(* request after the other and reads the answers afterwards.               *)

SendOffers(r) ==
  /\ call[r] = "idle"
  /\ \A q \in Reqs : ChanOf[q] = ChanOf[r] => call[q] # "sending"
  /\ Cardinality(InFlight(ChanOf[r])) < MaxInFlight
  /\ statusEvenOne
  /\ call' = [call EXCEPT ![r] = "sending"]
  /\ UNCHANGED <<answers, chan, statusEvenOne, stopped, runVars, recvVars, checker>>

SendRefused(r) ==
  /\ call[r] = "idle"
  /\ \A q \in Reqs : ChanOf[q] = ChanOf[r] => call[q] # "sending"
  /\ ~statusEvenOne
  /\ call' = [call EXCEPT ![r] = "refused"]
  /\ UNCHANGED <<answers, chan, statusEvenOne, stopped, runVars, recvVars, checker>>

Receive(c) ==
  /\ chan[c] # <<>>
  /\ \A q \in Reqs : ChanOf[q] = c => call[q] # "sending"
  /\ call' = [call EXCEPT ![Head(chan[c]).req] = "returned"]
  /\ chan' = [chan EXCEPT ![c] = Tail(@)]
  /\ UNCHANGED <<answers, statusEvenOne, stopped, runVars, recvVars, checker>>

-----------------------------------------------------------------------------
(* The goroutine run.                                                      *)

DialOk(n) ==
  /\ ~cancelled[n]
  /\ SetRun(n, "dial", "loop")
  /\ recv' = [recv EXCEPT ![n] = "reading"]
  /\ checker' = [checker EXCEPT ![n] = "idle"]
  /\ statusEvenOne' = TRUE
  /\ UNCHANGED <<callVars, stopped, hand, cancelled, nextMessageID, aged,
                 responseMap, wire, reply>>

DialFails(n) ==
  /\ SetRun(n, "dial", "ended")
  /\ OnlyRun

\* case req := <-conn.Requests, the encoding included.
Accept(n, r) ==
  /\ call[r] = "sending"
  /\ SetRun(n, "loop", IF r \in Unencodable THEN "reject" ELSE "store")
  /\ call' = [call EXCEPT ![r] = "accepted"]
  /\ hand' = [hand EXCEPT ![n] = {[id |-> nextMessageID[n], req |-> r]}]
  /\ nextMessageID' = [nextMessageID EXCEPT ![n] = NumberAfter(n)]
  /\ UNCHANGED <<answers, chan, statusEvenOne, stopped, cancelled, aged,
                 responseMap, recvVars, checker>>

RejectUnencodable(n) ==
  /\ SetRun(n, "reject", "loop")
  /\ \E e \in hand[n] : Put(e, NoResult)
  /\ hand' = [hand EXCEPT ![n] = {}]
  /\ UNCHANGED <<statusEvenOne, stopped, cancelled, nextMessageID, aged,
                 responseMap, recvVars, checker>>

\* An entry with the same number would be overwritten.
Store(n) ==
  /\ LockFree(n)
  /\ SetRun(n, "store", "write")
  /\ \E e \in hand[n] :
       responseMap' = [responseMap EXCEPT ![n] = {p \in @ : p.id # e.id} \cup {e}]
  /\ UNCHANGED <<callVars, statusEvenOne, stopped, hand, cancelled,
                 nextMessageID, aged, recvVars, checker>>

WriteOk(n) ==
  /\ SetRun(n, "write", "loop")
  /\ wire' = [wire EXCEPT ![n] = @ \cup hand[n]]
  /\ hand' = [hand EXCEPT ![n] = {}]
  /\ UNCHANGED <<callVars, statusEvenOne, stopped, cancelled, nextMessageID,
                 aged, responseMap, recv, reply, checker>>

WriteFails(n) ==
  /\ SetRun(n, "write", "drain")
  /\ hand' = [hand EXCEPT ![n] = {}]
  /\ UNCHANGED <<callVars, statusEvenOne, stopped, cancelled, nextMessageID,
                 aged, responseMap, recvVars, checker>>

\* case <-ctx.Done(): a close frame is written and done awaited for a second;
\* recv goes on meanwhile, as it does until DrainLock.
CtxDone(n) ==
  /\ cancelled[n]
  /\ SetRun(n, "loop", "drain")
  /\ OnlyRun

\* case <-done
DoneClosed(n) ==
  /\ recv[n] = "off"
  /\ SetRun(n, "loop", "drain")
  /\ OnlyRun

DrainLock(n) ==
  /\ LockFree(n)
  /\ SetRun(n, "drain", "draining")
  /\ OnlyRun

DrainOne(n) ==
  /\ run[n] = "draining"
  /\ \E e \in responseMap[n] : Put(e, NoResult) /\ Forget(n, e)
  /\ UNCHANGED <<statusEvenOne, stopped, run, hand, cancelled, nextMessageID,
                 aged, recvVars, checker>>

\* Mutant of Drained: the drain stops early.
DrainedAnyway(n) == TRUE

Drained(n) == responseMap[n] = {}

\* The map is empty now and the socket is closed: what recv and timeoutChecker
\* may still do on their way out touches nothing, and the wire is dead.
DrainEnd(n) ==
  /\ Drained(n)
  /\ SetRun(n, "draining", "ended")
  /\ recv' = [recv EXCEPT ![n] = "off"]
  /\ reply' = [reply EXCEPT ![n] = {}]
  /\ wire' = [wire EXCEPT ![n] = {}]
  /\ checker' = [checker EXCEPT ![n] = "off"]
  /\ UNCHANGED <<callVars, statusEvenOne, stopped, hand, cancelled,
                 nextMessageID, aged, responseMap>>

-----------------------------------------------------------------------------
(* The goroutine Run, between two incarnations of run.                     *)

\* Mutant of EvenOneAfterLoss: the flag follows the lost connection.
EvenOneCleared(n) == FALSE

\* What statusEvenOne becomes when a connection is lost: Run sets only
\* status[addr] back to StateOffline.
EvenOneAfterLoss(n) == statusEvenOne

\* case <-f: a fresh context under the one given to Run, a pause, run again.
Reconnect(n) ==
  /\ SetRun(n, "ended", "dial")
  /\ cancelled' = [cancelled EXCEPT ![n] = stopped]
  /\ nextMessageID' = [nextMessageID EXCEPT ![n] = 0]
  /\ aged' = [aged EXCEPT ![n] = 0]
  /\ statusEvenOne' = EvenOneAfterLoss(n)
  /\ UNCHANGED <<callVars, stopped, hand, responseMap, recvVars, checker>>

\* case <-ctx.Done() of Run; returning while run is still at work changes
\* nothing for run, so the model lets it return once run has ended.
RunReturns(n) ==
  /\ stopped
  /\ SetRun(n, "ended", "gone")
  /\ OnlyRun

-----------------------------------------------------------------------------
(* The goroutine recv.                                                     *)

\* A node answers in any order, or never.
RecvRead(n) ==
  /\ recv[n] = "reading"
  /\ \E m \in wire[n] : /\ wire' = [wire EXCEPT ![n] = @ \ {m}]
                        /\ reply' = [reply EXCEPT ![n] = {m}]
  /\ recv' = [recv EXCEPT ![n] = "locking"]
  /\ UNCHANGED <<callVars, statusEvenOne, stopped, runVars, checker>>

\* json.Unmarshal fails: the message is dropped.
RecvUnreadable(n) ==
  /\ recv[n] = "reading"
  /\ \E m \in wire[n] : wire' = [wire EXCEPT ![n] = @ \ {m}]
  /\ UNCHANGED <<callVars, statusEvenOne, stopped, runVars, recv, reply, checker>>

RecvFails(n) ==
  /\ recv[n] = "reading"
  /\ recv' = [recv EXCEPT ![n] = "off"]
  /\ UNCHANGED <<callVars, statusEvenOne, stopped, runVars, wire, reply, checker>>

\* resps.Map[res.ID]
Waiting(n) == {e \in responseMap[n] : \E m \in reply[n] : m.id = e.id}

RecvLookup(n) ==
  /\ recv[n] = "locking"
  /\ LockFree(n)
  /\ IF Waiting(n) # {}
       THEN /\ recv' = [recv EXCEPT ![n] = "holding"]
            /\ UNCHANGED reply
       ELSE /\ recv' = [recv EXCEPT ![n] = "reading"]
            /\ reply' = [reply EXCEPT ![n] = {}]
  /\ UNCHANGED <<callVars, statusEvenOne, stopped, runVars, wire, checker>>

RecvDone(n) == /\ recv' = [recv EXCEPT ![n] = "reading"]
               /\ reply' = [reply EXCEPT ![n] = {}]
               /\ UNCHANGED <<statusEvenOne, stopped, run, hand, cancelled,
                              nextMessageID, aged, wire, checker>>

RecvDeliver(n) ==
  /\ recv[n] = "holding"
  /\ \E e \in Waiting(n), m \in reply[n] : Put(e, m.req) /\ Forget(n, e)
  /\ RecvDone(n)

\* case <-time.After(time.Second * 5): the reply is dropped, the entry too.
RecvGivesUp(n) ==
  /\ recv[n] = "holding"
  /\ \E e \in Waiting(n) : ~HasRoom(ChanOf[e.req]) /\ Forget(n, e)
  /\ RecvDone(n)
  /\ UNCHANGED callVars

-----------------------------------------------------------------------------
(* The goroutine timeoutChecker.                                           *)

\* Time passes: some waiting request, and all older ones, get too old.
Age(n) ==
  /\ \E e \in responseMap[n] : /\ e.id >= aged[n]
                               /\ aged' = [aged EXCEPT ![n] = e.id + 1]
  /\ UNCHANGED <<callVars, statusEvenOne, stopped, run, hand, cancelled,
                 nextMessageID, responseMap, recvVars, checker>>

\* A tick that finds nothing too old leaves no trace and is left out.
CheckerTick(n) ==
  /\ checker[n] = "idle"
  /\ LockFree(n)
  /\ Expired(n) # {}
  /\ checker' = [checker EXCEPT ![n] = "holding"]
  /\ UNCHANGED <<callVars, statusEvenOne, stopped, runVars, recvVars>>

CheckerExpire(n) ==
  /\ checker[n] = "holding"
  /\ \E e \in Expired(n) : Put(e, NoResult) /\ Forget(n, e)
  /\ UNCHANGED <<statusEvenOne, stopped, run, hand, cancelled, nextMessageID,
                 aged, recvVars, checker>>

CheckerTickEnds(n) ==
  /\ checker[n] = "holding"
  /\ Expired(n) = {}
  /\ checker' = [checker EXCEPT ![n] = "idle"]
  /\ UNCHANGED <<callVars, statusEvenOne, stopped, runVars, recvVars>>

CheckerExit(n) ==
  /\ checker[n] = "idle"
  /\ recv[n] = "off" \/ cancelled[n]
  /\ checker' = [checker EXCEPT ![n] = "off"]
  /\ UNCHANGED <<callVars, statusEvenOne, stopped, runVars, recvVars>>

-----------------------------------------------------------------------------
(* The surroundings: HealthCheck, and the end of the process.              *)

\* Ten unhealthy checks in a row: every reset function is called.
ResetAll ==
  /\ statusEvenOne
  /\ \E n \in Nodes : ~cancelled[n]
  /\ cancelled' = [n \in Nodes |-> TRUE]
  /\ UNCHANGED <<callVars, statusEvenOne, stopped, run, hand, nextMessageID,
                 aged, responseMap, recvVars, checker>>

Shutdown ==
  /\ ~stopped
  /\ stopped' = TRUE
  /\ cancelled' = [n \in Nodes |-> TRUE]
  /\ UNCHANGED <<callVars, statusEvenOne, run, hand, nextMessageID, aged,
                 responseMap, recvVars, checker>>

Terminated == /\ \A n \in Nodes : run[n] = "gone"
              /\ UNCHANGED vars

-----------------------------------------------------------------------------
CallerStep == \/ \E r \in Reqs : SendOffers(r) \/ SendRefused(r)
              \/ \E c \in Chans : Receive(c)

\* What run does on its own once it has a request or is leaving.
RunWork(n) == \/ RejectUnencodable(n) \/ Store(n) \/ WriteOk(n) \/ WriteFails(n)
              \/ CtxDone(n) \/ DoneClosed(n)
              \/ DrainLock(n) \/ DrainOne(n) \/ DrainEnd(n)

RunStep(n) == \/ DialOk(n) \/ DialFails(n) \/ Reconnect(n) \/ RunReturns(n)
              \/ \E r \in Reqs : Accept(n, r)
              \/ RunWork(n)

\* What recv does once it has read a reply.
RecvWork(n) == RecvLookup(n) \/ RecvDeliver(n) \/ RecvGivesUp(n)

RecvStep(n) == RecvRead(n) \/ RecvUnreadable(n) \/ RecvFails(n) \/ RecvWork(n)

CheckerStep(n) == \/ CheckerTick(n) \/ CheckerExpire(n)
                  \/ CheckerTickEnds(n) \/ CheckerExit(n)

Next == \/ CallerStep
        \/ \E n \in Nodes : RunStep(n) \/ RecvStep(n) \/ CheckerStep(n) \/ Age(n)
        \/ ResetAll
        \/ Shutdown
        \/ Terminated

Spec == Init /\ [][Next]_vars

\* Goroutines are scheduled and time passes; nothing is asked of the callers,
\* of the nodes or of the network, except that a write ends one way or another.
Fairness == \A n \in Nodes : /\ WF_vars(RunWork(n))
                             /\ WF_vars(RecvWork(n))
                             /\ WF_vars(CheckerStep(n))
                             /\ WF_vars(Age(n))

FairSpec == Spec /\ Fairness

-----------------------------------------------------------------------------
(* Properties.                                                             *)

\* Types of all variables.  (That hand and reply hold one item at most, and hand
\* one only while run works on it, is part of HandsInv.)
TypeOK ==
  /\ call \in [Reqs -> CallStates]
  /\ answers \in [Reqs -> Nat]
  /\ chan \in [Chans -> Seq(Answers)]
  /\ statusEvenOne \in BOOLEAN
  /\ stopped \in BOOLEAN
  /\ run \in [Nodes -> RunStates]
  /\ hand \in [Nodes -> SUBSET Numbered]
  /\ cancelled \in [Nodes -> BOOLEAN]
  /\ nextMessageID \in [Nodes -> Nat]
  /\ aged \in [Nodes -> Nat]
  /\ responseMap \in [Nodes -> SUBSET Numbered]
  /\ wire \in [Nodes -> SUBSET Numbered]
  /\ recv \in [Nodes -> RecvStates]
  /\ reply \in [Nodes -> SUBSET Numbered]
  /\ checker \in [Nodes -> CheckerStates]

\* The requests a connection still owes an answer: those in its map, and the
\* one run holds until it is stored or rejected.
Owed(n) == responseMap[n] \cup
             (IF run[n] \in {"reject", "store"} THEN hand[n] ELSE {})

\* No request is answered twice, whichever of recv, timeoutChecker, the drain
\* and the encoder's error path get to it (a second answer would be taken for
\* the answer to a later request of the same channel).
AtMostOneAnswer == \A r \in Reqs : answers[r] <= 1

\* What arrives on a channel was asked for on that channel, and a reply is
\* the node's reply to that very request, although numbers start again at 0
\* with every reconnect and replies come late and in any order.
RightAnswer ==
  \A c \in Chans : \A i \in 1..Len(chan[c]) :
    LET a == chan[c][i]
    IN  ChanOf[a.req] = c /\ a.of \in {a.req, NoResult}

\* A request that was accepted and has no answer yet is in the hands of some
\* connection: neither a disconnect, a failed write nor a late reply drops it.
NoRequestLost ==
  \A r \in Reqs :
    call[r] = "accepted" /\ answers[r] = 0
      => \E n \in Nodes : \E e \in Owed(n) : e.req = r

\* When callers keep to their limit, no goroutine ever waits for room in a
\* response channel: timeoutChecker and the drain would wait with L held, and
\* with them the whole connection; recv would drop the reply after 5 seconds.
AnswerersNeverBlock ==
  \A n \in Nodes : \A e \in Owed(n) : HasRoom(ChanOf[e.req])

\* The drain leaves nothing behind in the map of an incarnation that is over.
NoEntryOutlivesRun ==
  \A n \in Nodes :
    run[n] \in {"dial", "ended", "gone"} => Owed(n) = {}

\* The inductive invariant behind the properties above, named by part.

\* Everything that carries a number of the present incarnation of run.
Seen(n) == responseMap[n] \cup wire[n] \cup reply[n] \cup hand[n]

\* Numbers identify requests, and a request not yet stored has a fresh one.
NumbersInv ==
  \A n \in Nodes :
    /\ \A a \in Seen(n) : a.id < nextMessageID[n]
    /\ \A a, b \in Seen(n) : a.id = b.id => a = b
    /\ run[n] \in {"reject", "store"} =>
         \A h \in hand[n] : \A a \in responseMap[n] \cup wire[n] \cup reply[n] :
           a.id # h.id

\* run and recv hold one item at most, and only while they work on it; an
\* incarnation that is over, or not yet begun, has left nothing.
HandsInv ==
  \A n \in Nodes :
    /\ \A a, b \in hand[n] : a = b
    /\ \A a, b \in reply[n] : a = b
    /\ run[n] \notin {"reject", "store", "write"} => hand[n] = {}
    /\ run[n] \in {"dial", "ended", "gone"} => Seen(n) = {}

\* What is owed is unanswered and owed by one entry of one connection.
OwnerInv ==
  \A n \in Nodes : \A e \in Owed(n) :
    /\ call[e.req] = "accepted" /\ answers[e.req] = 0
    /\ \A m \in Nodes : \A f \in Owed(m) : e.req = f.req => n = m /\ e = f

\* What lies in a channel is the one answer to a request still waited for.
ChanInv ==
  \A c \in Chans :
    /\ \A i \in 1..Len(chan[c]) :
         /\ ChanOf[chan[c][i].req] = c
         /\ chan[c][i].of \in {chan[c][i].req, NoResult}
         /\ call[chan[c][i].req] = "accepted" /\ answers[chan[c][i].req] = 1
    /\ \A i, j \in 1..Len(chan[c]) : chan[c][i].req = chan[c][j].req => i = j

CallInv ==
  \A r \in Reqs :
    /\ answers[r] <= 1
    /\ call[r] \in {"idle", "sending", "refused"} => answers[r] = 0
    /\ call[r] \in {"sending", "accepted", "returned"} => statusEvenOne

\* Inductive invariant of the connection layer: what makes one answer per
\* request, and the right one, survive reconnects and late replies.
SafetyInv == NumbersInv /\ HandsInv /\ OwnerInv /\ ChanInv /\ CallInv

\* Once one Send was taken none is refused any more, whatever connections are
\* lost since: callers rely on it when they return at the first failed Send of
\* a series without waiting for the answers to the earlier ones.
NeverRefusedLater ==
  [][\A r \in Reqs : call[r] = "idle" /\ call'[r] = "refused"
        => \A q \in Reqs : call[q] \notin {"sending", "accepted", "returned"}]_vars

\* Every accepted request is answered in the end, even if the node never
\* replies, the connection breaks or the worker is being stopped.
EveryRequestAnswered ==
  \A r \in Reqs : call[r] = "accepted" ~> answers[r] = 1

\* The connection layer implements the service its callers see.
PhaseOf(r) == IF call[r] \notin {"accepted", "returned"} THEN call[r]
              ELSE IF answers[r] = 0 THEN "pending"
              ELSE IF answers[r] = 1 THEN "answered" ELSE "answered twice"

Service == INSTANCE RpcService WITH phase <- [r \in Reqs |-> PhaseOf(r)],
                                    open  <- statusEvenOne
ImplementsService == Service!SvcSpec
=============================================================================

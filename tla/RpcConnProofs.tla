--------------------------- MODULE RpcConnProofs ---------------------------
(***************************************************************************)
(* What is proved of RpcConn for any number of nodes, requests and         *)
(* channels.                                                               *)
(***************************************************************************)
EXTENDS RpcConn, FiniteSetTheorems, TLAPS

USE DEF OnlyRun

-----------------------------------------------------------------------------
(* Type correctness.                                                       *)

\* An answer put on a channel leaves the caller's part well typed.
LEMMA PutType ==
  ASSUME TypeOK, NEW e \in Numbered, NEW x \in Reqs \cup {NoResult}, Put(e, x)
  PROVE  /\ call' \in [Reqs -> CallStates]
         /\ answers' \in [Reqs -> Nat]
         /\ chan' \in [Chans -> Seq(Answers)]
<1> DEFINE c == ChanOf[e.req]
           a == [req |-> e.req, of |-> x]
<1>1. c \in Chans /\ a \in Answers
  BY ConnAssumption DEF Numbered, Answers
<1>2. chan' = [chan EXCEPT ![c] = Append(chan[c], a)]
  BY DEF Put
<1>3. Append(chan[c], a) \in Seq(Answers)
  BY <1>1 DEF TypeOK
<1>4. chan' \in [Chans -> Seq(Answers)]
  BY <1>1, <1>2, <1>3 DEF TypeOK
<1>5. /\ call' = call
      /\ answers' = [answers EXCEPT ![e.req] = answers[e.req] + 1]
  BY DEF Put
<1> QED
  BY <1>4, <1>5 DEF TypeOK, Numbered

\* Removing an entry from a response map leaves it well typed.
LEMMA ForgetType ==
  ASSUME TypeOK, NEW n \in Nodes, NEW e, Forget(n, e)
  PROVE  responseMap' \in [Nodes -> SUBSET Numbered]
  BY DEF TypeOK, Forget

\* Every step keeps the types.
LEMMA TypeStep == TypeOK /\ [Next]_vars => TypeOK'
<1> SUFFICES ASSUME TypeOK, [Next]_vars PROVE TypeOK'
  OBVIOUS
<1> USE DEF callVars, runVars, recvVars
<1>1. CASE UNCHANGED vars
  BY <1>1 DEF vars, TypeOK
<1>2. CASE CallerStep
  <2>1. ASSUME NEW r \in Reqs, SendOffers(r) \/ SendRefused(r) PROVE TypeOK'
    BY <2>1 DEF SendOffers, SendRefused, TypeOK, CallStates
  <2>2. ASSUME NEW c \in Chans, Receive(c) PROVE TypeOK'
    <3>1. chan[c] \in Seq(Answers) /\ chan[c] # <<>>
      BY <2>2 DEF Receive, TypeOK
    <3>2. Tail(chan[c]) \in Seq(Answers)
      BY <3>1
    <3> QED
      BY <2>2, <3>2 DEF Receive, TypeOK, CallStates
  <2> QED
    BY <1>2, <2>1, <2>2 DEF CallerStep
<1>3. ASSUME NEW n \in Nodes, RunStep(n) PROVE TypeOK'
  <2>1. CASE DialOk(n) \/ DialFails(n) \/ Reconnect(n) \/ RunReturns(n)
    <3>1. CASE DialOk(n)
      BY <3>1 DEF DialOk, SetRun, TypeOK, RunStates, RecvStates, CheckerStates
    <3>2. CASE DialFails(n) \/ RunReturns(n)
      BY <3>2 DEF DialFails, RunReturns, SetRun, TypeOK, RunStates
    <3>3. CASE Reconnect(n)
      BY <3>3 DEF Reconnect, SetRun, EvenOneAfterLoss, TypeOK, RunStates
    <3> QED
      BY <2>1, <3>1, <3>2, <3>3
  <2>2. ASSUME NEW r \in Reqs, Accept(n, r) PROVE TypeOK'
    BY <2>2 DEF Accept, SetRun, NumberAfter, TypeOK, CallStates, RunStates, Numbered
  <2>3. CASE RejectUnencodable(n)
    <3>1. PICK e \in hand[n] : Put(e, NoResult)
      BY <2>3 DEF RejectUnencodable
    <3>2. e \in Numbered
      BY <3>1 DEF TypeOK
    <3> QED
      BY <2>3, <3>1, <3>2, PutType DEF RejectUnencodable, SetRun, TypeOK, RunStates
  <2>4. CASE Store(n)
    BY <2>4 DEF Store, SetRun, TypeOK, RunStates
  <2>5. CASE WriteOk(n) \/ WriteFails(n)
    <3>1. CASE WriteOk(n)
      BY <3>1 DEF WriteOk, SetRun, TypeOK, RunStates
    <3>2. CASE WriteFails(n)
      BY <3>2 DEF WriteFails, SetRun, TypeOK, RunStates
    <3> QED
      BY <2>5, <3>1, <3>2
  <2>6. CASE CtxDone(n) \/ DoneClosed(n) \/ DrainLock(n)
    BY <2>6 DEF CtxDone, DoneClosed, DrainLock, SetRun, TypeOK, RunStates
  <2>7. CASE DrainOne(n)
    <3>1. PICK e \in responseMap[n] : Put(e, NoResult) /\ Forget(n, e)
      BY <2>7 DEF DrainOne
    <3>2. e \in Numbered
      BY <3>1 DEF TypeOK
    <3> QED
      BY <2>7, <3>1, <3>2, PutType, ForgetType DEF DrainOne, TypeOK
  <2>8. CASE DrainEnd(n)
    BY <2>8 DEF DrainEnd, SetRun, TypeOK, RunStates, RecvStates, CheckerStates
  <2> QED
    BY <1>3, <2>1, <2>2, <2>3, <2>4, <2>5, <2>6, <2>7, <2>8 DEF RunStep, RunWork
<1>4. ASSUME NEW n \in Nodes, RecvStep(n) PROVE TypeOK'
  <2>1. CASE RecvRead(n) \/ RecvUnreadable(n) \/ RecvFails(n) \/ RecvLookup(n)
    <3>1. CASE RecvRead(n)
      BY <3>1 DEF RecvRead, TypeOK, RecvStates
    <3>2. CASE RecvUnreadable(n) \/ RecvFails(n)
      BY <3>2 DEF RecvUnreadable, RecvFails, TypeOK, RecvStates
    <3>3. CASE RecvLookup(n)
      BY <3>3 DEF RecvLookup, TypeOK, RecvStates
    <3> QED
      BY <2>1, <3>1, <3>2, <3>3
  <2>2. CASE RecvDeliver(n)
    <3>1. PICK e \in Waiting(n), m \in reply[n] : Put(e, m.req) /\ Forget(n, e)
      BY <2>2 DEF RecvDeliver
    <3>2. e \in Numbered /\ m \in Numbered /\ m.req \in Reqs
      BY <3>1 DEF TypeOK, Waiting, Numbered
    <3> QED
      BY <2>2, <3>1, <3>2, PutType, ForgetType
         DEF RecvDeliver, RecvDone, TypeOK, RecvStates
  <2>3. CASE RecvGivesUp(n)
    <3>1. PICK e \in Waiting(n) : Forget(n, e)
      BY <2>3 DEF RecvGivesUp
    <3> QED
      BY <2>3, <3>1, ForgetType DEF RecvGivesUp, RecvDone, TypeOK, RecvStates
  <2> QED
    BY <1>4, <2>1, <2>2, <2>3 DEF RecvStep, RecvWork
<1>5. ASSUME NEW n \in Nodes, CheckerStep(n) PROVE TypeOK'
  <2>1. CASE CheckerTick(n) \/ CheckerTickEnds(n) \/ CheckerExit(n)
    BY <2>1 DEF CheckerTick, CheckerTickEnds, CheckerExit, TypeOK, CheckerStates
  <2>2. CASE CheckerExpire(n)
    <3>1. PICK e \in Expired(n) : Put(e, NoResult) /\ Forget(n, e)
      BY <2>2 DEF CheckerExpire
    <3>2. e \in Numbered
      BY <3>1 DEF TypeOK, Expired
    <3> QED
      BY <2>2, <3>1, <3>2, PutType, ForgetType DEF CheckerExpire, TypeOK
  <2> QED
    BY <1>5, <2>1, <2>2 DEF CheckerStep
<1>6. ASSUME NEW n \in Nodes, Age(n) PROVE TypeOK'
  BY <1>6 DEF Age, TypeOK, Numbered
<1>7. CASE ResetAll \/ Shutdown
  BY <1>7 DEF ResetAll, Shutdown, TypeOK
<1>8. CASE Terminated
  BY <1>8 DEF Terminated, vars, TypeOK
<1> QED
  BY <1>1, <1>2, <1>3, <1>4, <1>5, <1>6, <1>7, <1>8 DEF Next

\* Every variable of the connection layer keeps its type.
THEOREM TypeCorrect == Spec => []TypeOK
<1>1. Init => TypeOK
  <2> SUFFICES ASSUME Init PROVE TypeOK
    OBVIOUS
  <2>1. <<>> \in Seq(Answers)
    OBVIOUS
  <2>2. chan \in [Chans -> Seq(Answers)]
    BY <2>1 DEF Init
  <2>3. /\ call \in [Reqs -> CallStates] /\ run \in [Nodes -> RunStates]
                /\ recv \in [Nodes -> RecvStates] /\ checker \in [Nodes -> CheckerStates]
    BY DEF Init, CallStates, RunStates, RecvStates, CheckerStates
  <2>4. /\ hand \in [Nodes -> SUBSET Numbered] /\ wire \in [Nodes -> SUBSET Numbered]
                /\ responseMap \in [Nodes -> SUBSET Numbered]
                /\ reply \in [Nodes -> SUBSET Numbered]
    BY DEF Init
  <2>5. /\ answers \in [Reqs -> Nat] /\ nextMessageID \in [Nodes -> Nat]
                /\ aged \in [Nodes -> Nat] /\ cancelled \in [Nodes -> BOOLEAN]
                /\ statusEvenOne \in BOOLEAN /\ stopped \in BOOLEAN
    BY DEF Init
  <2> QED
    BY <2>2, <2>3, <2>4, <2>5 DEF TypeOK
<1> QED
  BY <1>1, TypeStep, PTL DEF Spec

-----------------------------------------------------------------------------
(* The safety invariant: what one connection numbers and holds.            *)

\* NumbersInv and HandsInv speak of one connection at a time.
NodeInv(n) ==
  /\ \A a \in Seen(n) : a.id < nextMessageID[n]
  /\ \A a, b \in Seen(n) : a.id = b.id => a = b
  /\ run[n] \in {"reject", "store"} =>
       \A h \in hand[n] : \A a \in responseMap[n] \cup wire[n] \cup reply[n] :
         a.id # h.id
  /\ \A a, b \in hand[n] : a = b
  /\ \A a, b \in reply[n] : a = b
  /\ run[n] \notin {"reject", "store", "write"} => hand[n] = {}
  /\ run[n] \in {"dial", "ended", "gone"} => Seen(n) = {}

\* Both parts together are NodeInv of every connection.
LEMMA NodeInvAll == (NumbersInv /\ HandsInv) <=> \A n \in Nodes : NodeInv(n)
  BY DEF NumbersInv, HandsInv, NodeInv

\* A step that leaves a connection's numbering alone and only takes things
\* away from it, or moves a reply from the wire into recv's hands, keeps its
\* invariant.
LEMMA NodeShrinks ==
  ASSUME NEW n \in Nodes, NodeInv(n),
         nextMessageID'[n] = nextMessageID[n],
         responseMap'[n] \subseteq responseMap[n],
         wire'[n] \subseteq wire[n],
         reply'[n] \subseteq reply[n] \cup wire[n],
         hand'[n] \subseteq hand[n],
         \A a, b \in reply'[n] : a = b,
         run'[n] \in {"reject", "store"} => run[n] \in {"reject", "store"},
         run'[n] \notin {"reject", "store", "write"} => hand'[n] = {},
         run'[n] \in {"dial", "ended", "gone"} => Seen(n)' = {}
  PROVE  NodeInv(n)'
<1>1. Seen(n)' \subseteq Seen(n)
  BY DEF Seen
<1>2. responseMap'[n] \cup wire'[n] \cup reply'[n]
        \subseteq responseMap[n] \cup wire[n] \cup reply[n]
  OBVIOUS
<1> QED
  BY <1>1, <1>2 DEF NodeInv

\* A step of something else keeps it as well.
LEMMA NodeUntouched ==
  ASSUME NEW n \in Nodes, NodeInv(n),
         run'[n] = run[n], hand'[n] = hand[n], nextMessageID'[n] = nextMessageID[n],
         responseMap'[n] = responseMap[n], wire'[n] = wire[n], reply'[n] = reply[n]
  PROVE  NodeInv(n)'
  BY DEF NodeInv, Seen

\* Every step of a connection's own goroutines keeps its invariant.
LEMMA NodeRunStep ==
  ASSUME TypeOK, NEW n \in Nodes, NodeInv(n), RunStep(n)
  PROVE  NodeInv(n)'
<1> USE DEF callVars, runVars, recvVars
<1>1. CASE DialOk(n)
  <2>1. run[n] = "dial" /\ run'[n] = "loop" /\ hand[n] = {}
    BY <1>1 DEF DialOk, SetRun, NodeInv, TypeOK
  <2>2. UNCHANGED <<nextMessageID, responseMap, wire, reply, hand>>
    BY <1>1 DEF DialOk
  <2> QED
    BY <2>1, <2>2, NodeShrinks DEF NodeInv
<1>2. CASE DialFails(n) \/ RunReturns(n)
  <2>1. Seen(n) = {}
    BY <1>2 DEF DialFails, RunReturns, SetRun, NodeInv
  <2>2. Seen(n)' = Seen(n)
    BY <1>2 DEF DialFails, RunReturns, Seen
  <2> QED
    BY <1>2, <2>1, <2>2, NodeShrinks DEF DialFails, RunReturns, SetRun, NodeInv, TypeOK
<1>3. CASE Reconnect(n)
  <2>1. Seen(n) = {}
    BY <1>3 DEF Reconnect, SetRun, NodeInv
  <2>2. Seen(n)' = Seen(n)
    BY <1>3 DEF Reconnect, Seen
  <2> QED
    BY <1>3, <2>1, <2>2 DEF Reconnect, SetRun, NodeInv, Seen, TypeOK
<1>4. ASSUME NEW r \in Reqs, Accept(n, r) PROVE NodeInv(n)'
  <2> DEFINE h == [id |-> nextMessageID[n], req |-> r]
  <2>1. /\ hand'[n] = {h} /\ hand[n] = {}
        /\ nextMessageID[n] \in Nat
        /\ nextMessageID'[n] = nextMessageID[n] + 1
        /\ run'[n] \in {"reject", "store"}
        /\ UNCHANGED <<responseMap, wire, reply>>
    BY <1>4 DEF Accept, SetRun, NumberAfter, NodeInv, TypeOK
  <2>2. Seen(n)' = Seen(n) \cup {h}
    BY <2>1 DEF Seen
  <2>3. \A a \in Seen(n) : a.id \in Nat /\ a.id < nextMessageID[n]
    BY DEF NodeInv, Seen, TypeOK, Numbered
  <2>4. h.id = nextMessageID[n]
    OBVIOUS
  <2>5. \A a \in Seen(n)' : a.id < nextMessageID'[n]
    BY <2>1, <2>2, <2>3, <2>4
  <2>6. \A a, b \in Seen(n)' : a.id = b.id => a = b
    BY <2>1, <2>2, <2>3, <2>4 DEF NodeInv
  <2>7. \A a \in (responseMap[n] \cup wire[n] \cup reply[n])' : a.id # h.id
    BY <2>1, <2>3, <2>4 DEF Seen
  <2> QED
    BY <2>1, <2>5, <2>6, <2>7 DEF NodeInv
<1>5. CASE RejectUnencodable(n)
  <2>1. run'[n] = "loop" /\ hand'[n] = {}
    BY <1>5 DEF RejectUnencodable, SetRun, TypeOK
  <2>2. UNCHANGED <<nextMessageID, responseMap, wire, reply>>
    BY <1>5 DEF RejectUnencodable
  <2> QED
    BY <2>1, <2>2, NodeShrinks DEF NodeInv
<1>6. CASE Store(n)
  <2>1. PICK e \in hand[n] :
          responseMap' = [responseMap EXCEPT ![n] = {p \in @ : p.id # e.id} \cup {e}]
    BY <1>6 DEF Store
  <2>2. Seen(n)' \subseteq Seen(n)
    BY <1>6, <2>1 DEF Store, Seen, TypeOK
  <2>3. run'[n] = "write"
    BY <1>6 DEF Store, SetRun, TypeOK
  <2> QED
    BY <1>6, <2>2, <2>3 DEF Store, NodeInv
<1>7. CASE WriteOk(n)
  <2>1. Seen(n)' \subseteq Seen(n)
    BY <1>7 DEF WriteOk, Seen, TypeOK
  <2>2. run'[n] = "loop" /\ hand'[n] = {}
    BY <1>7 DEF WriteOk, SetRun, TypeOK
  <2> QED
    BY <1>7, <2>1, <2>2 DEF WriteOk, NodeInv
<1>8. CASE WriteFails(n)
  <2>1. run'[n] = "drain" /\ hand'[n] = {}
    BY <1>8 DEF WriteFails, SetRun, TypeOK
  <2>2. UNCHANGED <<nextMessageID, responseMap, wire, reply>>
    BY <1>8 DEF WriteFails
  <2> QED
    BY <2>1, <2>2, NodeShrinks DEF NodeInv
<1>9. CASE CtxDone(n) \/ DoneClosed(n) \/ DrainLock(n)
  <2>1. run[n] \in {"loop", "drain"} /\ run'[n] \in {"drain", "draining"}
    BY <1>9 DEF CtxDone, DoneClosed, DrainLock, SetRun, TypeOK
  <2>2. UNCHANGED <<nextMessageID, responseMap, wire, reply, hand>>
    BY <1>9 DEF CtxDone, DoneClosed, DrainLock
  <2>3. hand[n] = {}
    BY <2>1 DEF NodeInv
  <2> QED
    BY <2>1, <2>2, <2>3, NodeShrinks DEF NodeInv
<1>10. CASE DrainOne(n)
  <2>1. responseMap'[n] \subseteq responseMap[n]
    BY <1>10 DEF DrainOne, Forget, TypeOK
  <2> QED
    <3>1. run[n] = "draining" /\ hand[n] = {}
      BY <1>10 DEF DrainOne, NodeInv
    <3>2. UNCHANGED <<run, nextMessageID, wire, reply, hand>>
      BY <1>10 DEF DrainOne
    <3> QED
      BY <2>1, <3>1, <3>2, NodeShrinks DEF NodeInv
<1>11. CASE DrainEnd(n)
  <2>1. /\ run'[n] = "ended" /\ hand[n] = {} /\ responseMap[n] = {}
        /\ reply'[n] = {} /\ wire'[n] = {}
        /\ UNCHANGED <<hand, responseMap, nextMessageID>>
    BY <1>11 DEF DrainEnd, Drained, SetRun, NodeInv, TypeOK
  <2>2. Seen(n)' = {}
    BY <2>1 DEF Seen
  <2> QED
    BY <2>1, <2>2, NodeShrinks
<1> QED
  BY <1>1, <1>2, <1>3, <1>4, <1>5, <1>6, <1>7, <1>8, <1>9, <1>10, <1>11
     DEF RunStep, RunWork

\* So do the steps of recv and of timeoutChecker.
LEMMA NodeRecvStep ==
  ASSUME TypeOK, NEW n \in Nodes, NodeInv(n),
         RecvStep(n) \/ CheckerStep(n) \/ Age(n)
  PROVE  NodeInv(n)'
<1> USE DEF callVars, runVars, recvVars
<1>0. run[n] \in {"dial", "ended", "gone"} => /\ wire[n] = {} /\ reply[n] = {}
                                            /\ responseMap[n] = {}
  BY DEF NodeInv, Seen
<1>1. CASE RecvRead(n)
  <2>1. PICK m \in wire[n] : /\ wire' = [wire EXCEPT ![n] = @ \ {m}]
                             /\ reply' = [reply EXCEPT ![n] = {m}]
    BY <1>1 DEF RecvRead
  <2>2. /\ wire'[n] \subseteq wire[n] /\ reply'[n] = {m}
        /\ UNCHANGED <<run, hand, nextMessageID, responseMap>>
    BY <1>1, <2>1 DEF RecvRead, TypeOK
  <2> QED
    BY <1>0, <2>1, <2>2, NodeShrinks DEF NodeInv
<1>2. CASE RecvUnreadable(n)
  <2>1. wire'[n] \subseteq wire[n] /\ wire[n] # {}
    BY <1>2 DEF RecvUnreadable, TypeOK
  <2> QED
    BY <1>0, <1>2, <2>1, NodeShrinks DEF RecvUnreadable, NodeInv
<1>3. CASE RecvLookup(n)
  <2>1. reply'[n] \subseteq reply[n]
    BY <1>3 DEF RecvLookup, TypeOK
  <2>2. run[n] \in {"dial", "ended", "gone"} => Seen(n)' = {}
    BY <1>3, <2>1 DEF RecvLookup, NodeInv, Seen
  <2> QED
    BY <1>3, <2>1, <2>2, NodeShrinks DEF RecvLookup, NodeInv
<1>4. CASE RecvDeliver(n) \/ RecvGivesUp(n)
  <2>1. /\ responseMap'[n] \subseteq responseMap[n] /\ responseMap[n] # {}
        /\ reply'[n] = {}
    BY <1>4 DEF RecvDeliver, RecvGivesUp, RecvDone, Forget, Waiting, TypeOK
  <2> QED
    BY <1>0, <1>4, <2>1, NodeShrinks DEF RecvDeliver, RecvGivesUp, RecvDone, NodeInv
<1>5. CASE CheckerExpire(n)
  <2>1. responseMap'[n] \subseteq responseMap[n] /\ responseMap[n] # {}
    BY <1>5 DEF CheckerExpire, Expired, Forget, TypeOK
  <2> QED
    BY <1>0, <1>5, <2>1, NodeShrinks DEF CheckerExpire, NodeInv
<1>6. CASE RecvFails(n)
  BY <1>6, NodeUntouched DEF RecvFails
<1>7. CASE CheckerTick(n) \/ CheckerTickEnds(n) \/ CheckerExit(n)
  BY <1>7, NodeUntouched DEF CheckerTick, CheckerTickEnds, CheckerExit
<1>8. CASE Age(n)
  BY <1>8, NodeUntouched DEF Age
<1> QED
  BY <1>1, <1>2, <1>3, <1>4, <1>5, <1>6, <1>7, <1>8
     DEF RecvStep, RecvWork, CheckerStep

\* A goroutine of one connection does not touch another connection.
LEMMA Frame ==
  ASSUME TypeOK, NEW k \in Nodes, NEW n \in Nodes, n # k,
         RunStep(k) \/ RecvStep(k) \/ CheckerStep(k) \/ Age(k)
  PROVE  /\ run'[n] = run[n] /\ hand'[n] = hand[n]
         /\ nextMessageID'[n] = nextMessageID[n]
         /\ responseMap'[n] = responseMap[n]
         /\ wire'[n] = wire[n] /\ reply'[n] = reply[n]
<1> USE DEF callVars, runVars, recvVars, TypeOK, SetRun
<1>1. CASE DialOk(k) \/ DialFails(k) \/ RunReturns(k)
  BY <1>1 DEF DialOk, DialFails, RunReturns
<1>2. CASE Reconnect(k)
  BY <1>2 DEF Reconnect
<1>3. ASSUME NEW r \in Reqs, Accept(k, r)
      PROVE  /\ run'[n] = run[n] /\ hand'[n] = hand[n]
             /\ nextMessageID'[n] = nextMessageID[n]
             /\ UNCHANGED <<responseMap, wire, reply>>
  BY <1>3 DEF Accept
<1>4. CASE RejectUnencodable(k)
  BY <1>4 DEF RejectUnencodable
<1>5. CASE Store(k)
  BY <1>5 DEF Store
<1>6. CASE WriteOk(k)
  BY <1>6 DEF WriteOk
<1>7. CASE WriteFails(k) \/ CtxDone(k) \/ DoneClosed(k) \/ DrainLock(k)
  BY <1>7 DEF WriteFails, CtxDone, DoneClosed, DrainLock
<1>8. CASE DrainOne(k)
  BY <1>8 DEF DrainOne, Forget
<1>9. CASE DrainEnd(k)
  BY <1>9 DEF DrainEnd
<1>10. CASE RecvRead(k)
  BY <1>10 DEF RecvRead
<1>11. CASE RecvUnreadable(k) \/ RecvFails(k) \/ RecvLookup(k)
  BY <1>11 DEF RecvUnreadable, RecvFails, RecvLookup
<1>12. CASE RecvDeliver(k) \/ RecvGivesUp(k)
  BY <1>12 DEF RecvDeliver, RecvGivesUp, RecvDone, Forget
<1>13. CASE CheckerStep(k)
  BY <1>13 DEF CheckerStep, CheckerTick, CheckerExpire, CheckerTickEnds, CheckerExit, Forget
<1>14. CASE Age(k)
  BY <1>14 DEF Age
<1> QED
  BY <1>1, <1>2, <1>3, <1>4, <1>5, <1>6, <1>7, <1>8, <1>9, <1>10, <1>11, <1>12,
     <1>13, <1>14 DEF RunStep, RunWork, RecvStep, RecvWork

\* Every step of the system keeps the invariant of every connection.
LEMMA NodeStep ==
  ASSUME TypeOK, NumbersInv, HandsInv, [Next]_vars
  PROVE  NumbersInv' /\ HandsInv'
<1> SUFFICES ASSUME NEW n \in Nodes PROVE NodeInv(n)'
  BY DEF NumbersInv, HandsInv, NodeInv
<1>0. NodeInv(n)
  BY NodeInvAll
<1>1. ASSUME NEW k \in Nodes, RunStep(k) \/ RecvStep(k) \/ CheckerStep(k) \/ Age(k)
      PROVE  NodeInv(n)'
  <2>1. CASE k = n
    BY <1>0, <1>1, <2>1, NodeRunStep, NodeRecvStep
  <2>2. CASE k # n
    BY <1>0, <1>1, <2>2, Frame, NodeUntouched
  <2> QED
    BY <2>1, <2>2
<1>2. CASE CallerStep \/ ResetAll \/ Shutdown \/ Terminated \/ UNCHANGED vars
  <2>1. UNCHANGED <<run, hand, nextMessageID, responseMap, wire, reply>>
    BY <1>2 DEF CallerStep, SendOffers, SendRefused, Receive, ResetAll, Shutdown,
                Terminated, vars, runVars, recvVars
  <2> QED
    BY <1>0, <2>1, NodeUntouched
<1> QED
  BY <1>1, <1>2 DEF Next

-----------------------------------------------------------------------------
(* The safety invariant: who owes what.                                    *)

\* Giving an owed answer, and striking it off, keeps the books.
LEMMA AnswerStep ==
  ASSUME TypeOK, OwnerInv, ChanInv, CallInv,
         NEW n \in Nodes, NEW e \in Owed(n), NEW x \in {e.req, NoResult},
         Put(e, x), statusEvenOne' = statusEvenOne,
         \A m \in Nodes : Owed(m)' \subseteq Owed(m),
         \A f \in Owed(n)' : f.req # e.req
  PROVE  OwnerInv' /\ ChanInv' /\ CallInv'
<1> DEFINE c == ChanOf[e.req]
           a == [req |-> e.req, of |-> x]
<1>1. /\ e \in Numbered /\ e.req \in Reqs /\ c \in Chans
      /\ call[e.req] = "accepted" /\ answers[e.req] = 0
  BY ConnAssumption DEF OwnerInv, Owed, TypeOK, Numbered
<1>2. /\ call' = call
      /\ answers' = [answers EXCEPT ![e.req] = 1]
      /\ chan' = [chan EXCEPT ![c] = Append(chan[c], a)]
  BY <1>1 DEF Put
<1>3. \A r \in Reqs : answers'[r] = IF r = e.req THEN 1 ELSE answers[r]
  BY <1>1, <1>2 DEF TypeOK
<1>4. OwnerInv'
  <2> SUFFICES ASSUME NEW m \in Nodes, NEW f \in Owed(m)'
               PROVE  /\ (call[f.req] = "accepted")' /\ (answers[f.req] = 0)'
                      /\ \A l \in Nodes : \A g \in Owed(l)' :
                           f.req = g.req => m = l /\ f = g
    BY DEF OwnerInv
  <2>1. f \in Owed(m) /\ f.req \in Reqs
    BY DEF Owed, TypeOK, Numbered
  <2>2. f.req # e.req
    BY <2>1 DEF OwnerInv
  <2> QED
    BY <1>2, <1>3, <2>1, <2>2 DEF OwnerInv
<1>5. CallInv'
  BY <1>1, <1>2, <1>3 DEF CallInv
<1>6. ChanInv'
  <2> SUFFICES ASSUME NEW d \in Chans
               PROVE  /\ \A i \in 1..Len(chan'[d]) :
                           /\ ChanOf[chan'[d][i].req] = d
                           /\ chan'[d][i].of \in {chan'[d][i].req, NoResult}
                           /\ call'[chan'[d][i].req] = "accepted"
                           /\ answers'[chan'[d][i].req] = 1
                      /\ \A i, j \in 1..Len(chan'[d]) :
                           chan'[d][i].req = chan'[d][j].req => i = j
    BY DEF ChanInv
  <2>1. \A i \in 1..Len(chan[d]) : chan[d][i].req \in Reqs
    <3>1. chan[d] \in Seq(Answers)
      BY DEF TypeOK
    <3>2. \A i \in 1..Len(chan[d]) : chan[d][i] \in Answers
      BY <3>1
    <3> QED
      BY <3>2 DEF Answers
  <2>2. \A i \in 1..Len(chan[d]) : chan[d][i].req # e.req
    BY <1>1 DEF ChanInv
  <2>3. CASE d # c
    BY <1>1, <1>2, <1>3, <2>1, <2>2, <2>3 DEF ChanInv, TypeOK
  <2>4. CASE d = c
    <3>1. /\ chan'[d] = Append(chan[d], a) /\ chan[d] \in Seq(Answers)
      BY <1>1, <1>2, <2>4 DEF TypeOK
    <3>2. a \in Answers
      BY <1>1 DEF Answers
    <3>3. /\ Len(chan'[d]) = Len(chan[d]) + 1 /\ Len(chan[d]) \in Nat
          /\ \A i \in 1..Len(chan[d]) : chan'[d][i] = chan[d][i]
          /\ chan'[d][Len(chan[d]) + 1] = a
      BY <3>1, <3>2
    <3>4. \A i \in 1..Len(chan'[d]) : i \in 1..Len(chan[d]) \/ i = Len(chan[d]) + 1
      BY <3>3
    <3>5. ASSUME NEW i \in 1..Len(chan'[d])
          PROVE  /\ ChanOf[chan'[d][i].req] = d
                 /\ chan'[d][i].of \in {chan'[d][i].req, NoResult}
                 /\ call'[chan'[d][i].req] = "accepted"
                 /\ answers'[chan'[d][i].req] = 1
      <4>1. CASE i \in 1..Len(chan[d])
        BY <1>2, <1>3, <2>1, <2>2, <3>3, <4>1 DEF ChanInv
      <4>2. CASE i = Len(chan[d]) + 1
        BY <1>1, <1>2, <1>3, <2>4, <3>3, <4>2
      <4> QED
        BY <3>4, <4>1, <4>2
    <3>6. ASSUME NEW i \in 1..Len(chan'[d]), NEW j \in 1..Len(chan'[d]),
                 chan'[d][i].req = chan'[d][j].req
          PROVE  i = j
      <4>1. CASE i \in 1..Len(chan[d]) /\ j \in 1..Len(chan[d])
        <5>1. \A k, l \in 1..Len(chan[d]) : chan[d][k].req = chan[d][l].req => k = l
          BY DEF ChanInv
        <5>2. chan[d][i].req = chan[d][j].req
          BY <3>3, <3>6, <4>1
        <5> QED
          BY <4>1, <5>1, <5>2
      <4>2. CASE i \in 1..Len(chan[d]) /\ j = Len(chan[d]) + 1
        BY <2>2, <3>3, <3>6, <4>2
      <4>3. CASE i = Len(chan[d]) + 1 /\ j \in 1..Len(chan[d])
        BY <2>2, <3>3, <3>6, <4>3
      <4> QED
        BY <3>4, <4>1, <4>2, <4>3
    <3> QED
      BY <3>5, <3>6
  <2> QED
    BY <2>3, <2>4
<1> QED
  BY <1>4, <1>5, <1>6

\* A step that touches neither the calls nor the channels and adds nothing to
\* what is owed keeps them too.
LEMMA OwedShrinks ==
  ASSUME OwnerInv, ChanInv, CallInv, UNCHANGED callVars,
         statusEvenOne => statusEvenOne',
         \A m \in Nodes : Owed(m)' \subseteq Owed(m)
  PROVE  OwnerInv' /\ ChanInv' /\ CallInv'
<1> USE DEF callVars
<1>1. OwnerInv'
  BY DEF OwnerInv
<1>2. ChanInv'
  BY DEF ChanInv
<1>3. CallInv'
  BY DEF CallInv
<1> QED
  BY <1>1, <1>2, <1>3

\* The callers keep the books: a request waiting in a channel is not owed.
LEMMA OwnersCallerStep ==
  ASSUME TypeOK, OwnerInv, ChanInv, CallInv, CallerStep
  PROVE  OwnerInv' /\ ChanInv' /\ CallInv'
<1> USE DEF runVars
<1>0. \A m \in Nodes : \A e \in Owed(m) : e.req \in Reqs
  BY DEF Owed, TypeOK, Numbered
<1>c. \A c \in Chans : /\ chan[c] \in Seq(Answers)
                       /\ \A i \in 1..Len(chan[c]) : chan[c][i].req \in Reqs
  <2>1. \A c \in Chans : chan[c] \in Seq(Answers)
    BY DEF TypeOK
  <2>2. \A c \in Chans : \A i \in 1..Len(chan[c]) : chan[c][i] \in Answers
    BY <2>1
  <2> QED
    BY <2>1, <2>2 DEF Answers
<1>1. ASSUME NEW r \in Reqs, SendOffers(r) \/ SendRefused(r)
      PROVE  OwnerInv' /\ ChanInv' /\ CallInv'
  <2>1. /\ call[r] = "idle"
        /\ UNCHANGED <<answers, chan, statusEvenOne, run, hand, responseMap>>
        /\ \A q \in Reqs : q # r => call'[q] = call[q]
        /\ call'[r] \in {"sending", "refused"}
        /\ call'[r] = "sending" => statusEvenOne
    BY <1>1 DEF SendOffers, SendRefused, TypeOK
  <2>2. \A m \in Nodes : Owed(m)' = Owed(m)
    BY <2>1 DEF Owed
  <2>3. OwnerInv'
    <3>1. \A m \in Nodes : \A e \in Owed(m) : e.req # r
      BY <2>1 DEF OwnerInv
    <3> QED
      BY <1>0, <2>1, <2>2, <3>1 DEF OwnerInv
  <2>4. ChanInv'
    <3>1. \A c \in Chans : \A i \in 1..Len(chan[c]) : chan[c][i].req # r
      BY <2>1 DEF ChanInv
    <3> QED
      BY <1>c, <2>1, <3>1 DEF ChanInv
  <2>5. CallInv'
    BY <2>1 DEF CallInv
  <2> QED
    BY <2>3, <2>4, <2>5
<1>2. ASSUME NEW c \in Chans, Receive(c)
      PROVE  OwnerInv' /\ ChanInv' /\ CallInv'
  <2> DEFINE r == chan[c][1].req
  <2>1. /\ chan[c] # <<>> /\ chan[c] \in Seq(Answers)
        /\ Len(chan[c]) \in Nat /\ 1 \in 1..Len(chan[c])
        /\ Head(chan[c]) = chan[c][1]
        /\ Len(Tail(chan[c])) = Len(chan[c]) - 1
        /\ \A i \in 1..Len(Tail(chan[c])) : /\ Tail(chan[c])[i] = chan[c][i + 1]
                                            /\ i + 1 \in 1..Len(chan[c])
    BY <1>c, <1>2 DEF Receive
  <2>2. /\ r \in Reqs /\ call[r] = "accepted" /\ answers[r] = 1 /\ ChanOf[r] = c
    BY <1>c, <2>1 DEF ChanInv
  <2>3. /\ UNCHANGED <<answers, statusEvenOne, run, hand, responseMap>>
        /\ \A q \in Reqs : q # r => call'[q] = call[q]
        /\ call'[r] = "returned"
        /\ chan' = [chan EXCEPT ![c] = Tail(chan[c])]
    BY <1>2, <2>1, <2>2 DEF Receive, TypeOK
  <2>4. \A m \in Nodes : Owed(m)' = Owed(m)
    BY <2>3 DEF Owed
  <2>5. OwnerInv'
    <3>1. \A m \in Nodes : \A e \in Owed(m) : e.req # r
      BY <2>2 DEF OwnerInv
    <3> QED
      BY <1>0, <2>3, <2>4, <3>1 DEF OwnerInv
  <2>6. ASSUME NEW d \in Chans
        PROVE  /\ \A i \in 1..Len(chan'[d]) :
                    /\ ChanOf[chan'[d][i].req] = d
                    /\ chan'[d][i].of \in {chan'[d][i].req, NoResult}
                    /\ call'[chan'[d][i].req] = "accepted"
                    /\ answers'[chan'[d][i].req] = 1
               /\ \A i, j \in 1..Len(chan'[d]) :
                    chan'[d][i].req = chan'[d][j].req => i = j
    <3>1. CASE d # c
      <4>1. chan'[d] = chan[d]
        BY <2>3, <3>1 DEF TypeOK
      <4>2. \A i \in 1..Len(chan[d]) : chan[d][i].req # r
        BY <2>2, <3>1 DEF ChanInv
      <4> QED
        BY <1>c, <2>3, <4>1, <4>2 DEF ChanInv
    <3>2. CASE d = c
      <4>1. chan'[d] = Tail(chan[c])
        BY <2>3, <3>2 DEF TypeOK
      <4>2. \A k, l \in 1..Len(chan[c]) : chan[c][k].req = chan[c][l].req => k = l
        BY DEF ChanInv
      <4>3. ASSUME NEW i \in 1..Len(chan'[d])
            PROVE  /\ ChanOf[chan'[d][i].req] = d
                   /\ chan'[d][i].of \in {chan'[d][i].req, NoResult}
                   /\ call'[chan'[d][i].req] = "accepted"
                   /\ answers'[chan'[d][i].req] = 1
        <5>1. chan'[d][i] = chan[c][i + 1] /\ i + 1 \in 1..Len(chan[c]) /\ i + 1 # 1
          BY <2>1, <4>1
        <5>2. chan[c][i + 1].req # r
          BY <2>1, <4>2, <5>1
        <5>3. /\ chan[c][i + 1].req \in Reqs
              /\ ChanOf[chan[c][i + 1].req] = c
              /\ chan[c][i + 1].of \in {chan[c][i + 1].req, NoResult}
              /\ call[chan[c][i + 1].req] = "accepted"
              /\ answers[chan[c][i + 1].req] = 1
          BY <1>c, <5>1 DEF ChanInv
        <5> QED
          BY <2>3, <3>2, <5>1, <5>2, <5>3
      <4>4. ASSUME NEW i \in 1..Len(chan'[d]), NEW j \in 1..Len(chan'[d]),
                   chan'[d][i].req = chan'[d][j].req
            PROVE  i = j
        <5>1. /\ chan'[d][i] = chan[c][i + 1] /\ i + 1 \in 1..Len(chan[c])
              /\ chan'[d][j] = chan[c][j + 1] /\ j + 1 \in 1..Len(chan[c])
          BY <2>1, <4>1
        <5>2. i + 1 = j + 1
          BY <4>2, <4>4, <5>1
        <5> QED
          BY <2>1, <4>1, <5>2
      <4> QED
        BY <4>3, <4>4
    <3> QED
      BY <3>1, <3>2
  <2>7. ChanInv'
    BY <2>6 DEF ChanInv
  <2>8. CallInv'
    BY <2>2, <2>3 DEF CallInv
  <2> QED
    BY <2>5, <2>7, <2>8
<1> QED
  BY <1>1, <1>2 DEF CallerStep

\* Once an entry is struck off, its request is owed by nobody.
LEMMA ForgetOwed ==
  ASSUME TypeOK, NumbersInv, OwnerInv, NEW n \in Nodes, NEW e \in responseMap[n],
         Forget(n, e), UNCHANGED <<run, hand>>
  PROVE  /\ \A m \in Nodes : Owed(m)' \subseteq Owed(m)
         /\ \A f \in Owed(n)' : f.req # e.req
<1>1. /\ responseMap'[n] = {p \in responseMap[n] : p.id # e.id}
      /\ \A m \in Nodes : m # n => responseMap'[m] = responseMap[m]
  BY DEF Forget, TypeOK
<1>2. \A m \in Nodes : Owed(m)' \subseteq Owed(m)
  BY <1>1 DEF Owed
<1>3. ASSUME NEW f \in Owed(n)', f.req = e.req PROVE FALSE
  <2>1. f \in Owed(n) /\ e \in Owed(n)
    BY <1>2 DEF Owed
  <2>2. f = e
    BY <1>3, <2>1 DEF OwnerInv
  <2>3. e \notin responseMap'[n]
    BY <1>1
  <2>4. run[n] \in {"reject", "store"} /\ e \in hand[n]
    BY <1>3, <2>2, <2>3 DEF Owed
  <2> QED
    BY <2>4 DEF NumbersInv
<1> QED
  BY <1>2, <1>3

\* Every step of run keeps the books.
LEMMA OwnersRunStep ==
  ASSUME TypeOK, NumbersInv, HandsInv, OwnerInv, ChanInv, CallInv,
         NEW n \in Nodes, RunStep(n)
  PROVE  OwnerInv' /\ ChanInv' /\ CallInv'
<1> USE DEF callVars, recvVars
<1>0. \A m \in Nodes : m # n => Owed(m)' = Owed(m)
  BY Frame DEF Owed
<1>1. CASE DialOk(n) \/ DialFails(n) \/ Reconnect(n) \/ RunReturns(n)
  <2>1. run[n] \in {"dial", "ended"} /\ run'[n] \in {"loop", "ended", "dial", "gone"}
    BY <1>1 DEF DialOk, DialFails, Reconnect, RunReturns, SetRun, TypeOK
  <2>2. UNCHANGED <<callVars, hand, responseMap>> /\ (statusEvenOne => statusEvenOne')
    BY <1>1 DEF DialOk, DialFails, Reconnect, RunReturns, EvenOneAfterLoss
  <2>3. Owed(n)' \subseteq Owed(n)
    BY <2>1, <2>2 DEF Owed
  <2> QED
    BY <1>0, <2>2, <2>3, OwedShrinks
<1>2. ASSUME NEW r \in Reqs, Accept(n, r)
      PROVE  OwnerInv' /\ ChanInv' /\ CallInv'
  <2> DEFINE h == [id |-> nextMessageID[n], req |-> r]
  <2>1. /\ call[r] = "sending" /\ run[n] = "loop"
        /\ hand'[n] = {h}
        /\ UNCHANGED <<answers, chan, statusEvenOne, responseMap>>
        /\ \A q \in Reqs : q # r => call'[q] = call[q]
        /\ call'[r] = "accepted"
    BY <1>2 DEF Accept, SetRun, TypeOK
  <2>2. answers[r] = 0 /\ statusEvenOne
    BY <2>1 DEF CallInv
  <2>3. \A m \in Nodes : \A e \in Owed(m) : e.req # r /\ e.req \in Reqs
    BY <2>1 DEF OwnerInv, Owed, TypeOK, Numbered
  <2>4. Owed(n)' \subseteq Owed(n) \cup {h}
    BY <2>1 DEF Owed
  <2>5. h.req = r
    OBVIOUS
  <2>6. \A m \in Nodes : \A e \in Owed(m)' : e \in Owed(m) \/ (m = n /\ e = h)
    BY <1>0, <2>4
  <2>7. OwnerInv'
    <3> SUFFICES ASSUME NEW m \in Nodes, NEW e \in Owed(m)'
                 PROVE  /\ (call[e.req] = "accepted")' /\ (answers[e.req] = 0)'
                        /\ \A l \in Nodes : \A f \in Owed(l)' :
                             e.req = f.req => m = l /\ e = f
      BY DEF OwnerInv
    <3>1. CASE e \in Owed(m)
      BY <2>1, <2>3, <2>5, <2>6, <3>1 DEF OwnerInv
    <3>2. CASE m = n /\ e = h
      BY <2>1, <2>2, <2>3, <2>5, <2>6, <3>2
    <3> QED
      BY <2>6, <3>1, <3>2
  <2>8. ChanInv'
    <3>1. \A c \in Chans : \A i \in 1..Len(chan[c]) : call[chan[c][i].req] = "accepted"
      BY DEF ChanInv
    <3>2. \A c \in Chans : \A i \in 1..Len(chan[c]) : chan[c][i].req \in Reqs
      <4>1. \A c \in Chans : chan[c] \in Seq(Answers)
        BY DEF TypeOK
      <4>2. \A c \in Chans : \A i \in 1..Len(chan[c]) : chan[c][i] \in Answers
        BY <4>1
      <4> QED
        BY <4>2 DEF Answers
    <3> QED
      BY <2>1, <3>1, <3>2 DEF ChanInv
  <2>9. CallInv'
    BY <2>1, <2>2 DEF CallInv
  <2> QED
    BY <2>7, <2>8, <2>9
<1>3. CASE RejectUnencodable(n)
  <2>1. PICK e \in hand[n] : Put(e, NoResult)
    BY <1>3 DEF RejectUnencodable
  <2>2. /\ run[n] = "reject" /\ run'[n] = "loop"
        /\ UNCHANGED <<statusEvenOne, responseMap>>
    BY <1>3 DEF RejectUnencodable, SetRun, TypeOK
  <2>3. e \in Owed(n) /\ Owed(n)' = responseMap[n] /\ responseMap[n] \subseteq Owed(n)
    BY <2>1, <2>2 DEF Owed
  <2>4. \A f \in responseMap[n] : f.id # e.id
    BY <2>1, <2>2 DEF NumbersInv
  <2>5. \A f \in Owed(n)' : f.req # e.req
    BY <2>3, <2>4 DEF OwnerInv
  <2> QED
    BY <1>0, <2>1, <2>2, <2>3, <2>5, AnswerStep
<1>4. CASE Store(n)
  <2>1. PICK e \in hand[n] :
          responseMap' = [responseMap EXCEPT ![n] = {p \in @ : p.id # e.id} \cup {e}]
    BY <1>4 DEF Store
  <2>2. /\ run[n] = "store" /\ run'[n] = "write"
        /\ UNCHANGED <<callVars, hand, statusEvenOne>>
    BY <1>4 DEF Store, SetRun, TypeOK
  <2>3. Owed(n)' \subseteq Owed(n)
    BY <2>1, <2>2 DEF Owed, TypeOK
  <2> QED
    BY <1>0, <2>2, <2>3, OwedShrinks
<1>5. CASE \/ WriteOk(n) \/ WriteFails(n) \/ CtxDone(n) \/ DoneClosed(n)
           \/ DrainLock(n) \/ DrainEnd(n)
  <2>1. run[n] \notin {"reject", "store"} /\ run'[n] \notin {"reject", "store"}
    BY <1>5 DEF WriteOk, WriteFails, CtxDone, DoneClosed, DrainLock, DrainEnd, SetRun, TypeOK
  <2>2. UNCHANGED <<callVars, responseMap, statusEvenOne>>
    BY <1>5 DEF WriteOk, WriteFails, CtxDone, DoneClosed, DrainLock, DrainEnd
  <2>3. Owed(n)' \subseteq Owed(n)
    BY <2>1, <2>2 DEF Owed
  <2> QED
    BY <1>0, <2>2, <2>3, OwedShrinks
<1>6. CASE DrainOne(n)
  <2>1. PICK e \in responseMap[n] : Put(e, NoResult) /\ Forget(n, e)
    BY <1>6 DEF DrainOne
  <2>2. UNCHANGED <<run, hand, statusEvenOne>>
    BY <1>6 DEF DrainOne
  <2>3. e \in Owed(n)
    BY <2>1 DEF Owed
  <2> QED
    BY <2>1, <2>2, <2>3, ForgetOwed, AnswerStep
<1> QED
  BY <1>1, <1>2, <1>3, <1>4, <1>5, <1>6 DEF RunStep, RunWork

\* Every step of recv and of timeoutChecker keeps the books; a reply that is
\* delivered is the reply to the request it is delivered for.
LEMMA OwnersRecvStep ==
  ASSUME TypeOK, NumbersInv, HandsInv, OwnerInv, ChanInv, CallInv,
         NEW n \in Nodes, RecvStep(n) \/ CheckerStep(n) \/ Age(n)
  PROVE  OwnerInv' /\ ChanInv' /\ CallInv'
<1> USE DEF callVars, runVars, recvVars
<1>1. CASE \/ RecvRead(n) \/ RecvUnreadable(n) \/ RecvFails(n) \/ RecvLookup(n)
           \/ CheckerTick(n) \/ CheckerTickEnds(n) \/ CheckerExit(n) \/ Age(n)
  <2>1. UNCHANGED <<callVars, statusEvenOne, run, hand, responseMap>>
    BY <1>1 DEF RecvRead, RecvUnreadable, RecvFails, RecvLookup,
                CheckerTick, CheckerTickEnds, CheckerExit, Age
  <2>2. \A m \in Nodes : Owed(m)' \subseteq Owed(m)
    BY <2>1 DEF Owed
  <2> QED
    BY <2>1, <2>2, OwedShrinks
<1>2. CASE RecvDeliver(n)
  <2>1. PICK e \in Waiting(n), m \in reply[n] : Put(e, m.req) /\ Forget(n, e)
    BY <1>2 DEF RecvDeliver
  <2>2. UNCHANGED <<run, hand, statusEvenOne>>
    BY <1>2 DEF RecvDeliver, RecvDone
  <2>3. e \in responseMap[n] /\ e.id = m.id
    BY <2>1 DEF Waiting, HandsInv
  <2>4. e = m
    BY <2>1, <2>3 DEF NumbersInv, Seen
  <2>5. e \in Owed(n)
    BY <2>3 DEF Owed
  <2> QED
    BY <2>1, <2>2, <2>3, <2>4, <2>5, ForgetOwed, AnswerStep
<1>3. CASE RecvGivesUp(n)
  <2>1. PICK e \in Waiting(n) : Forget(n, e)
    BY <1>3 DEF RecvGivesUp
  <2>2. UNCHANGED <<run, hand, statusEvenOne, callVars>> /\ e \in responseMap[n]
    BY <1>3, <2>1 DEF RecvGivesUp, RecvDone, Waiting
  <2> QED
    BY <2>1, <2>2, ForgetOwed, OwedShrinks
<1>4. CASE CheckerExpire(n)
  <2>1. PICK e \in Expired(n) : Put(e, NoResult) /\ Forget(n, e)
    BY <1>4 DEF CheckerExpire
  <2>2. UNCHANGED <<run, hand, statusEvenOne>> /\ e \in responseMap[n]
    BY <1>4, <2>1 DEF CheckerExpire, Expired
  <2>3. e \in Owed(n)
    BY <2>2 DEF Owed
  <2> QED
    BY <2>1, <2>2, <2>3, ForgetOwed, AnswerStep
<1> QED
  BY <1>1, <1>2, <1>3, <1>4 DEF RecvStep, RecvWork, CheckerStep

\* The safety invariant is inductive.
LEMMA SafetyStep == TypeOK /\ SafetyInv /\ [Next]_vars => SafetyInv'
<1> SUFFICES ASSUME TypeOK, SafetyInv, [Next]_vars PROVE SafetyInv'
  OBVIOUS
<1> USE DEF SafetyInv
<1>1. NumbersInv' /\ HandsInv'
  BY NodeStep
<1>2. CASE CallerStep
  BY <1>1, <1>2, OwnersCallerStep
<1>3. ASSUME NEW n \in Nodes, RunStep(n) PROVE SafetyInv'
  BY <1>1, <1>3, OwnersRunStep
<1>4. ASSUME NEW n \in Nodes, RecvStep(n) \/ CheckerStep(n) \/ Age(n) PROVE SafetyInv'
  BY <1>1, <1>4, OwnersRecvStep
<1>5. CASE ResetAll \/ Shutdown \/ Terminated \/ UNCHANGED vars
  <2>1. UNCHANGED <<callVars, statusEvenOne, run, hand, responseMap>>
    BY <1>5 DEF ResetAll, Shutdown, Terminated, vars, runVars
  <2>2. \A m \in Nodes : Owed(m)' \subseteq Owed(m)
    BY <2>1 DEF Owed
  <2> QED
    BY <1>1, <2>1, <2>2, OwedShrinks
<1> QED
  BY <1>2, <1>3, <1>4, <1>5 DEF Next

\* For any number of nodes, callers and requests the books are kept.
THEOREM SafetyInvariant == Spec => [](TypeOK /\ SafetyInv)
<1>1. Init => SafetyInv
  <2>1. Init => OwnerInv /\ NumbersInv /\ HandsInv
    BY DEF Init, OwnerInv, NumbersInv, HandsInv, Owed, Seen
  <2>2. Init => ChanInv /\ CallInv
    BY DEF Init, ChanInv, CallInv
  <2> QED
    BY <2>1, <2>2 DEF SafetyInv
<1> QED
  BY <1>1, TypeCorrect, TypeStep, SafetyStep, PTL DEF Spec

\* No request is ever answered twice.
THEOREM AtMostOnce == Spec => []AtMostOneAnswer
<1>1. SafetyInv => AtMostOneAnswer
  BY DEF SafetyInv, CallInv, AtMostOneAnswer
<1> QED
  BY <1>1, SafetyInvariant, PTL

\* A reply never reaches another request than its own, reconnects included.
THEOREM RightAnswerHolds == Spec => []RightAnswer
<1>1. SafetyInv => RightAnswer
  BY DEF SafetyInv, ChanInv, RightAnswer
<1> QED
  BY <1>1, SafetyInvariant, PTL

\* The drain leaves no unanswered entry behind.
THEOREM DrainComplete == Spec => []NoEntryOutlivesRun
<1>1. SafetyInv => NoEntryOutlivesRun
  BY DEF SafetyInv, HandsInv, NoEntryOutlivesRun, Owed, Seen
<1> QED
  BY <1>1, SafetyInvariant, PTL

-----------------------------------------------------------------------------
(* Capacity: a channel that holds MaxInFlight answers never makes anybody   *)
(* wait, so no answer is given up and no request is lost.                   *)

\* The requests of a channel that were answered and not yet read.
Unread(c) == {r \in Reqs : ChanOf[r] = c /\ call[r] = "accepted" /\ answers[r] = 1}

\* A channel holds one answer for each of them, and callers keep their limit.
CapacityInv ==
  \A c \in Chans : /\ Len(chan[c]) <= Cardinality(Unread(c))
                   /\ Cardinality(InFlight(c)) <= MaxInFlight

\* Taking an element out of a finite set.
LEMMA OneLess ==
  ASSUME NEW S, IsFiniteSet(S), NEW x \in S
  PROVE  Cardinality(S \ {x}) = Cardinality(S) - 1
  BY FS_RemoveElement

\* Both sets are finite.
LEMMA FiniteCounts ==
  ASSUME NEW c \in Chans
  PROVE  /\ IsFiniteSet(Unread(c)) /\ Cardinality(Unread(c)) \in Nat
         /\ IsFiniteSet(InFlight(c)) /\ Cardinality(InFlight(c)) \in Nat
<1>1. Unread(c) \subseteq Reqs /\ InFlight(c) \subseteq Reqs
  BY DEF Unread, InFlight
<1> QED
  BY <1>1, FS_Subset, FS_CardinalityType, ConnAssumption

\* An owed answer finds room.
LEMMA RoomForOwed ==
  ASSUME TypeOK, SafetyInv, CapacityInv, MaxInFlight <= ChanCap,
         NEW n \in Nodes, NEW e \in Owed(n)
  PROVE  HasRoom(ChanOf[e.req])
<1> DEFINE c == ChanOf[e.req]
<1>1. e.req \in Reqs /\ c \in Chans /\ call[e.req] = "accepted" /\ answers[e.req] = 0
  BY ConnAssumption DEF SafetyInv, OwnerInv, Owed, TypeOK, Numbered
<1>2. Unread(c) \subseteq InFlight(c) /\ e.req \in InFlight(c) /\ e.req \notin Unread(c)
  BY <1>1 DEF Unread, InFlight
<1>3. Cardinality(Unread(c)) < Cardinality(InFlight(c))
  BY <1>1, <1>2, FiniteCounts, FS_Subset
<1>4. Len(chan[c]) \in Nat
  BY <1>1 DEF TypeOK
<1>5. /\ Len(chan[c]) <= Cardinality(Unread(c))
      /\ Cardinality(InFlight(c)) <= MaxInFlight
  BY <1>1 DEF CapacityInv
<1> QED
  BY <1>1, <1>3, <1>4, <1>5, FiniteCounts, ConnAssumption DEF HasRoom

\* A step that changes neither channels nor counts, and moves no request into
\* or out of acceptance, keeps the capacity.
LEMMA CapacityKept ==
  ASSUME TypeOK, CapacityInv, UNCHANGED chan,
         \A c \in Chans : Unread(c)' = Unread(c) /\ InFlight(c)' \subseteq InFlight(c)
  PROVE  CapacityInv'
<1> SUFFICES ASSUME NEW c \in Chans
             PROVE  /\ Len(chan'[c]) <= Cardinality(Unread(c)')
                    /\ Cardinality(InFlight(c)') <= MaxInFlight
  BY DEF CapacityInv
<1>1. Cardinality(InFlight(c)') <= Cardinality(InFlight(c)) /\ IsFiniteSet(InFlight(c)')
  BY FiniteCounts, FS_Subset
<1>2. Cardinality(InFlight(c)') \in Nat
  BY <1>1, FS_CardinalityType
<1> QED
  BY <1>1, <1>2, FiniteCounts, ConnAssumption DEF CapacityInv

\* An answer moves one request to the unread ones and takes one place.
LEMMA CapacityAnswer ==
  ASSUME TypeOK, OwnerInv, CapacityInv,
         NEW n \in Nodes, NEW e \in Owed(n), NEW x, Put(e, x)
  PROVE  CapacityInv'
<1> DEFINE d == ChanOf[e.req]
<1>1. /\ e.req \in Reqs /\ d \in Chans
      /\ call[e.req] = "accepted" /\ answers[e.req] = 0
  BY ConnAssumption DEF OwnerInv, Owed, TypeOK, Numbered
<1>2. /\ call' = call
      /\ answers' = [answers EXCEPT ![e.req] = 1]
      /\ chan' = [chan EXCEPT ![d] = Append(chan[d], [req |-> e.req, of |-> x])]
  BY <1>1 DEF Put
<1>3. \A r \in Reqs : answers'[r] = IF r = e.req THEN 1 ELSE answers[r]
  BY <1>1, <1>2 DEF TypeOK
<1> SUFFICES ASSUME NEW c \in Chans
             PROVE  /\ Len(chan'[c]) <= Cardinality(Unread(c)')
                    /\ Cardinality(InFlight(c)') <= MaxInFlight
  BY DEF CapacityInv
<1>4. InFlight(c)' = InFlight(c)
  BY <1>2 DEF InFlight
<1>5. Len(chan[c]) \in Nat
  BY DEF TypeOK
<1>6. CASE c # d
  <2>1. chan'[c] = chan[c]
    BY <1>1, <1>2, <1>6 DEF TypeOK
  <2>2. Unread(c)' = Unread(c)
    BY <1>2, <1>3, <1>6 DEF Unread
  <2> QED
    BY <1>4, <2>1, <2>2 DEF CapacityInv
<1>7. CASE c = d
  <2>1. chan'[c] = Append(chan[c], [req |-> e.req, of |-> x])
    BY <1>1, <1>2, <1>7 DEF TypeOK
  <2>2. Len(chan'[c]) = Len(chan[c]) + 1
    <3>1. chan[c] \in Seq(Answers)
      BY DEF TypeOK
    <3> QED
      BY <2>1, <3>1
  <2>3. Unread(c)' = Unread(c) \cup {e.req} /\ e.req \notin Unread(c)
    BY <1>1, <1>2, <1>3, <1>7 DEF Unread
  <2>4. Cardinality(Unread(c)') = Cardinality(Unread(c)) + 1
    BY <2>3, FiniteCounts, FS_AddElement
  <2> QED
    BY <1>4, <1>5, <2>2, <2>4, FiniteCounts DEF CapacityInv
<1> QED
  BY <1>6, <1>7

\* The callers keep the capacity: they send below their limit, and a read
\* frees one place for one request.
LEMMA CapacityCallerStep ==
  ASSUME TypeOK, SafetyInv, CapacityInv, CallerStep
  PROVE  CapacityInv'
<1>1. ASSUME NEW r \in Reqs, SendRefused(r) PROVE CapacityInv'
  <2>1. /\ call[r] = "idle" /\ UNCHANGED <<answers, chan>>
        /\ \A q \in Reqs : q # r => call'[q] = call[q]
        /\ call'[r] = "refused"
    BY <1>1 DEF SendRefused, TypeOK
  <2>2. \A c \in Chans : Unread(c)' = Unread(c) /\ InFlight(c)' \subseteq InFlight(c)
    BY <2>1 DEF Unread, InFlight
  <2> QED
    BY <2>1, <2>2, CapacityKept
<1>2. ASSUME NEW r \in Reqs, SendOffers(r) PROVE CapacityInv'
  <2>1. /\ call[r] = "idle" /\ UNCHANGED <<answers, chan>>
        /\ \A q \in Reqs : q # r => call'[q] = call[q]
        /\ call'[r] = "sending"
        /\ Cardinality(InFlight(ChanOf[r])) < MaxInFlight
    BY <1>2 DEF SendOffers, TypeOK
  <2> SUFFICES ASSUME NEW c \in Chans
               PROVE  /\ Len(chan'[c]) <= Cardinality(Unread(c)')
                      /\ Cardinality(InFlight(c)') <= MaxInFlight
    BY DEF CapacityInv
  <2>2. Unread(c)' = Unread(c)
    BY <2>1 DEF Unread
  <2>3. CASE c # ChanOf[r]
    <3>1. InFlight(c)' = InFlight(c)
      BY <2>1, <2>3 DEF InFlight
    <3> QED
      BY <2>1, <2>2, <3>1 DEF CapacityInv
  <2>4. CASE c = ChanOf[r]
    <3>1. InFlight(c)' = InFlight(c) \cup {r} /\ r \notin InFlight(c)
      BY <2>1, <2>4 DEF InFlight
    <3>2. Cardinality(InFlight(c)') = Cardinality(InFlight(c)) + 1
      BY <3>1, FiniteCounts, FS_AddElement
    <3> QED
      BY <2>1, <2>2, <2>4, <3>2, FiniteCounts, ConnAssumption DEF CapacityInv
  <2> QED
    BY <2>3, <2>4
<1>3. ASSUME NEW d \in Chans, Receive(d) PROVE CapacityInv'
  <2> DEFINE r == chan[d][1].req
  <2>1. chan[d] # <<>> /\ chan[d] \in Seq(Answers)
    BY <1>3 DEF Receive, TypeOK
  <2>2. /\ Head(chan[d]) = chan[d][1] /\ 1 \in 1..Len(chan[d])
        /\ Len(Tail(chan[d])) = Len(chan[d]) - 1
        /\ chan[d][1] \in Answers /\ Len(chan[d]) \in Nat
    BY <2>1
  <2>3. /\ r \in Reqs /\ call[r] = "accepted" /\ answers[r] = 1 /\ ChanOf[r] = d
    BY <2>2 DEF SafetyInv, ChanInv, Answers
  <2>4. /\ UNCHANGED answers
        /\ \A q \in Reqs : q # r => call'[q] = call[q]
        /\ call'[r] = "returned"
        /\ chan' = [chan EXCEPT ![d] = Tail(chan[d])]
    BY <1>3, <2>2, <2>3 DEF Receive, TypeOK
  <2> SUFFICES ASSUME NEW c \in Chans
               PROVE  /\ Len(chan'[c]) <= Cardinality(Unread(c)')
                      /\ Cardinality(InFlight(c)') <= MaxInFlight
    BY DEF CapacityInv
  <2>5. CASE c # d
    <3>1. Unread(c)' = Unread(c) /\ InFlight(c)' = InFlight(c)
      BY <2>3, <2>4, <2>5 DEF Unread, InFlight
    <3>2. chan'[c] = chan[c]
      BY <2>4, <2>5 DEF TypeOK
    <3> QED
      BY <3>1, <3>2 DEF CapacityInv
  <2>6. CASE c = d
    <3>1. /\ Unread(c)' = Unread(c) \ {r} /\ r \in Unread(c)
          /\ InFlight(c)' \subseteq InFlight(c)
      BY <2>3, <2>4, <2>6 DEF Unread, InFlight
    <3>2. Cardinality(Unread(c)') = Cardinality(Unread(c)) - 1
      BY <3>1, FiniteCounts, OneLess
    <3>3. /\ Cardinality(InFlight(c)') <= Cardinality(InFlight(c))
          /\ Cardinality(InFlight(c)') \in Nat
      BY <3>1, FiniteCounts, FS_Subset, FS_CardinalityType
    <3>4. Len(chan'[c]) = Len(chan[c]) - 1
      BY <2>2, <2>4, <2>6 DEF TypeOK
    <3> QED
      BY <2>2, <2>6, <3>2, <3>3, <3>4, FiniteCounts, ConnAssumption DEF CapacityInv
  <2> QED
    BY <2>5, <2>6
<1> QED
  BY <1>1, <1>2, <1>3 DEF CallerStep

\* Every other step keeps the capacity: it answers what is owed, or no call
\* and no channel changes but for the one acceptance.
LEMMA CapacityStep ==
  ASSUME TypeOK, SafetyInv, CapacityInv, [Next]_vars
  PROVE  CapacityInv'
<1> USE DEF callVars, runVars, recvVars
<1>1. CASE CallerStep
  BY <1>1, CapacityCallerStep
<1>2. CASE UNCHANGED callVars
  BY <1>2, CapacityKept DEF Unread, InFlight
<1>3. ASSUME NEW n \in Nodes, NEW r \in Reqs, Accept(n, r) PROVE CapacityInv'
  <2>1. /\ call[r] = "sending" /\ UNCHANGED <<answers, chan>>
        /\ \A q \in Reqs : q # r => call'[q] = call[q]
        /\ call'[r] = "accepted"
    BY <1>3 DEF Accept, TypeOK
  <2>2. answers[r] = 0
    BY <2>1 DEF SafetyInv, CallInv
  <2>3. \A c \in Chans : Unread(c)' = Unread(c) /\ InFlight(c)' \subseteq InFlight(c)
    BY <2>1, <2>2 DEF Unread, InFlight
  <2> QED
    BY <2>1, <2>3, CapacityKept
<1>4. ASSUME NEW n \in Nodes, RejectUnencodable(n) PROVE CapacityInv'
  <2>1. PICK e \in hand[n] : Put(e, NoResult)
    BY <1>4 DEF RejectUnencodable
  <2>2. e \in Owed(n)
    BY <1>4, <2>1 DEF RejectUnencodable, SetRun, Owed
  <2> QED
    BY <2>1, <2>2, CapacityAnswer DEF SafetyInv
<1>5. ASSUME NEW n \in Nodes, DrainOne(n) \/ RecvDeliver(n) \/ CheckerExpire(n)
      PROVE  CapacityInv'
  <2>1. \E e \in responseMap[n] : \E x : Put(e, x)
    BY <1>5 DEF DrainOne, RecvDeliver, CheckerExpire, Waiting, Expired
  <2>2. responseMap[n] \subseteq Owed(n)
    BY DEF Owed
  <2> QED
    BY <2>1, <2>2, CapacityAnswer DEF SafetyInv
<1>6. ASSUME NEW n \in Nodes, RunStep(n)
      PROVE  \/ UNCHANGED callVars \/ \E r \in Reqs : Accept(n, r)
             \/ RejectUnencodable(n) \/ DrainOne(n)
  BY <1>6 DEF RunStep, RunWork, DialOk, DialFails, Reconnect, RunReturns, Store,
              WriteOk, WriteFails, CtxDone, DoneClosed, DrainLock, DrainEnd
<1>7. ASSUME NEW n \in Nodes, RecvStep(n) \/ CheckerStep(n) \/ Age(n)
      PROVE  UNCHANGED callVars \/ RecvDeliver(n) \/ CheckerExpire(n)
  BY <1>7 DEF RecvStep, RecvWork, CheckerStep, RecvRead, RecvUnreadable, RecvFails,
              RecvLookup, RecvGivesUp, CheckerTick, CheckerTickEnds, CheckerExit, Age
<1>8. CASE ResetAll \/ Shutdown \/ Terminated \/ UNCHANGED vars
  BY <1>2, <1>8 DEF ResetAll, Shutdown, Terminated, vars
<1> QED
  BY <1>1, <1>2, <1>3, <1>4, <1>5, <1>6, <1>7, <1>8 DEF Next

\* No channel holds anything at the start.
LEMMA CapacityInit == Init => CapacityInv
<1> SUFFICES ASSUME Init, NEW c \in Chans
             PROVE  /\ Len(chan[c]) <= Cardinality(Unread(c))
                    /\ Cardinality(InFlight(c)) <= MaxInFlight
  BY DEF CapacityInv
<1>1. Unread(c) = {} /\ InFlight(c) = {} /\ chan[c] = <<>>
  BY DEF Init, Unread, InFlight
<1> QED
  BY <1>1, FS_EmptySet, ConnAssumption

\* Callers that never have more requests out than a channel can hold make
\* nobody wait: no goroutine blocks on a response channel with L held, and
\* recv never drops a reply for want of room.
THEOREM NeverBlocked ==
  ASSUME MaxInFlight <= ChanCap
  PROVE  Spec => []AnswerersNeverBlock
<1>1. Init => CapacityInv
  BY CapacityInit
<1>2. TypeOK /\ SafetyInv /\ CapacityInv /\ [Next]_vars => CapacityInv'
  BY CapacityStep DEF SafetyInv
<1>3. TypeOK /\ SafetyInv /\ CapacityInv => AnswerersNeverBlock
  BY RoomForOwed DEF AnswerersNeverBlock
<1> QED
  BY <1>1, <1>2, <1>3, SafetyInvariant, PTL DEF Spec

-----------------------------------------------------------------------------
(* No accepted request is lost, provided that callers keep to the capacity. *)

\* Nothing that was owed is dropped by a step that answers nobody.
LEMMA KeptOwed ==
  ASSUME NoRequestLost, UNCHANGED callVars,
         \A m \in Nodes : Owed(m) \subseteq Owed(m)'
  PROVE  NoRequestLost'
  BY DEF NoRequestLost, callVars

\* An answer settles one request and leaves the others owed.
LEMMA AnswerKeepsOthers ==
  ASSUME TypeOK, NoRequestLost, NEW n \in Nodes, NEW e \in Owed(n), NEW x, Put(e, x),
         \A m \in Nodes : m # n => Owed(m)' = Owed(m),
         \A f \in Owed(n) : f.req # e.req => f \in Owed(n)'
  PROVE  NoRequestLost'
<1>1. e.req \in Reqs /\ call' = call
  BY DEF Owed, TypeOK, Numbered, Put
<1>2. \A r \in Reqs : answers'[r] = IF r = e.req THEN answers[r] + 1 ELSE answers[r]
  BY <1>1 DEF Put, TypeOK
<1> SUFFICES ASSUME NEW r \in Reqs, call[r] = "accepted", answers'[r] = 0
             PROVE  \E m \in Nodes : \E f \in Owed(m)' : f.req = r
  BY <1>1 DEF NoRequestLost
<1>3. r # e.req /\ answers[r] = 0
  BY <1>1, <1>2 DEF TypeOK
<1>4. PICK m \in Nodes : \E f \in Owed(m) : f.req = r
  BY <1>3 DEF NoRequestLost
<1> QED
  BY <1>3, <1>4

\* Striking off one entry leaves the others.
LEMMA ForgetKeepsOthers ==
  ASSUME TypeOK, NumbersInv, NEW n \in Nodes, NEW e \in responseMap[n],
         Forget(n, e), UNCHANGED <<run, hand>>
  PROVE  /\ \A m \in Nodes : m # n => Owed(m)' = Owed(m)
         /\ \A f \in Owed(n) : f.req # e.req => f \in Owed(n)'
<1>1. /\ responseMap'[n] = {p \in responseMap[n] : p.id # e.id}
      /\ \A m \in Nodes : m # n => responseMap'[m] = responseMap[m]
  BY DEF Forget, TypeOK
<1>2. \A f \in responseMap[n] : f.id = e.id => f = e
  BY DEF NumbersInv, Seen
<1> QED
  BY <1>1, <1>2 DEF Owed

\* Every step keeps what is owed until it is answered.
LEMMA LostStep ==
  ASSUME TypeOK, SafetyInv, CapacityInv, NoRequestLost,
         MaxInFlight <= ChanCap, [Next]_vars
  PROVE  NoRequestLost'
<1> USE DEF callVars, runVars, recvVars
<1>0. NumbersInv /\ HandsInv
  BY DEF SafetyInv
<1>1. CASE CallerStep
  <2>1. /\ UNCHANGED <<answers, run, hand, responseMap>>
        /\ \A q \in Reqs : call'[q] = "accepted" => call[q] = "accepted"
    BY <1>1 DEF CallerStep, SendOffers, SendRefused, Receive, TypeOK
  <2>2. \A m \in Nodes : Owed(m)' = Owed(m)
    BY <2>1 DEF Owed
  <2> QED
    BY <2>1, <2>2 DEF NoRequestLost
<1>2. ASSUME NEW n \in Nodes, NEW r \in Reqs, Accept(n, r) PROVE NoRequestLost'
  <2> DEFINE h == [id |-> nextMessageID[n], req |-> r]
  <2>1. /\ run[n] = "loop" /\ run'[n] \in {"reject", "store"} /\ hand'[n] = {h}
        /\ UNCHANGED <<answers, responseMap>>
        /\ \A q \in Reqs : q # r => call'[q] = call[q]
    BY <1>2 DEF Accept, SetRun, TypeOK
  <2>2. \A m \in Nodes : m # n => Owed(m)' = Owed(m)
    BY <1>2, Frame DEF Owed, RunStep
  <2>3. Owed(n)' = responseMap[n] \cup {h} /\ Owed(n) = responseMap[n]
    BY <2>1 DEF Owed
  <2>4. h.req = r
    OBVIOUS
  <2> SUFFICES ASSUME NEW q \in Reqs, call'[q] = "accepted", answers'[q] = 0
               PROVE  \E m \in Nodes : \E f \in Owed(m)' : f.req = q
    BY DEF NoRequestLost
  <2>5. CASE q = r
    BY <2>3, <2>4, <2>5
  <2>6. CASE q # r
    <3>1. PICK m \in Nodes : \E f \in Owed(m) : f.req = q
      BY <2>1, <2>6 DEF NoRequestLost
    <3> QED
      BY <2>2, <2>3, <3>1
  <2> QED
    BY <2>5, <2>6
<1>3. ASSUME NEW n \in Nodes, RejectUnencodable(n) PROVE NoRequestLost'
  <2>1. PICK e \in hand[n] : Put(e, NoResult)
    BY <1>3 DEF RejectUnencodable
  <2>2. run[n] = "reject" /\ run'[n] = "loop" /\ UNCHANGED responseMap
    BY <1>3 DEF RejectUnencodable, SetRun, TypeOK
  <2>3. e \in Owed(n) /\ \A f \in Owed(n) : f.req # e.req => f \in Owed(n)'
    BY <1>0, <2>1, <2>2 DEF Owed, HandsInv
  <2>4. \A m \in Nodes : m # n => Owed(m)' = Owed(m)
    BY <1>3, Frame DEF Owed, RunStep, RunWork
  <2> QED
    BY <2>1, <2>3, <2>4, AnswerKeepsOthers
<1>4. ASSUME NEW n \in Nodes, Store(n) PROVE NoRequestLost'
  <2>1. PICK e \in hand[n] :
          responseMap' = [responseMap EXCEPT ![n] = {p \in @ : p.id # e.id} \cup {e}]
    BY <1>4 DEF Store
  <2>2. run[n] = "store" /\ UNCHANGED callVars
    BY <1>4 DEF Store, SetRun
  <2>3. \A p \in responseMap[n] : p.id # e.id
    BY <1>0, <2>1, <2>2 DEF NumbersInv
  <2>4. Owed(n) \subseteq Owed(n)'
    BY <1>0, <2>1, <2>2, <2>3 DEF Owed, HandsInv, TypeOK
  <2>5. \A m \in Nodes : m # n => Owed(m)' = Owed(m)
    BY <1>4, Frame DEF Owed, RunStep, RunWork
  <2> QED
    BY <2>2, <2>4, <2>5, KeptOwed
<1>5. ASSUME NEW n \in Nodes,
             \/ DialOk(n) \/ DialFails(n) \/ Reconnect(n) \/ RunReturns(n)
             \/ WriteOk(n) \/ WriteFails(n) \/ CtxDone(n) \/ DoneClosed(n)
             \/ DrainLock(n) \/ DrainEnd(n)
      PROVE  NoRequestLost'
  <2>1. /\ run[n] \notin {"reject", "store"}
        /\ UNCHANGED <<callVars, responseMap>>
    BY <1>5 DEF DialOk, DialFails, Reconnect, RunReturns, WriteOk, WriteFails, CtxDone,
                DoneClosed, DrainLock, DrainEnd, SetRun
  <2>2. Owed(n) \subseteq Owed(n)'
    BY <2>1 DEF Owed
  <2>3. \A m \in Nodes : m # n => Owed(m)' = Owed(m)
    BY <1>5, Frame DEF Owed, RunStep, RunWork
  <2> QED
    BY <2>1, <2>2, <2>3, KeptOwed
<1>6. ASSUME NEW n \in Nodes, DrainOne(n) \/ RecvDeliver(n) \/ CheckerExpire(n)
      PROVE  NoRequestLost'
  <2>1. PICK e \in responseMap[n] : (\E x : Put(e, x)) /\ Forget(n, e)
    BY <1>6 DEF DrainOne, RecvDeliver, CheckerExpire, Waiting, Expired
  <2>2. UNCHANGED <<run, hand>> /\ e \in Owed(n)
    BY <1>6, <2>1 DEF DrainOne, RecvDeliver, RecvDone, CheckerExpire, Owed
  <2> QED
    BY <1>0, <2>1, <2>2, ForgetKeepsOthers, AnswerKeepsOthers
<1>7. ASSUME NEW n \in Nodes, RecvGivesUp(n) PROVE FALSE
  <2>1. PICK e \in Waiting(n) : ~HasRoom(ChanOf[e.req])
    BY <1>7 DEF RecvGivesUp
  <2>2. e \in Owed(n)
    BY <2>1 DEF Waiting, Owed
  <2> QED
    BY <2>1, <2>2, RoomForOwed
<1>8. ASSUME NEW n \in Nodes,
             \/ RecvRead(n) \/ RecvUnreadable(n) \/ RecvFails(n) \/ RecvLookup(n)
             \/ CheckerTick(n) \/ CheckerTickEnds(n) \/ CheckerExit(n) \/ Age(n)
      PROVE  NoRequestLost'
  <2>1. UNCHANGED <<callVars, run, hand, responseMap>>
    BY <1>8 DEF RecvRead, RecvUnreadable, RecvFails, RecvLookup,
                CheckerTick, CheckerTickEnds, CheckerExit, Age
  <2>2. \A m \in Nodes : Owed(m) \subseteq Owed(m)'
    BY <2>1 DEF Owed
  <2> QED
    BY <2>1, <2>2, KeptOwed
<1>9. CASE ResetAll \/ Shutdown \/ Terminated \/ UNCHANGED vars
  <2>1. UNCHANGED <<callVars, run, hand, responseMap>>
    BY <1>9 DEF ResetAll, Shutdown, Terminated, vars
  <2>2. \A m \in Nodes : Owed(m) \subseteq Owed(m)'
    BY <2>1 DEF Owed
  <2> QED
    BY <2>1, <2>2, KeptOwed
<1> QED
  BY <1>1, <1>2, <1>3, <1>4, <1>5, <1>6, <1>7, <1>8, <1>9
     DEF Next, RunStep, RunWork, RecvStep, RecvWork, CheckerStep

\* Under the same condition every accepted request stays in some connection's
\* hands until it is answered.
THEOREM NothingLost ==
  ASSUME MaxInFlight <= ChanCap
  PROVE  Spec => []NoRequestLost
<1>1. Init => CapacityInv /\ NoRequestLost
  BY CapacityInit DEF Init, NoRequestLost
<1>2. TypeOK /\ SafetyInv /\ CapacityInv /\ NoRequestLost /\ [Next]_vars
        => CapacityInv' /\ NoRequestLost'
  BY CapacityStep, LostStep DEF SafetyInv
<1> QED
  BY <1>1, <1>2, SafetyInvariant, PTL DEF Spec

-----------------------------------------------------------------------------
(* What the callers see.                                                   *)

\* After one Send was taken, none is refused.
THEOREM OpenForGood == Spec => NeverRefusedLater
<1>1. TypeOK /\ SafetyInv /\ [Next]_vars =>
        \A r \in Reqs : call[r] = "idle" /\ call'[r] = "refused"
          => \A q \in Reqs : call[q] \notin {"sending", "accepted", "returned"}
  <2> SUFFICES ASSUME TypeOK, SafetyInv, [Next]_vars, NEW r \in Reqs,
                      call[r] = "idle", call'[r] = "refused", NEW q \in Reqs
               PROVE  call[q] \notin {"sending", "accepted", "returned"}
    OBVIOUS
  <2> USE DEF callVars, runVars, recvVars
  <2>1. ASSUME NEW p \in Reqs, SendRefused(p) PROVE ~statusEvenOne
    BY <2>1 DEF SendRefused
  <2>2. ASSUME NEW p \in Reqs, SendOffers(p) PROVE FALSE
    BY <2>2 DEF SendOffers, TypeOK
  <2>3. ASSUME NEW c \in Chans, Receive(c) PROVE FALSE
    BY <2>3 DEF Receive, TypeOK
  <2>4. ASSUME NEW n \in Nodes, NEW p \in Reqs, Accept(n, p) PROVE FALSE
    BY <2>4 DEF Accept, TypeOK
  <2>5. call' # call
    OBVIOUS
  <2>6. ASSUME NEW n \in Nodes, RunStep(n)
        PROVE  call' = call \/ \E p \in Reqs : Accept(n, p)
    BY <2>6 DEF RunStep, RunWork, DialOk, DialFails, Reconnect, RunReturns, Store,
                RejectUnencodable, Put, WriteOk, WriteFails, CtxDone, DoneClosed,
                DrainLock, DrainOne, DrainEnd
  <2>7. ASSUME NEW n \in Nodes, RecvStep(n) \/ CheckerStep(n) \/ Age(n)
        PROVE  call' = call
    BY <2>7 DEF RecvStep, RecvWork, CheckerStep, RecvRead, RecvUnreadable, RecvFails,
                RecvLookup, RecvDeliver, RecvGivesUp, Put, CheckerTick, CheckerExpire,
                CheckerTickEnds, CheckerExit, Age
  <2>8. ASSUME ResetAll \/ Shutdown \/ Terminated \/ UNCHANGED vars PROVE FALSE
    BY <2>5, <2>8 DEF ResetAll, Shutdown, Terminated, vars
  <2>9. ~statusEvenOne
    <3>1. ASSUME CallerStep PROVE ~statusEvenOne
      BY <2>1, <2>2, <2>3, <3>1 DEF CallerStep
    <3>2. ASSUME NEW n \in Nodes, RunStep(n) \/ RecvStep(n) \/ CheckerStep(n) \/ Age(n)
          PROVE  FALSE
      BY <2>4, <2>5, <2>6, <2>7, <3>2
    <3> QED
      BY <2>8, <3>1, <3>2 DEF Next
  <2> QED
    BY <2>9 DEF SafetyInv, CallInv
<1> QED
  BY <1>1, TypeCorrect, SafetyInvariant, PTL DEF Spec, NeverRefusedLater

-----------------------------------------------------------------------------
(* The connection layer implements RpcService, but for its liveness.       *)

\* The phases of all requests, as the service shows them.
Phase == [r \in Reqs |-> PhaseOf(r)]

\* A step that changes the call of one request changes one phase.
LEMMA PhaseUpdate ==
  ASSUME NEW r \in Reqs,
         \A q \in Reqs : q # r => call'[q] = call[q] /\ answers'[q] = answers[q]
  PROVE  Phase' = [Phase EXCEPT ![r] = PhaseOf(r)']
<1>1. \A q \in Reqs : q # r => PhaseOf(q)' = PhaseOf(q)
  BY DEF PhaseOf
<1> QED
  BY <1>1 DEF Phase

\* A step that changes no call and counts no answer is no step of the service.
LEMMA PhaseStutter ==
  ASSUME UNCHANGED <<call, answers, statusEvenOne>>
  PROVE  UNCHANGED <<Phase, statusEvenOne>>
  BY DEF Phase, PhaseOf

\* An answer to an owed request is an answer of the service.
LEMMA PhaseAnswer ==
  ASSUME TypeOK, OwnerInv, NEW n \in Nodes, NEW e \in Owed(n), NEW x, Put(e, x),
         UNCHANGED statusEvenOne
  PROVE  \E r \in Reqs : Service!Answer(r)
<1>1. /\ e.req \in Reqs /\ call[e.req] = "accepted" /\ answers[e.req] = 0
  BY DEF OwnerInv, Owed, TypeOK, Numbered
<1>2. /\ call' = call /\ answers'[e.req] = 1
      /\ \A q \in Reqs : q # e.req => answers'[q] = answers[q]
  BY <1>1 DEF Put, TypeOK
<1>3. PhaseOf(e.req) = "pending" /\ PhaseOf(e.req)' = "answered"
  BY <1>1, <1>2 DEF PhaseOf
<1>4. Phase' = [Phase EXCEPT ![e.req] = "answered"] /\ Phase[e.req] = "pending"
  BY <1>1, <1>2, <1>3, PhaseUpdate DEF Phase
<1> QED
  BY <1>1, <1>4 DEF Phase, Service!Answer, Service!Move

\* Every step of the connection layer is a step of the service or none.
LEMMA ServiceStep ==
  ASSUME TypeOK, SafetyInv, [Next]_vars
  PROVE  [Service!SvcNext]_(<<Phase, statusEvenOne>>)
<1> USE DEF callVars, runVars, recvVars
<1> DEFINE Goal == Service!SvcNext \/ UNCHANGED <<Phase, statusEvenOne>>
<1>1. ASSUME NEW r \in Reqs, SendOffers(r) PROVE Goal
  <2>1. /\ call[r] = "idle" /\ call'[r] = "sending" /\ statusEvenOne
        /\ UNCHANGED <<answers, statusEvenOne>>
        /\ \A q \in Reqs : q # r => call'[q] = call[q]
    BY <1>1 DEF SendOffers, TypeOK
  <2>2. PhaseOf(r) = "idle" /\ PhaseOf(r)' = "sending"
    BY <2>1 DEF PhaseOf
  <2>3. Phase' = [Phase EXCEPT ![r] = "sending"] /\ Phase[r] = "idle"
    BY <2>1, <2>2, PhaseUpdate DEF Phase
  <2>4. Service!Offer(r)
    BY <2>1, <2>3 DEF Phase, Service!Offer, Service!Move
  <2> QED
    BY <2>4 DEF Service!SvcNext
<1>2. ASSUME NEW r \in Reqs, SendRefused(r) PROVE Goal
  <2>1. /\ call[r] = "idle" /\ call'[r] = "refused" /\ ~statusEvenOne
        /\ UNCHANGED <<answers, statusEvenOne>>
        /\ \A q \in Reqs : q # r => call'[q] = call[q]
    BY <1>2 DEF SendRefused, TypeOK
  <2>2. PhaseOf(r) = "idle" /\ PhaseOf(r)' = "refused"
    BY <2>1 DEF PhaseOf
  <2>3. Phase' = [Phase EXCEPT ![r] = "refused"] /\ Phase[r] = "idle"
    BY <2>1, <2>2, PhaseUpdate DEF Phase
  <2>4. Service!Refuse(r)
    BY <2>1, <2>3 DEF Phase, Service!Refuse, Service!Move
  <2> QED
    BY <2>4 DEF Service!SvcNext
<1>3. ASSUME NEW c \in Chans, Receive(c) PROVE Goal
  <2>1. chan[c] # <<>> /\ chan[c] \in Seq(Answers)
    BY <1>3 DEF Receive, TypeOK
  <2>2. Head(chan[c]) = chan[c][1] /\ 1 \in 1..Len(chan[c]) /\ chan[c][1] \in Answers
    BY <2>1
  <2>3. PICK r \in Reqs : r = chan[c][1].req /\ call[r] = "accepted" /\ answers[r] = 1
    BY <2>2 DEF SafetyInv, ChanInv, Answers
  <2>4. /\ call'[r] = "returned" /\ UNCHANGED <<answers, statusEvenOne>>
        /\ \A q \in Reqs : q # r => call'[q] = call[q]
    BY <1>3, <2>2, <2>3 DEF Receive, TypeOK
  <2>5. PhaseOf(r) = "answered" /\ PhaseOf(r)' = "answered"
    BY <2>3, <2>4 DEF PhaseOf
  <2>6. Phase' = [Phase EXCEPT ![r] = PhaseOf(r)']
    BY <2>3, <2>4, PhaseUpdate
  <2>7. Phase' = Phase
    BY <2>3, <2>5, <2>6 DEF Phase
  <2> QED
    BY <2>4, <2>7
<1>4. ASSUME NEW n \in Nodes, NEW r \in Reqs, Accept(n, r) PROVE Goal
  <2>1. /\ call[r] = "sending" /\ call'[r] = "accepted"
        /\ UNCHANGED <<answers, statusEvenOne>>
        /\ \A q \in Reqs : q # r => call'[q] = call[q]
    BY <1>4 DEF Accept, TypeOK
  <2>2. answers[r] = 0 /\ statusEvenOne
    BY <2>1 DEF SafetyInv, CallInv
  <2>3. PhaseOf(r) = "sending" /\ PhaseOf(r)' = "pending"
    BY <2>1, <2>2 DEF PhaseOf
  <2>4. Phase' = [Phase EXCEPT ![r] = "pending"] /\ Phase[r] = "sending"
    BY <2>1, <2>3, PhaseUpdate DEF Phase
  <2>5. Service!Take(r)
    BY <2>1, <2>2, <2>4 DEF Phase, Service!Take, Service!Move
  <2> QED
    BY <2>5 DEF Service!SvcNext
<1>5. ASSUME NEW n \in Nodes, DialOk(n) PROVE Goal
  <2>1. UNCHANGED <<call, answers>> /\ statusEvenOne' = TRUE
    BY <1>5 DEF DialOk
  <2>2. UNCHANGED Phase
    BY <2>1 DEF Phase, PhaseOf
  <2>3. CASE statusEvenOne = TRUE
    BY <2>1, <2>2, <2>3
  <2>4. CASE statusEvenOne = FALSE
    BY <2>1, <2>2, <2>4 DEF Phase, Service!SvcNext, Service!Open
  <2> QED
    BY <2>3, <2>4 DEF TypeOK
<1>6. ASSUME NEW n \in Nodes, RejectUnencodable(n) PROVE Goal
  <2>1. PICK e \in hand[n] : Put(e, NoResult)
    BY <1>6 DEF RejectUnencodable
  <2>2. e \in Owed(n) /\ UNCHANGED statusEvenOne
    BY <1>6, <2>1 DEF RejectUnencodable, SetRun, Owed
  <2> QED
    BY <2>1, <2>2, PhaseAnswer DEF SafetyInv, Service!SvcNext
<1>7. ASSUME NEW n \in Nodes, DrainOne(n) \/ RecvDeliver(n) \/ CheckerExpire(n)
      PROVE  Goal
  <2>1. \E e \in responseMap[n] : \E x : Put(e, x)
    BY <1>7 DEF DrainOne, RecvDeliver, CheckerExpire, Waiting, Expired
  <2>2. responseMap[n] \subseteq Owed(n) /\ UNCHANGED statusEvenOne
    BY <1>7 DEF DrainOne, RecvDeliver, RecvDone, CheckerExpire, Owed
  <2> QED
    BY <2>1, <2>2, PhaseAnswer DEF SafetyInv, Service!SvcNext
<1>8. ASSUME NEW n \in Nodes,
             \/ DialFails(n) \/ Reconnect(n) \/ RunReturns(n) \/ Store(n)
             \/ WriteOk(n) \/ WriteFails(n) \/ CtxDone(n) \/ DoneClosed(n)
             \/ DrainLock(n) \/ DrainEnd(n)
      PROVE  Goal
  <2>1. UNCHANGED <<call, answers, statusEvenOne>>
    BY <1>8 DEF DialFails, Reconnect, EvenOneAfterLoss, RunReturns, Store, WriteOk,
                WriteFails, CtxDone, DoneClosed, DrainLock, DrainEnd
  <2> QED
    BY <2>1, PhaseStutter
<1>9. ASSUME NEW n \in Nodes,
             \/ RecvRead(n) \/ RecvUnreadable(n) \/ RecvFails(n) \/ RecvLookup(n)
             \/ RecvGivesUp(n) \/ CheckerTick(n) \/ CheckerTickEnds(n)
             \/ CheckerExit(n) \/ Age(n)
      PROVE  Goal
  <2>1. UNCHANGED <<call, answers, statusEvenOne>>
    BY <1>9 DEF RecvRead, RecvUnreadable, RecvFails, RecvLookup, RecvGivesUp, RecvDone,
                CheckerTick, CheckerTickEnds, CheckerExit, Age
  <2> QED
    BY <2>1, PhaseStutter
<1>10. CASE ResetAll \/ Shutdown \/ Terminated \/ UNCHANGED vars
  <2>1. UNCHANGED <<call, answers, statusEvenOne>>
    BY <1>10 DEF ResetAll, Shutdown, Terminated, vars
  <2> QED
    BY <2>1, PhaseStutter
<1>11. ASSUME NEW n \in Nodes, RunStep(n) \/ RecvStep(n) \/ CheckerStep(n) \/ Age(n)
       PROVE  Goal
  BY <1>4, <1>5, <1>6, <1>7, <1>8, <1>9, <1>11
     DEF RunStep, RunWork, RecvStep, RecvWork, CheckerStep
<1>12. CASE CallerStep
  BY <1>1, <1>2, <1>3, <1>12 DEF CallerStep
<1> QED
  BY <1>10, <1>11, <1>12 DEF Next

\* Callers see exactly the service: accepted once, answered at most once, and
\* refused only before the first connection.
THEOREM ServiceSafety == Spec => Service!SvcSafety
<1>1. Init => Service!SvcInit
  BY DEF Init, Service!SvcInit, PhaseOf
<1>2. TypeOK /\ SafetyInv /\ [Next]_vars => [Service!SvcNext]_(Service!svcVars)
  BY ServiceStep DEF Phase, Service!svcVars
<1> QED
  BY <1>1, <1>2, SafetyInvariant, PTL DEF Spec, Service!SvcSafety
=============================================================================

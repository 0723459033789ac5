----------------------------- MODULE HealthCheck -----------------------------
(***************************************************************************)
(* Conn.HealthCheck (api/api.go) with the response handler of the two      *)
(* programs.  At every tick one system_health request goes to whichever    *)
(* connection takes it and one answer is awaited, on a channel of its own. *)
(* The answer is not compared with the request: one that comes after its   *)
(* check has given up is read by a later check.  Time passes in units of a *)
(* tick; what can be done at once is done before time passes.              *)
(***************************************************************************)
EXTENDS Naturals, SequencesExt

CONSTANTS
  Nodes,
  Patience,    \* how long a check waits, to send and to receive (30 s)
  ConnTimeout, \* Run's connTimeout (1 min in the worker, 30 s in live)
  ResetAt,     \* unhealthy checks in a row that reset the connections (10)
  ExitAbove,   \* and that end the process when exceeded (20)
  Backlog      \* a capacity the channel could do with (it has 10)

ASSUME HealthAssumption ==
  /\ IsFiniteSet(Nodes)
  /\ Patience \in Nat \ {0} /\ ConnTimeout \in Nat
  /\ ResetAt \in Nat \ {0} /\ ExitAbove \in Nat /\ Backlog \in Nat

\* Requests live so little longer than a check that few checks can be waiting
\* for answers at once: in ticks of 10 s, 6 + 4 <= 10 + 3 in the worker.
ASSUME TimesAssumption == Backlog >= 1 /\ ConnTimeout + 4 <= Backlog + Patience

VARIABLES
  silent,    \* nodes that accept connections and requests but never reply
  online,    \* the nodes whose status is StateOnline
  cancelled, \* the nodes whose connection was reset and is still up
  ending,    \* the node whose connection's loop has ended and drains, if any
  pc,        \* "tick", "send", "wait" or "exit"
  tick,      \* the ticker has fired
  timer,     \* time spent in the present select
  unHealthyRequests,
  asked,     \* health requests not answered, the oldest first
  ch,        \* the buffered answers; TRUE is a healthy one
  settled    \* from now on all nodes are up, and well (set by Settle)

nodeVars  == <<silent, online, cancelled, ending, settled>>
checkVars == <<pc, tick, timer, unHealthyRequests>>
vars == <<nodeVars, checkVars, asked, ch>>

\* What a health request can be answered with.
Replies == {"error", "unreadable", "null", "no peers wanted", "peers", "peers missing"}

\* handleWSHealthcheckResponse: null leaves every field at zero.
Healthy(reply) == reply \in {"null", "no peers wanted", "peers"}

\* timeoutChecker looks every 10 s.
AnsweredBy == ConnTimeout + 1

Init ==
  /\ silent \in SUBSET Nodes
  /\ online = {} /\ cancelled = {} /\ ending = {} /\ settled = FALSE
  /\ pc = "tick" /\ tick = FALSE /\ timer = 0 /\ unHealthyRequests = 0
  /\ asked = <<>>
  /\ ch = <<>>

-----------------------------------------------------------------------------
(* The check.                                                              *)

Skip ==
  /\ pc = "tick" /\ tick /\ online = {}
  /\ tick' = FALSE
  /\ UNCHANGED <<nodeVars, pc, timer, unHealthyRequests, asked, ch>>

Begin ==
  /\ pc = "tick" /\ tick /\ online # {}
  /\ pc' = "send" /\ tick' = FALSE /\ timer' = 0
  /\ UNCHANGED <<nodeVars, unHealthyRequests, asked, ch>>

\* Mutant of Send: what would answer the request is not kept.
SendForgotten(n) ==
  /\ pc = "send" /\ n \in online \ ending
  /\ pc' = "wait" /\ timer' = 0
  /\ UNCHANGED <<nodeVars, tick, unHealthyRequests, asked, ch>>

\* A connection that is being reset may still take the request.
Send(n) ==
  /\ pc = "send" /\ n \in online \ ending
  /\ asked' = Append(asked, [node |-> n, age |-> 0])
  /\ pc' = "wait" /\ timer' = 0
  /\ UNCHANGED <<nodeVars, tick, unHealthyRequests, ch>>

\* Nobody has taken the request: os.Exit(1).
SendTimesOut ==
  /\ pc = "send" /\ timer >= Patience
  /\ pc' = "exit"
  /\ UNCHANGED <<nodeVars, tick, timer, unHealthyRequests, asked, ch>>

\* Mutants of CountAfter: a reset starts the count afresh; a good answer
\* does not.
CountResets(bad) == IF ~bad \/ unHealthyRequests + 1 = ResetAt THEN 0
                    ELSE unHealthyRequests + 1
CountAll(bad) == IF bad THEN unHealthyRequests + 1 ELSE unHealthyRequests

CountAfter(bad) == IF bad THEN unHealthyRequests + 1 ELSE 0

\* The end of a check: at ResetAt every connection is reset.
Judge(bad) ==
  LET n == CountAfter(bad)
  IN  /\ unHealthyRequests' = n
      /\ cancelled' = IF n = ResetAt THEN online ELSE cancelled
      /\ pc' = IF n > ExitAbove THEN "exit" ELSE "tick"
      /\ UNCHANGED <<silent, online, ending, settled, tick, timer, asked>>

Receive ==
  /\ pc = "wait" /\ ch # <<>>
  /\ ch' = Tail(ch)
  /\ Judge(~Head(ch))

\* Mutants of WaitOver: the answer is hardly waited for, or too long.
WaitOverAtOnce == timer >= 1
WaitOverLate == timer > Patience

WaitOver == timer >= Patience

WaitTimesOut ==
  /\ pc = "wait" /\ WaitOver
  /\ UNCHANGED ch
  /\ Judge(TRUE)

-----------------------------------------------------------------------------
(* The connection layer.                                                   *)

Reply(i) ==
  /\ asked[i].node \notin silent \cup ending
  /\ \E reply \in Replies : /\ settled => Healthy(reply)
                            /\ ch' = Append(ch, Healthy(reply))
  /\ asked' = RemoveAt(asked, i)
  /\ UNCHANGED <<nodeVars, checkVars>>

\* timeoutChecker
Expire(i) ==
  /\ asked[i].node \notin ending
  /\ asked[i].age > ConnTimeout
  /\ ch' = Append(ch, FALSE)
  /\ asked' = RemoveAt(asked, i)
  /\ UNCHANGED <<nodeVars, checkVars>>

\* The loop of a connection ends.  Two drains commute, so they come one by one;
\* an answer that is read after the loop's end but before the drain has the lock
\* might as well have been read before.
LoopEnds(n) ==
  /\ ending = {} /\ n \in online
  /\ settled => n \in cancelled
  /\ ending' = {n}
  /\ UNCHANGED <<silent, online, cancelled, settled, checkVars, asked, ch>>

Drain(i) ==
  /\ asked[i].node \in ending
  /\ ch' = Append(ch, FALSE)
  /\ asked' = RemoveAt(asked, i)
  /\ UNCHANGED <<nodeVars, checkVars>>

\* It has answered what it owed, and Run takes note.
Lose(n) ==
  /\ n \in ending /\ \A i \in DOMAIN asked : asked[i].node # n
  /\ online' = online \ {n} /\ cancelled' = cancelled \ {n} /\ ending' = {}
  /\ UNCHANGED <<silent, settled, checkVars, asked, ch>>

Connect(n) ==
  /\ n \notin online
  /\ online' = online \cup {n}
  /\ UNCHANGED <<silent, cancelled, ending, settled, checkVars, asked, ch>>

\* The trouble is over: nodes stay up, take requests and answer well, all at once.
Settle ==
  /\ ~settled /\ silent = {} /\ online = Nodes /\ ending = {}
  /\ settled' = TRUE
  /\ UNCHANGED <<silent, online, cancelled, ending, checkVars, asked, ch>>

-----------------------------------------------------------------------------
(* Time.                                                                   *)

\* Nobody may take the request for a while although connections are up: their
\* run is blocked.  When all is well one takes it at once.
CheckWaits == \/ pc = "tick" /\ ~tick
              \/ pc = "send" /\ timer < Patience /\ ~settled
              \/ pc = "wait" /\ ch = <<>> /\ ~WaitOver

Pass ==
  /\ CheckWaits
  /\ cancelled = {} /\ ending = {}
  /\ \A i \in DOMAIN asked : asked[i].age < AnsweredBy
  /\ settled => asked = <<>> /\ online = Nodes
  /\ asked' = [i \in DOMAIN asked |-> [asked[i] EXCEPT !.age = @ + 1]]
  /\ tick' = TRUE
  /\ timer' = IF pc = "tick" THEN 0 ELSE timer + 1
  /\ UNCHANGED <<nodeVars, pc, unHealthyRequests, ch>>

-----------------------------------------------------------------------------
Check == \/ Skip \/ Begin \/ (\E n \in Nodes : Send(n)) \/ SendTimesOut
         \/ Receive \/ WaitTimesOut

Exited == pc = "exit" /\ UNCHANGED vars

Next == \/ pc # "exit" /\ \/ Check
                          \/ \E i \in DOMAIN asked : Reply(i) \/ Expire(i) \/ Drain(i)
                          \/ \E n \in Nodes : LoopEnds(n) \/ Lose(n) \/ Connect(n)
                          \/ Settle
                          \/ Pass
        \/ Exited

Spec == Init /\ [][Next]_vars

\* The goroutines run, time passes (connections do not come and go for ever in
\* an instant, hence the strong fairness of Pass), a reset connection's loop ends and
\* drains, and what is overdue expires; nodes that are up reply in the end only
\* when the trouble is over.
FairSpec ==
  /\ Spec
  /\ SF_vars(Check) /\ SF_vars(pc # "exit" /\ Pass)
  /\ WF_vars(pc # "exit" /\ \E i \in DOMAIN asked : Expire(i))
  /\ SF_vars(pc # "exit" /\ \E n \in cancelled : LoopEnds(n))
  /\ WF_vars(pc # "exit" /\ ((\E i \in DOMAIN asked : Drain(i)) \/ (\E n \in Nodes : Lose(n))))
  /\ WF_vars(pc # "exit" /\ settled /\ \E n \in Nodes : Connect(n))
  /\ WF_vars(pc # "exit" /\ settled /\ \E i \in DOMAIN asked : Reply(i))

-----------------------------------------------------------------------------
(* Properties.                                                             *)

\* Types; a request is answered before it is older than it may get.
TypeOK ==
  /\ silent \subseteq Nodes /\ online \subseteq Nodes /\ settled \in BOOLEAN
  /\ cancelled \subseteq online /\ ending \subseteq online
  /\ pc \in {"tick", "send", "wait", "exit"} /\ tick \in BOOLEAN
  /\ timer \in 0..Patience
  /\ unHealthyRequests \in 0..(ExitAbove + 1)
  /\ asked \in Seq([node : Nodes, age : 0..AnsweredBy])
  /\ ch \in Seq(BOOLEAN)

\* Answers nobody waits for any more pile up only so far: the channel never
\* fills, or recv, timeoutChecker and the drain would wait with L held.
BacklogBounded == Len(ch) + Len(asked) <= Backlog

\* When no node ever replies, and some connection is up at a tick time and
\* again, the process ends, and is restarted, although resetting the
\* connections makes old requests be answered and later checks read these
\* answers.  (While none is up at any tick the check is skipped for ever.)
SilenceEndsInExit == (silent = Nodes /\ []<>(pc = "send")) => <>(pc = "exit")

\* Once all nodes are well the count goes back to zero, whatever old answers
\* are still to be read, unless it was too late already.
TroubleForgotten == settled ~> unHealthyRequests = 0 \/ pc = "exit"

\* The failures that are due: bad answers not read yet, and a select that has
\* run out of time.
BadAnswers == {i \in DOMAIN ch : ~ch[i]}
OutOfTime == pc \in {"send", "wait"} /\ timer >= Patience
Due == Cardinality(BadAnswers) + IF OutOfTime THEN 1 ELSE 0

\* Requests that may yet be answered badly: overdue, or on a connection that is
\* being reset.
Doomed == {i \in DOMAIN asked : asked[i].age > ConnTimeout \/ asked[i].node \in cancelled}

CheckFails == unHealthyRequests' > unHealthyRequests \/ (pc' = "exit" /\ pc # "exit")

\* A reset begins, or a connection takes a request while it is being reset.
NewTrouble == ~(cancelled' \subseteq cancelled) \/ \E n \in cancelled : Send(n)

\* Once all nodes are well, HealthCheck counts a failure or ends the process
\* only for a fault from before, and each fault once: answers that are read by
\* a later check than they were for, a send or a wait that began late, add none.
\* Only a reset makes new ones.
OldTroubleOnly ==
  [][settled => /\ CheckFails => Due' < Due
                /\ NewTrouble \/ Due' + Cardinality(Doomed') <= Due + Cardinality(Doomed)]_vars
=============================================================================

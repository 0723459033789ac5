-------------------------- MODULE HealthCheckProofs --------------------------
(***************************************************************************)
(* What is proved of HealthCheck for any number of nodes and any timeouts  *)
(* that satisfy TimesAssumption.                                           *)
(***************************************************************************)
EXTENDS HealthCheck, FiniteSetTheorems, TLAPS

-----------------------------------------------------------------------------
(* The inductive invariant.                                                *)

Owed == Len(ch) + Len(asked)

\* Requests that have been asked after the i-th and are not answered.
Newer(i) == Len(asked) - i

\* Requests that can be made before time passes again.
Credit == (IF pc = "send" THEN 1 ELSE 0) + (IF tick THEN 1 ELSE 0)

\* At most one request is made in a tick: the newer ones, and those the present
\* tick still allows, are no more than the ticks since.
OnePerTick == \A i \in 1..Len(asked) : Newer(i) + Credit <= asked[i].age + 1

\* None is made while a check waits.
NoneMeanwhile ==
  pc = "wait" => \A i \in 1..Len(asked) : Newer(i) + timer <= asked[i].age + 1

\* A check that waits for long finds few requests not answered; there is its own.
FewWhenLong ==
  pc = "wait" => Owed >= 1 /\ (timer >= 1 => Owed + timer <= ConnTimeout + 3)

Room == Owed <= IF pc = "wait" THEN Backlog ELSE Backlog - 1

StillRuns == pc # "exit" => unHealthyRequests <= ExitAbove

\* Once the trouble is over a loop only ends because of a reset.
EndingReset == settled => ending \subseteq cancelled

IInv == EndingReset /\ TypeOK /\ OnePerTick /\ NoneMeanwhile /\ FewWhenLong /\ Room /\ StillRuns

-----------------------------------------------------------------------------
(* Lemmas about the sequences.                                             *)

Records == [node : Nodes, age : 0..AnsweredBy]

LEMMA Removal ==
  ASSUME NEW S, NEW s \in Seq(S), NEW i \in 1..Len(s)
  PROVE  /\ RemoveAt(s, i) \in Seq(S)
         /\ Len(RemoveAt(s, i)) = Len(s) - 1
         /\ \A j \in 1..(Len(s) - 1) : RemoveAt(s, i)[j] = IF j < i THEN s[j] ELSE s[j + 1]
<1> DEFINE a == SubSeq(s, 1, i - 1)
           b == SubSeq(s, i + 1, Len(s))
<1>1. Len(s) \in Nat /\ i \in Nat /\ i >= 1 /\ i <= Len(s)
  OBVIOUS
<1>2. /\ a \in Seq(S) /\ Len(a) = i - 1
      /\ \A j \in 1..(i - 1) : a[j] = s[j]
  BY <1>1
<1>3. /\ b \in Seq(S) /\ Len(b) = Len(s) - i
      /\ \A j \in 1..(Len(s) - i) : b[j] = s[i + j]
  BY <1>1
<1> HIDE DEF a, b
<1>4. /\ a \o b \in Seq(S) /\ Len(a \o b) = Len(s) - 1
      /\ \A j \in 1..(Len(s) - 1) : (a \o b)[j] = IF j < i THEN a[j] ELSE b[j - (i - 1)]
  <2>1. /\ a \o b \in Seq(S) /\ Len(a \o b) = Len(a) + Len(b)
        /\ \A j \in 1..(Len(a) + Len(b)) :
             (a \o b)[j] = IF j <= Len(a) THEN a[j] ELSE b[j - Len(a)]
    <3>1. a \in Seq(S) /\ b \in Seq(S)
      BY <1>2, <1>3
    <3> QED
      BY <3>1
  <2>2. Len(a) + Len(b) = Len(s) - 1 /\ \A j \in Nat : j <= Len(a) <=> j < i
    BY <1>1, <1>2, <1>3
  <2> QED
    BY <1>2, <2>1, <2>2
<1>5. ASSUME NEW j \in 1..(Len(s) - 1) PROVE (a \o b)[j] = IF j < i THEN s[j] ELSE s[j + 1]
  <2>1. CASE j < i
    BY <1>1, <1>2, <1>4, <2>1
  <2>2. CASE ~(j < i)
    <3>1. j - (i - 1) \in 1..(Len(s) - i) /\ i + (j - (i - 1)) = j + 1
      BY <1>1, <2>2
    <3> QED
      BY <1>3, <1>4, <2>2, <3>1
  <2> QED
    BY <2>1, <2>2
<1> QED
  BY <1>4, <1>5 DEF RemoveAt, a, b

LEMMA FirstOf ==
  ASSUME NEW S, NEW s \in Seq(S), s # <<>>
  PROVE  Head(s) = s[1]
  OBVIOUS

LEMMA IsBoolean == \A x, S : (x \in S) = TRUE \/ (x \in S) = FALSE
  BY SMT

-----------------------------------------------------------------------------
(* The arithmetic of the invariant is about these.                         *)

LEMMA Numbers ==
  ASSUME IInv
  PROVE  /\ Len(asked) \in Nat /\ Len(ch) \in Nat /\ timer \in Nat /\ timer <= Patience
         /\ unHealthyRequests \in Nat
         /\ asked \in Seq(Records) /\ ch \in Seq(BOOLEAN)
         /\ \A i \in 1..Len(asked) : /\ asked[i] \in Records /\ asked[i].age \in Nat
                                     /\ asked[i].age <= AnsweredBy
         /\ Patience \in Nat \ {0} /\ ConnTimeout \in Nat /\ AnsweredBy = ConnTimeout + 1
         /\ Backlog \in Nat /\ ExitAbove \in Nat /\ ResetAt \in Nat
         /\ Credit \in 0..2
<1>1. asked \in Seq(Records) /\ ch \in Seq(BOOLEAN) /\ timer \in 0..Patience
      /\ unHealthyRequests \in 0..(ExitAbove + 1)
  BY DEF IInv, TypeOK, Records
<1>2. \A i \in 1..Len(asked) : asked[i] \in Records
  BY <1>1
<1>3. AnsweredBy = ConnTimeout + 1 /\ AnsweredBy \in Nat
  BY HealthAssumption DEF AnsweredBy
<1>4. \A i \in 1..Len(asked) : asked[i].age \in Nat /\ asked[i].age <= AnsweredBy
  BY <1>2, <1>3 DEF Records
<1>5. Len(asked) \in Nat /\ Len(ch) \in Nat
  BY <1>1
<1> QED
  BY <1>1, <1>2, <1>3, <1>4, <1>5, HealthAssumption DEF Credit

\* Changes of the nodes do not touch it.
LEMMA NodeStep ==
  ASSUME IInv,
         \/ \E n \in Nodes : LoopEnds(n) \/ Lose(n) \/ Connect(n)
         \/ Settle \/ UNCHANGED vars
  PROVE  IInv'
<1>1. UNCHANGED <<pc, tick, timer, unHealthyRequests, asked, ch>>
  BY DEF LoopEnds, Lose, Connect, Settle, vars, checkVars
<1> DEFINE NodesOK == /\ silent \subseteq Nodes /\ online \subseteq Nodes /\ settled \in BOOLEAN
                      /\ cancelled \subseteq online /\ ending \subseteq online
<1>2. NodesOK'
  <2>1. NodesOK
    BY DEF IInv, TypeOK
  <2>2. ASSUME NEW n \in Nodes, LoopEnds(n) PROVE NodesOK'
    BY <2>1, <2>2 DEF LoopEnds
  <2>3. ASSUME NEW n \in Nodes, Lose(n) PROVE NodesOK'
    BY <2>1, <2>3 DEF Lose, IInv, TypeOK
  <2>4. ASSUME NEW n \in Nodes, Connect(n) PROVE NodesOK'
    BY <2>1, <2>4 DEF Connect
  <2>5. CASE Settle \/ UNCHANGED vars
    BY <2>1, <2>5 DEF Settle, vars, nodeVars
  <2> QED
    BY <2>2, <2>3, <2>4, <2>5
<1>3. TypeOK'
  BY <1>1, <1>2 DEF IInv, TypeOK
<1>4. EndingReset'
  <2>1. EndingReset /\ ending \subseteq Nodes
    BY DEF IInv, TypeOK
  <2>2. ASSUME NEW n \in Nodes, LoopEnds(n) \/ Lose(n) \/ Connect(n) PROVE EndingReset'
    BY <2>1, <2>2 DEF LoopEnds, Lose, Connect, EndingReset
  <2>3. CASE Settle \/ UNCHANGED vars
    BY <2>1, <2>3 DEF Settle, vars, nodeVars, EndingReset
  <2> QED
    BY <2>2, <2>3
<1> QED
  BY <1>1, <1>3, <1>4
     DEF IInv, OnePerTick, NoneMeanwhile, FewWhenLong, Room, StillRuns, Owed, Newer, Credit

-----------------------------------------------------------------------------
(* The check.                                                              *)

\* A tick is skipped, or begins a check, or nobody takes the request.
LEMMA TickStep ==
  ASSUME IInv, Skip \/ Begin \/ SendTimesOut
  PROVE  IInv'
<1>1. /\ UNCHANGED <<silent, online, cancelled, ending, settled, unHealthyRequests, asked, ch>>
      /\ pc # "wait" /\ pc' # "wait" /\ pc # "exit"
      /\ pc' \in {"tick", "send", "wait", "exit"} /\ tick' \in BOOLEAN /\ timer' \in {0, timer}
      /\ Credit' <= Credit /\ Credit' \in Nat
  <2>1. tick \in BOOLEAN
    BY DEF IInv, TypeOK
  <2>2. CASE Skip
    <3>1. pc = "tick" /\ tick /\ pc' = "tick" /\ tick' = FALSE
      BY <2>2 DEF Skip
    <3>2. Credit = 1 /\ Credit' = 0
      BY <3>1 DEF Credit
    <3>3. Credit' <= Credit /\ Credit' \in Nat
      BY <3>2
    <3> QED
      BY <2>2, <3>1, <3>3 DEF Skip, nodeVars
  <2>3. CASE Begin
    <3>1. pc = "tick" /\ tick /\ pc' = "send" /\ tick' = FALSE
      BY <2>3 DEF Begin
    <3>2. Credit = 1 /\ Credit' = 1
      BY <3>1 DEF Credit
    <3>3. Credit' <= Credit /\ Credit' \in Nat
      BY <3>2
    <3> QED
      BY <2>3, <3>1, <3>3 DEF Begin, nodeVars
  <2>4. CASE SendTimesOut
    BY <2>1, <2>4 DEF SendTimesOut, nodeVars, Credit
  <2> QED
    BY <2>2, <2>3, <2>4
<1>2. TypeOK'
  BY <1>1, Numbers DEF IInv, TypeOK
<1>3. OnePerTick'
  <2>1. ASSUME NEW i \in 1..Len(asked) PROVE Newer(i) + Credit' <= asked[i].age + 1
    <3>1. Newer(i) \in Int /\ asked[i].age \in Nat /\ Credit \in Nat
      BY Numbers DEF Newer
    <3>2. Newer(i) + Credit <= asked[i].age + 1
      BY DEF IInv, OnePerTick
    <3>3. Credit' <= Credit /\ Credit' \in Nat
      BY <1>1
    <3> QED
      BY <3>1, <3>2, <3>3
  <2> QED
    BY <1>1, <2>1 DEF OnePerTick, Newer
<1> QED
  BY <1>1, <1>2, <1>3 DEF IInv, EndingReset, NoneMeanwhile, FewWhenLong, Room, StillRuns, Owed

\* The request is made: one more, in its own tick.
LEMMA SendStep ==
  ASSUME IInv, NEW n \in Nodes, Send(n)
  PROVE  IInv'
<1> DEFINE r == [node |-> n, age |-> 0]
<1>1. /\ UNCHANGED <<silent, online, cancelled, ending, settled, tick, unHealthyRequests, ch>>
      /\ pc = "send" /\ pc' = "wait" /\ timer' = 0 /\ asked' = Append(asked, r)
  BY DEF Send, nodeVars
<1>2. r \in Records /\ r.age = 0
  BY Numbers DEF Records
<1>3. /\ asked' \in Seq(Records) /\ Len(asked') = Len(asked) + 1
      /\ \A i \in 1..Len(asked) : asked'[i] = asked[i]
      /\ asked'[Len(asked) + 1] = r
  <2>1. asked \in Seq(Records) /\ r \in Records
    BY <1>2, Numbers
  <2> HIDE DEF r
  <2> QED
    BY <1>1, <2>1
<1> HIDE DEF r
<1>4. TypeOK'
  BY <1>1, <1>3, Numbers DEF IInv, TypeOK, Records
<1>5. ASSUME NEW i \in 1..Len(asked')
      PROVE  Newer(i)' + Credit' <= asked'[i].age + 1 /\ Newer(i)' <= asked'[i].age + 1
  <2>0. Credit = Credit' + 1 /\ Credit' \in {0, 1}
    BY <1>1 DEF Credit
  <2>1. CASE i = Len(asked) + 1
    <3>1. asked'[i].age \in Nat /\ Newer(i)' <= 0 /\ Newer(i)' \in Int
      BY <1>2, <1>3, <2>1, Numbers DEF Newer
    <3>2. Credit' \in Nat /\ Credit' <= 1
      BY <2>0
    <3> QED
      BY <3>1, <3>2
  <2>2. CASE i # Len(asked) + 1
    <3>1. i \in 1..Len(asked)
      BY <1>3, <2>2, Numbers
    <3>2. Newer(i) + Credit <= asked[i].age + 1
      BY <3>1 DEF IInv, OnePerTick
    <3>3. Newer(i)' = Newer(i) + 1 /\ Newer(i) \in Int
      BY <1>3, <3>1, Numbers DEF Newer
    <3>4. asked'[i] = asked[i] /\ asked[i].age \in Nat
      BY <1>3, <3>1, Numbers
    <3> QED
      BY <2>0, <3>2, <3>3, <3>4
  <2> QED
    BY <2>1, <2>2
<1>6. OnePerTick'
  BY <1>5 DEF OnePerTick
<1>7. NoneMeanwhile'
  <2>1. ASSUME NEW i \in 1..Len(asked') PROVE Newer(i)' + 0 <= asked'[i].age + 1
    <3>1. Newer(i)' \in Int
      BY <1>3, Numbers DEF Newer
    <3> QED
      BY <1>5, <3>1
  <2> QED
    BY <1>1, <2>1 DEF NoneMeanwhile
<1>8. Owed' = Owed + 1 /\ Owed \in Nat
  BY <1>1, <1>3, Numbers DEF Owed
<1>9. FewWhenLong' /\ Room'
  <2>1. Owed <= Backlog - 1
    BY <1>1 DEF IInv, Room
  <2> QED
    BY <1>1, <1>8, <2>1, Numbers DEF FewWhenLong, Room
<1> QED
  BY <1>1, <1>4, <1>6, <1>7, <1>9 DEF IInv, EndingReset, StillRuns

\* The check ends; there is room again.
LEMMA JudgeStep ==
  ASSUME IInv, Receive \/ WaitTimesOut
  PROVE  IInv'
<1>1. PICK bad :
        /\ pc = "wait" /\ Judge(bad)
        /\ \/ ch # <<>> /\ ch' = Tail(ch)
           \/ timer >= Patience /\ ch' = ch
  <2>1. CASE Receive
    BY <2>1 DEF Receive
  <2>2. CASE WaitTimesOut
    BY <2>2 DEF WaitTimesOut, WaitOver
  <2> QED
    BY <2>1, <2>2
<1>2. /\ UNCHANGED <<silent, online, ending, settled, tick, timer, asked>>
      /\ cancelled' \in {online, cancelled}
      /\ unHealthyRequests' = CountAfter(bad)
      /\ pc' = IF CountAfter(bad) > ExitAbove THEN "exit" ELSE "tick"
  BY <1>1 DEF Judge
<1>3. /\ CountAfter(bad) \in 0..(ExitAbove + 1)
      /\ pc' # "exit" => CountAfter(bad) <= ExitAbove
  <2>1. unHealthyRequests <= ExitAbove
    BY <1>1 DEF IInv, StillRuns
  <2> QED
    BY <1>2, <2>1, Numbers DEF CountAfter
<1>4. ch' \in Seq(BOOLEAN) /\ Len(ch') \in Nat /\ Len(ch') + Len(asked) <= Backlog - 1
  <2>1. Len(ch) + Len(asked) <= Backlog
    BY <1>1 DEF IInv, Room, Owed
  <2>2. CASE ch # <<>> /\ ch' = Tail(ch)
    <3>1. ch' \in Seq(BOOLEAN) /\ Len(ch') = Len(ch) - 1 /\ Len(ch') \in Nat
      BY <2>2, Numbers
    <3> QED
      BY <2>1, <3>1, Numbers
  <2>3. CASE timer >= Patience /\ ch' = ch
    <3>1. timer >= 1
      BY <2>3, Numbers
    <3>2. Len(ch) + Len(asked) + timer <= ConnTimeout + 3
      BY <1>1, <3>1 DEF IInv, FewWhenLong, Owed
    <3>3. Len(ch) + Len(asked) <= Backlog - 1
      BY <2>3, <3>2, Numbers, TimesAssumption
    <3> QED
      BY <2>3, <3>3, Numbers
  <2> QED
    BY <1>1, <2>2, <2>3
<1>5. TypeOK'
  <2>1. cancelled' \subseteq online'
    BY <1>2 DEF IInv, TypeOK
  <2> QED
    BY <1>2, <1>3, <1>4, <2>1 DEF IInv, TypeOK
<1>6. OnePerTick'
  <2>1. Credit' = Credit
    BY <1>1, <1>2 DEF Credit
  <2> QED
    BY <1>2, <2>1 DEF IInv, OnePerTick, Newer
<1>7. pc' # "wait"
  BY <1>2
<1>8. EndingReset'
  BY <1>2 DEF IInv, EndingReset, TypeOK
<1> QED
  BY <1>2, <1>3, <1>4, <1>5, <1>6, <1>7, <1>8
     DEF IInv, NoneMeanwhile, FewWhenLong, Room, StillRuns, Owed

-----------------------------------------------------------------------------
(* The connection layer and time.                                          *)

\* An answer, of whatever kind: the requests behind it are not more than before.
LEMMA AnswerStep ==
  ASSUME IInv, NEW i \in DOMAIN asked, Reply(i) \/ Expire(i) \/ Drain(i)
  PROVE  IInv'
<1>1. /\ i \in 1..Len(asked) /\ asked' = RemoveAt(asked, i)
      /\ UNCHANGED <<silent, online, cancelled, ending, settled, pc, tick, timer,
                     unHealthyRequests>>
  <2>1. i \in 1..Len(asked)
    BY Numbers
  <2>2. CASE Reply(i)
    BY <2>1, <2>2 DEF Reply, nodeVars, checkVars
  <2>3. CASE Expire(i)
    BY <2>1, <2>3 DEF Expire, nodeVars, checkVars
  <2>4. CASE Drain(i)
    BY <2>1, <2>4 DEF Drain, nodeVars, checkVars
  <2> QED
    BY <2>2, <2>3, <2>4
<1>2. ch' \in Seq(BOOLEAN) /\ Len(ch') = Len(ch) + 1
  <2>1. \E b \in BOOLEAN : ch' = Append(ch, b)
    <3>1. CASE Reply(i)
      <4>1. PICK reply \in Replies : ch' = Append(ch, Healthy(reply))
        BY <3>1 DEF Reply
      <4>2. Healthy(reply) = TRUE \/ Healthy(reply) = FALSE
        BY IsBoolean DEF Healthy
      <4> QED
        BY <4>1, <4>2
    <3>2. CASE Expire(i) \/ Drain(i)
      <4>1. ch' = Append(ch, FALSE)
        BY <3>2 DEF Expire, Drain
      <4> QED
        BY <4>1
    <3> QED
      BY <3>1, <3>2
  <2>2. ch \in Seq(BOOLEAN)
    BY Numbers
  <2>3. ASSUME NEW b \in BOOLEAN PROVE Append(ch, b) \in Seq(BOOLEAN) /\ Len(Append(ch, b)) = Len(ch) + 1
    BY <2>2
  <2> QED
    BY <2>1, <2>3
<1>3. /\ asked' \in Seq(Records) /\ Len(asked') = Len(asked) - 1
      /\ \A j \in 1..(Len(asked) - 1) : asked'[j] = IF j < i THEN asked[j] ELSE asked[j + 1]
  <2>1. asked \in Seq(Records)
    BY Numbers
  <2> QED
    BY <1>1, <2>1, Removal
<1>4. TypeOK'
  BY <1>1, <1>2, <1>3 DEF IInv, TypeOK, Records
<1>5. ASSUME NEW j \in 1..Len(asked')
      PROVE  \E k \in 1..Len(asked) : asked'[j] = asked[k] /\ Newer(j)' <= Newer(k)
  <2>1. j \in 1..(Len(asked) - 1) /\ j \in 1..Len(asked) /\ j + 1 \in 1..Len(asked)
    BY <1>3, Numbers
  <2>2. CASE j < i
    <3>1. asked'[j] = asked[j] /\ Newer(j)' <= Newer(j)
      BY <1>3, <2>1, <2>2, Numbers DEF Newer
    <3> QED
      BY <2>1, <3>1
  <2>3. CASE ~(j < i)
    <3>1. asked'[j] = asked[j + 1] /\ Newer(j)' <= Newer(j + 1)
      BY <1>3, <2>1, <2>3, Numbers DEF Newer
    <3> QED
      BY <2>1, <3>1
  <2> QED
    BY <2>2, <2>3
<1>6. \A j \in 1..Len(asked') : Newer(j)' \in Int
  BY <1>3, Numbers DEF Newer
<1>7. \A k \in 1..Len(asked) : Newer(k) \in Int
  BY Numbers DEF Newer
<1>8. OnePerTick'
  <2> SUFFICES ASSUME NEW j \in 1..Len(asked')
               PROVE  Newer(j)' + Credit' <= asked'[j].age + 1
    BY DEF OnePerTick
  <2>1. Credit' = Credit
    BY <1>1 DEF Credit
  <2>2. PICK k \in 1..Len(asked) : asked'[j] = asked[k] /\ Newer(j)' <= Newer(k)
    BY <1>5
  <2>3. Newer(k) + Credit <= asked[k].age + 1
    BY DEF IInv, OnePerTick
  <2>a. Credit \in Nat /\ asked[k].age \in Nat
    BY Numbers
  <2>4. Newer(j)' + Credit <= asked[k].age + 1
    BY <1>6, <1>7, <2>2, <2>3, <2>a
  <2> QED
    BY <2>1, <2>2, <2>4
<1>9. NoneMeanwhile'
  <2> SUFFICES ASSUME pc = "wait", NEW j \in 1..Len(asked')
               PROVE  Newer(j)' + timer <= asked'[j].age + 1
    BY <1>1 DEF NoneMeanwhile
  <2>1. PICK k \in 1..Len(asked) : asked'[j] = asked[k] /\ Newer(j)' <= Newer(k)
    BY <1>5
  <2>2. Newer(k) + timer <= asked[k].age + 1 /\ timer \in Nat /\ asked[k].age \in Nat
    BY Numbers DEF IInv, NoneMeanwhile
  <2>3. Newer(j)' + timer <= asked[k].age + 1
    BY <1>6, <1>7, <2>1, <2>2
  <2> QED
    BY <2>1, <2>3
<1>10. Owed' = Owed
  BY <1>2, <1>3, Numbers DEF Owed
<1> QED
  BY <1>1, <1>4, <1>8, <1>9, <1>10 DEF IInv, EndingReset, FewWhenLong, Room, StillRuns

\* Time passes: every request is older, and there is a new tick.
LEMMA PassStep ==
  ASSUME IInv, Pass
  PROVE  IInv'
<1>1. /\ UNCHANGED <<silent, online, cancelled, ending, settled, pc, unHealthyRequests, ch>>
      /\ \A i \in DOMAIN asked : asked[i].age < AnsweredBy
      /\ asked' = [i \in DOMAIN asked |-> [asked[i] EXCEPT !.age = @ + 1]]
      /\ tick' = TRUE
      /\ timer' = IF pc = "tick" THEN 0 ELSE timer + 1
      /\ pc # "tick" => timer < Patience
      /\ pc = "wait" => ch = <<>>
  <2>1. CheckWaits
    BY DEF Pass
  <2>2. (pc # "tick" => timer < Patience) /\ (pc = "wait" => ch = <<>>)
    BY <2>1, Numbers DEF CheckWaits, WaitOver
  <2> QED
    BY <2>2 DEF Pass, nodeVars
<1>2. DOMAIN asked = 1..Len(asked) /\ Len(asked) \in Nat
  BY Numbers
<1>3. ASSUME NEW i \in 1..Len(asked)
      PROVE  /\ asked'[i] \in Records /\ asked'[i].age = asked[i].age + 1
             /\ asked[i].age <= ConnTimeout /\ asked[i].age \in Nat
  <2>1. /\ asked[i] \in Records /\ asked[i].age \in Nat /\ asked[i].age < AnsweredBy
        /\ AnsweredBy = ConnTimeout + 1 /\ ConnTimeout \in Nat
    BY <1>1, <1>2, Numbers
  <2>2. asked[i].age + 1 \in 0..AnsweredBy
    BY <2>1
  <2>3. asked'[i] = [asked[i] EXCEPT !.age = @ + 1]
    BY <1>1, <1>2
  <2> QED
    BY <2>1, <2>2, <2>3 DEF Records
<1>4. asked' \in Seq(Records) /\ Len(asked') = Len(asked)
  <2>1. asked' \in [1..Len(asked) -> Records]
    BY <1>1, <1>2, <1>3
  <2> QED
    BY <1>2, <2>1
<1>5. timer' \in 0..Patience
  BY <1>1, Numbers
<1>6. TypeOK'
  BY <1>1, <1>4, <1>5 DEF IInv, TypeOK, Records
<1>7. \A i \in 1..Len(asked) : Newer(i)' = Newer(i) /\ Newer(i) \in Int
  BY <1>4, Numbers DEF Newer
<1>8. OnePerTick'
  <2> SUFFICES ASSUME NEW i \in 1..Len(asked) PROVE Newer(i)' + Credit' <= asked'[i].age + 1
    BY <1>4 DEF OnePerTick
  <2>1. Credit' <= Credit + 1 /\ Credit' \in Nat /\ Credit \in Nat
    BY <1>1 DEF Credit
  <2>2. Newer(i) + Credit <= asked[i].age + 1
    BY DEF IInv, OnePerTick
  <2>3. Newer(i) + Credit' <= (asked[i].age + 1) + 1
    BY <1>3, <1>7, <2>1, <2>2
  <2> QED
    BY <1>3, <1>7, <2>3
<1>9. NoneMeanwhile'
  <2> SUFFICES ASSUME pc = "wait", NEW i \in 1..Len(asked)
               PROVE  Newer(i)' + timer' <= asked'[i].age + 1
    BY <1>1, <1>4 DEF NoneMeanwhile
  <2>1. Newer(i) + timer <= asked[i].age + 1
    BY DEF IInv, NoneMeanwhile
  <2>2. timer' = timer + 1 /\ timer \in Nat
    BY <1>1, Numbers
  <2>3. Newer(i) + (timer + 1) <= (asked[i].age + 1) + 1
    BY <1>3, <1>7, <2>1, <2>2
  <2> QED
    BY <1>3, <1>7, <2>2, <2>3
<1>10. Owed' = Owed
  BY <1>1, <1>4 DEF Owed
<1>11. FewWhenLong'
  <2> SUFFICES ASSUME pc = "wait" PROVE Owed >= 1 /\ Owed + timer' <= ConnTimeout + 3
    BY <1>1, <1>10 DEF FewWhenLong
  <2>1. Owed >= 1
    BY DEF IInv, FewWhenLong
  <2>2. Owed = Len(asked)
    <3>1. Len(ch) = 0
      BY <1>1
    <3> QED
      BY <1>2, <3>1 DEF Owed
  <2>3. 1 \in 1..Len(asked) /\ Newer(1) = Len(asked) - 1
    BY <1>2, <2>1, <2>2 DEF Newer
  <2>4. Newer(1) + timer <= asked[1].age + 1
    BY <2>3 DEF IInv, NoneMeanwhile
  <2>5. timer' = timer + 1 /\ timer \in Nat /\ ConnTimeout \in Nat
    BY <1>1, Numbers
  <2>6. Len(asked) - 1 + timer <= ConnTimeout + 1
    BY <1>2, <1>3, <2>3, <2>4, <2>5
  <2>7. Len(asked) + (timer + 1) <= ConnTimeout + 3
    BY <1>2, <2>5, <2>6
  <2> QED
    BY <2>1, <2>2, <2>5, <2>7
<1> QED
  BY <1>1, <1>6, <1>8, <1>9, <1>10, <1>11 DEF IInv, EndingReset, Room, StillRuns

-----------------------------------------------------------------------------
LEMMA InvInit == Init => IInv
<1> SUFFICES ASSUME Init PROVE IInv
  OBVIOUS
<1>1. Len(asked) = 0 /\ Len(ch) = 0 /\ asked \in Seq(Records) /\ ch \in Seq(BOOLEAN)
  BY DEF Init
<1>2. TypeOK
  <2>1. timer \in 0..Patience /\ unHealthyRequests \in 0..(ExitAbove + 1)
    BY HealthAssumption DEF Init
  <2>2. /\ silent \subseteq Nodes /\ online \subseteq Nodes /\ settled \in BOOLEAN
        /\ cancelled \subseteq online /\ ending \subseteq online
        /\ pc \in {"tick", "send", "wait", "exit"} /\ tick \in BOOLEAN
    BY DEF Init
  <2> QED
    BY <1>1, <2>1, <2>2 DEF TypeOK, Records
<1>3. OnePerTick /\ NoneMeanwhile
  BY <1>1 DEF OnePerTick, NoneMeanwhile
<1>4. FewWhenLong /\ StillRuns
  BY HealthAssumption DEF Init, FewWhenLong, StillRuns
<1>5. Room
  BY <1>1, HealthAssumption, TimesAssumption DEF Init, Room, Owed
<1>6. EndingReset
  BY DEF Init, EndingReset
<1> QED
  BY <1>2, <1>3, <1>4, <1>5, <1>6 DEF IInv

LEMMA InvStep == IInv /\ [Next]_vars => IInv'
<1> SUFFICES ASSUME IInv, [Next]_vars PROVE IInv'
  OBVIOUS
<1>1. CASE Check
  BY <1>1, TickStep, SendStep, JudgeStep DEF Check
<1>2. ASSUME NEW i \in DOMAIN asked, Reply(i) \/ Expire(i) \/ Drain(i) PROVE IInv'
  BY <1>2, AnswerStep
<1>3. CASE Pass
  BY <1>3, PassStep
<1>4. CASE (\E n \in Nodes : LoopEnds(n) \/ Lose(n) \/ Connect(n)) \/ Settle \/ UNCHANGED vars
  BY <1>4, NodeStep
<1> QED
  BY <1>1, <1>2, <1>3, <1>4 DEF Next, Exited

\* What holds in every reachable state of the check and of the requests it has made.
THEOREM Invariance == Spec => []IInv
  BY InvInit, InvStep, PTL DEF Spec

-----------------------------------------------------------------------------
(* The theorems.                                                           *)

\* Every variable keeps its type; unHealthyRequests, a uint8 in HealthCheck,
\* never exceeds the limit by more than one.
THEOREM TypeCorrect == Spec => []TypeOK
<1>1. IInv => TypeOK
  BY DEF IInv
<1> QED
  BY <1>1, Invariance, PTL

\* The answers HealthCheck's channel holds or is owed never exceed its capacity.
THEOREM BacklogIsBounded == Spec => []BacklogBounded
<1>1. IInv => BacklogBounded
  <2> SUFFICES ASSUME IInv PROVE Len(ch) + Len(asked) <= Backlog
    BY DEF BacklogBounded
  <2>1. Len(ch) \in Nat /\ Len(asked) \in Nat /\ Backlog \in Nat
    BY Numbers
  <2>2. Len(ch) + Len(asked) <= Backlog \/ Len(ch) + Len(asked) <= Backlog - 1
    BY DEF IInv, Room, Owed
  <2> QED
    BY <2>1, <2>2
<1> QED
  BY <1>1, Invariance, PTL

-----------------------------------------------------------------------------
(* Failures after the trouble is over.                                     *)

\* Positions of a sequence that loses its i-th element.
LEMMA Shifted ==
  ASSUME NEW n \in Nat, NEW i \in 1..n, NEW D \in SUBSET (1..n),
         NEW E \in SUBSET (1..(n - 1)),
         \A j \in 1..(n - 1) : j \in E <=> (IF j < i THEN j ELSE j + 1) \in D
  PROVE  /\ Cardinality(D) \in Nat /\ Cardinality(E) \in Nat
         /\ i \in D => Cardinality(E) = Cardinality(D) - 1
         /\ i \notin D => Cardinality(E) = Cardinality(D)
<1> DEFINE f == [j \in E |-> IF j < i THEN j ELSE j + 1]
<1>1. IsFiniteSet(D) /\ IsFiniteSet(E)
  <2>1. IsFiniteSet(1..n) /\ IsFiniteSet(1..(n - 1))
    BY FS_Interval
  <2> QED
    BY <2>1, FS_Subset
<1>2. f \in [E -> D \ {i}]
  OBVIOUS
<1>3. \A a, b \in E : f[a] = f[b] => a = b
  OBVIOUS
<1>4. ASSUME NEW d \in D \ {i} PROVE \E j \in E : f[j] = d
  <2>1. CASE d < i
    <3>1. d \in 1..(n - 1) /\ d \in E
      BY <2>1
    <3> QED
      BY <2>1, <3>1
  <2>2. CASE ~(d < i)
    <3>1. d - 1 \in 1..(n - 1) /\ ~(d - 1 < i) /\ (d - 1) + 1 = d
      BY <2>2
    <3>2. d - 1 \in E
      BY <3>1
    <3> QED
      BY <3>1, <3>2
  <2> QED
    BY <2>1, <2>2
<1> HIDE DEF f
<1>5. ExistsBijection(E, D \ {i})
  <2>1. f \in Bijection(E, D \ {i})
    BY <1>2, <1>3, <1>4 DEF Bijection, Injection, IsInjective, Surjection
  <2> QED
    BY <2>1 DEF ExistsBijection
<1>6. Cardinality(D \ {i}) = Cardinality(E)
  BY <1>1, <1>5, FS_Bijection
<1> QED
  BY <1>1, <1>6, FS_RemoveElement, FS_CardinalityType

\* The sets that are counted are sets of positions.
LEMMA Counted ==
  ASSUME IInv
  PROVE  /\ BadAnswers \in SUBSET (1..Len(ch)) /\ Doomed \in SUBSET (1..Len(asked))
         /\ IsFiniteSet(BadAnswers) /\ Cardinality(BadAnswers) \in Nat
         /\ IsFiniteSet(Doomed) /\ Cardinality(Doomed) \in Nat
<1>1. BadAnswers \in SUBSET (1..Len(ch)) /\ Doomed \in SUBSET (1..Len(asked))
  BY Numbers DEF BadAnswers, Doomed
<1>2. IsFiniteSet(1..Len(ch)) /\ IsFiniteSet(1..Len(asked))
  BY Numbers, FS_Interval
<1>3. IsFiniteSet(BadAnswers) /\ IsFiniteSet(Doomed)
  BY <1>1, <1>2, FS_Subset
<1> QED
  BY <1>1, <1>3, FS_CardinalityType

\* An answer is read.
LEMMA BadTail ==
  ASSUME IInv, ch # <<>>, ch' = Tail(ch)
  PROVE  /\ Cardinality(BadAnswers') \in Nat
         /\ ~Head(ch) => Cardinality(BadAnswers') = Cardinality(BadAnswers) - 1
         /\ Head(ch) => Cardinality(BadAnswers') = Cardinality(BadAnswers)
<1>1. /\ ch \in Seq(BOOLEAN) /\ Len(ch) \in Nat /\ 1 \in 1..Len(ch)
      /\ DOMAIN Tail(ch) = 1..(Len(ch) - 1) /\ DOMAIN ch = 1..Len(ch)
      /\ \A j \in 1..(Len(ch) - 1) : Tail(ch)[j] = ch[j + 1]
  BY Numbers
<1>2. Head(ch) = ch[1]
  BY <1>1, FirstOf
<1>3. BadAnswers' \in SUBSET (1..(Len(ch) - 1))
  BY <1>1 DEF BadAnswers
<1>4. ASSUME NEW j \in 1..(Len(ch) - 1)
      PROVE  j \in BadAnswers' <=> (IF j < 1 THEN j ELSE j + 1) \in BadAnswers
  <2>1. ~(j < 1) /\ j + 1 \in 1..Len(ch)
    BY <1>1
  <2>2. j \in BadAnswers' <=> ~Tail(ch)[j]
    BY <1>1, Zenon DEF BadAnswers
  <2>3. j + 1 \in BadAnswers <=> ~ch[j + 1]
    BY <1>1, <2>1, Zenon DEF BadAnswers
  <2>4. Tail(ch)[j] = ch[j + 1]
    BY <1>1
  <2> QED
    BY <2>1, <2>2, <2>3, <2>4, Zenon
<1>5. /\ 1 \in BadAnswers => Cardinality(BadAnswers') = Cardinality(BadAnswers) - 1
      /\ 1 \notin BadAnswers => Cardinality(BadAnswers') = Cardinality(BadAnswers)
      /\ Cardinality(BadAnswers') \in Nat
  <2> DEFINE D == BadAnswers
             E == BadAnswers'
             n == Len(ch)
             i == 1
  <2>1. n \in Nat /\ i \in 1..n /\ D \in SUBSET (1..n) /\ E \in SUBSET (1..(n - 1))
    BY <1>1, <1>3, Counted
  <2>2. \A j \in 1..(n - 1) : j \in E <=> (IF j < i THEN j ELSE j + 1) \in D
    BY <1>4
  <2> HIDE DEF D, E, n, i
  <2>3. /\ Cardinality(E) \in Nat
        /\ i \in D => Cardinality(E) = Cardinality(D) - 1
        /\ i \notin D => Cardinality(E) = Cardinality(D)
    BY ONLY <2>1, <2>2, Shifted
  <2> QED
    BY <2>3 DEF D, E, i
<1>6. 1 \in BadAnswers <=> ~Head(ch)
  BY <1>1, <1>2, Zenon DEF BadAnswers
<1> QED
  BY <1>5, <1>6, Zenon

\* An answer arrives.
LEMMA BadAppend ==
  ASSUME IInv, NEW b \in BOOLEAN, ch' = Append(ch, b)
  PROVE  /\ Cardinality(BadAnswers') \in Nat
         /\ Cardinality(BadAnswers') <= Cardinality(BadAnswers) + 1
         /\ b => Cardinality(BadAnswers') = Cardinality(BadAnswers)
<1> DEFINE n == Len(ch) + 1
<1>1. /\ DOMAIN ch' = 1..n /\ DOMAIN ch = 1..Len(ch) /\ ch'[n] = b
      /\ \A j \in 1..Len(ch) : ch'[j] = ch[j]
      /\ n \notin 1..Len(ch) /\ 1..n = 1..Len(ch) \cup {n}
  BY Numbers
<1> HIDE DEF n
<1>2. CASE b
  <2>1. BadAnswers' = BadAnswers
    BY <1>1, <1>2, Zenon DEF BadAnswers
  <2> QED
    BY <1>2, <2>1, Counted
<1>3. CASE ~b
  <2>1. BadAnswers' = BadAnswers \cup {n}
    BY <1>1, <1>3, Zenon DEF BadAnswers
  <2>2. n \notin BadAnswers
    BY <1>1, Counted
  <2>3. Cardinality(BadAnswers') = Cardinality(BadAnswers) + 1
    BY <2>1, <2>2, Counted, FS_AddElement
  <2> QED
    BY <1>3, <2>3, Counted
<1> QED
  BY <1>2, <1>3, Zenon

\* A request is answered.
LEMMA DoomedRemoved ==
  ASSUME IInv, NEW i \in 1..Len(asked), asked' = RemoveAt(asked, i), cancelled' = cancelled
  PROVE  /\ Cardinality(Doomed') \in Nat
         /\ i \in Doomed => Cardinality(Doomed') = Cardinality(Doomed) - 1
         /\ i \notin Doomed => Cardinality(Doomed') = Cardinality(Doomed)
<1>1. /\ asked' \in Seq(Records) /\ Len(asked') = Len(asked) - 1 /\ Len(asked) \in Nat
      /\ \A j \in 1..(Len(asked) - 1) : asked'[j] = IF j < i THEN asked[j] ELSE asked[j + 1]
  BY Numbers, Removal
<1>2. DOMAIN asked' = 1..(Len(asked) - 1) /\ DOMAIN asked = 1..Len(asked)
  BY <1>1, Numbers
<1>3. Doomed' \in SUBSET (1..(Len(asked) - 1))
  BY <1>2 DEF Doomed
<1>4. ASSUME NEW j \in 1..(Len(asked) - 1)
      PROVE  j \in Doomed' <=> (IF j < i THEN j ELSE j + 1) \in Doomed
  <2>1. j \in 1..Len(asked) /\ j + 1 \in 1..Len(asked)
    BY <1>1
  <2> QED
    BY <1>1, <1>2, <2>1 DEF Doomed
<1> DEFINE D == Doomed
           E == Doomed'
           n == Len(asked)
<1>5. n \in Nat /\ i \in 1..n /\ D \in SUBSET (1..n) /\ E \in SUBSET (1..(n - 1))
  BY <1>1, <1>3, Counted
<1>6. \A j \in 1..(n - 1) : j \in E <=> (IF j < i THEN j ELSE j + 1) \in D
  BY <1>4
<1> HIDE DEF D, E, n
<1>7. /\ Cardinality(E) \in Nat
      /\ i \in D => Cardinality(E) = Cardinality(D) - 1
      /\ i \notin D => Cardinality(E) = Cardinality(D)
  BY <1>5, <1>6, Shifted
<1> QED
  BY <1>7 DEF D, E

\* Arithmetic: what a step does to the failures that are due and to the doomed
\* requests, from what it does to their parts.
LEMMA DueFacts ==
  ASSUME IInv, Cardinality(BadAnswers') \in Nat
  PROVE  /\ Due \in Nat /\ Due' \in Nat
         /\ Cardinality(BadAnswers') <= Cardinality(BadAnswers) /\ ~OutOfTime' => Due' <= Due
         /\ Cardinality(BadAnswers') <= Cardinality(BadAnswers) /\ ~OutOfTime' /\ OutOfTime
              => Due' < Due
         /\ Cardinality(BadAnswers') < Cardinality(BadAnswers) /\ ~OutOfTime' => Due' < Due
         /\ Cardinality(BadAnswers') <= Cardinality(BadAnswers) + 1 /\ (OutOfTime' <=> OutOfTime)
              => Due' <= Due + 1
         /\ Cardinality(BadAnswers') = Cardinality(BadAnswers) /\ (OutOfTime' <=> OutOfTime)
              => Due' = Due
<1> DEFINE x == Cardinality(BadAnswers)
           y == Cardinality(BadAnswers')
<1>1. x \in Nat /\ y \in Nat
  BY Counted
<1>2. Due = x + IF OutOfTime THEN 1 ELSE 0
  BY DEF Due
<1>3. Due' = y + IF OutOfTime' THEN 1 ELSE 0
  BY DEF Due
<1> HIDE DEF x, y
<1>4. (OutOfTime /\ Due = x + 1) \/ (~OutOfTime /\ Due = x)
  BY <1>1, <1>2
<1>5. (OutOfTime' /\ Due' = y + 1) \/ (~OutOfTime' /\ Due' = y)
  BY <1>1, <1>3
<1> QED
  BY <1>1, <1>4, <1>5 DEF x, y

\* What the theorem says of a step.
OldTrouble ==
  /\ CheckFails => Due' < Due
  /\ NewTrouble \/ Due' + Cardinality(Doomed') <= Due + Cardinality(Doomed)

\* A tick, and a request that is taken or not.
LEMMA OldTick ==
  ASSUME IInv, Skip \/ Begin \/ SendTimesOut
  PROVE  OldTrouble
<1>1. /\ UNCHANGED <<ch, asked, cancelled, unHealthyRequests>>
      /\ ~OutOfTime'
      /\ CheckFails => OutOfTime
  <2>1. CASE Skip
    BY <2>1, Numbers DEF Skip, nodeVars, OutOfTime, CheckFails
  <2>2. CASE Begin
    BY <2>2, Numbers DEF Begin, nodeVars, OutOfTime, CheckFails
  <2>3. CASE SendTimesOut
    BY <2>3, Numbers DEF SendTimesOut, nodeVars, OutOfTime, CheckFails
  <2> QED
    BY <2>1, <2>2, <2>3
<1>2. BadAnswers' = BadAnswers /\ Doomed' = Doomed
  BY <1>1 DEF BadAnswers, Doomed
<1>3. Cardinality(BadAnswers) \in Nat /\ Cardinality(Doomed) \in Nat
  BY Counted
<1>4. Due \in Nat /\ Due' \in Nat /\ Due' <= Due /\ (OutOfTime => Due' < Due)
  BY <1>1, <1>2, <1>3, DueFacts
<1> QED
  BY <1>1, <1>2, <1>3, <1>4 DEF OldTrouble

\* A new request is neither old nor, unless that is new trouble, on a connection
\* that is being reset.
LEMMA OldSend ==
  ASSUME IInv, NEW n \in Nodes, Send(n)
  PROVE  OldTrouble
<1> DEFINE r == [node |-> n, age |-> 0]
<1>1. /\ UNCHANGED <<ch, cancelled, unHealthyRequests>> /\ asked' = Append(asked, r)
      /\ pc' = "wait" /\ timer' = 0
  BY DEF Send, nodeVars
<1>2. ~OutOfTime' /\ ~CheckFails
  BY <1>1, Numbers DEF OutOfTime, CheckFails
<1>3. BadAnswers' = BadAnswers
  BY <1>1 DEF BadAnswers
<1>4. Cardinality(BadAnswers) \in Nat /\ Cardinality(Doomed) \in Nat
  BY Counted
<1>5. Due \in Nat /\ Due' \in Nat /\ Due' <= Due
  BY <1>2, <1>3, <1>4, DueFacts
<1>6. CASE n \in cancelled
  <2>1. NewTrouble
    BY <1>6 DEF NewTrouble
  <2> QED
    BY <1>2, <2>1 DEF OldTrouble
<1>7. CASE n \notin cancelled
  <2>1. /\ DOMAIN asked' = 1..(Len(asked) + 1) /\ DOMAIN asked = 1..Len(asked)
        /\ \A i \in 1..Len(asked) : asked'[i] = asked[i]
        /\ asked'[Len(asked) + 1] = r
    <3>1. asked \in Seq(Records) /\ r \in Records
      BY Numbers DEF Records
    <3> HIDE DEF r
    <3> QED
      BY <1>1, <3>1
  <2>2. ~(0 > ConnTimeout) /\ r.age = 0 /\ r.node = n
    BY Numbers
  <2> HIDE DEF r
  <2>3. Doomed' \subseteq Doomed
    <3> SUFFICES ASSUME NEW i \in Doomed' PROVE i \in Doomed
      OBVIOUS
    <3>1. i \in 1..(Len(asked) + 1) /\ (asked'[i].age > ConnTimeout \/ asked'[i].node \in cancelled)
      BY <1>1, <2>1 DEF Doomed
    <3>2. i # Len(asked) + 1
      BY <1>7, <2>1, <2>2, <3>1
    <3>3. i \in 1..Len(asked)
      BY <3>1, <3>2, Numbers
    <3> QED
      BY <2>1, <3>1, <3>3 DEF Doomed
  <2>4. IsFiniteSet(Doomed)
    BY Counted
  <2>5. Cardinality(Doomed') <= Cardinality(Doomed) /\ Cardinality(Doomed') \in Nat
    BY <2>3, <2>4, FS_Subset, FS_CardinalityType
  <2> QED
    BY <1>2, <1>4, <1>5, <2>5 DEF OldTrouble
<1> QED
  BY <1>6, <1>7

\* A check ends: badly only by a bad answer, or because it ran out of time.
LEMMA OldJudge ==
  ASSUME IInv, Receive \/ WaitTimesOut
  PROVE  OldTrouble
<1>1. PICK bad :
        /\ pc = "wait" /\ Judge(bad)
        /\ \/ ch # <<>> /\ ch' = Tail(ch) /\ (bad <=> ~Head(ch))
           \/ OutOfTime /\ ch' = ch
  <2>1. CASE Receive
    BY <2>1, Zenon DEF Receive
  <2>2. CASE WaitTimesOut
    BY <2>2 DEF WaitTimesOut, WaitOver, OutOfTime
  <2> QED
    BY <2>1, <2>2
<1>2. /\ asked' = asked /\ unHealthyRequests' = CountAfter(bad)
      /\ pc' = IF CountAfter(bad) > ExitAbove THEN "exit" ELSE "tick"
      /\ ~OutOfTime'
  BY <1>1 DEF Judge, OutOfTime
<1>3. CheckFails => bad
  <2> SUFFICES ASSUME ~bad PROVE ~CheckFails
    OBVIOUS
  <2>1. CountAfter(bad) = 0
    BY DEF CountAfter
  <2> QED
    BY <1>2, <2>1, Numbers DEF CheckFails
<1>4. /\ Cardinality(BadAnswers') \in Nat /\ Cardinality(BadAnswers) \in Nat
      /\ Cardinality(BadAnswers') <= Cardinality(BadAnswers)
      /\ bad => OutOfTime \/ Cardinality(BadAnswers') < Cardinality(BadAnswers)
  <2>0. Cardinality(BadAnswers) \in Nat
    BY Counted
  <2>1. CASE ch # <<>> /\ ch' = Tail(ch) /\ (bad <=> ~Head(ch))
    <3>1. /\ Cardinality(BadAnswers') \in Nat
          /\ bad => Cardinality(BadAnswers') = Cardinality(BadAnswers) - 1
          /\ ~bad => Cardinality(BadAnswers') = Cardinality(BadAnswers)
      BY <2>1, BadTail, Zenon
    <3> QED
      BY <2>0, <3>1
  <2>2. CASE OutOfTime /\ ch' = ch
    <3>1. BadAnswers' = BadAnswers
      BY <2>2 DEF BadAnswers
    <3> QED
      BY <2>0, <2>2, <3>1
  <2> QED
    BY <1>1, <2>1, <2>2
<1>5. Due \in Nat /\ Due' \in Nat /\ Due' <= Due /\ (bad => Due' < Due)
  BY <1>2, <1>4, DueFacts
<1>6. NewTrouble \/ (Cardinality(Doomed') <= Cardinality(Doomed) /\ Cardinality(Doomed') \in Nat)
  <2> SUFFICES ASSUME ~NewTrouble
               PROVE  Cardinality(Doomed') <= Cardinality(Doomed) /\ Cardinality(Doomed') \in Nat
    OBVIOUS
  <2>1. Doomed' \subseteq Doomed
    BY <1>2 DEF Doomed, NewTrouble
  <2>2. IsFiniteSet(Doomed)
    BY Counted
  <2> QED
    BY <2>1, <2>2, FS_Subset, FS_CardinalityType
<1>7. Cardinality(Doomed) \in Nat
  BY Counted
<1> QED
  BY <1>3, <1>5, <1>6, <1>7 DEF OldTrouble

\* An answer: a bad one only to a doomed request.
LEMMA OldAnswer ==
  ASSUME IInv, settled, NEW i \in DOMAIN asked, Reply(i) \/ Expire(i) \/ Drain(i)
  PROVE  OldTrouble
<1>1. /\ i \in 1..Len(asked) /\ asked' = RemoveAt(asked, i) /\ cancelled' = cancelled
      /\ UNCHANGED <<pc, timer, unHealthyRequests>>
  <2>1. i \in 1..Len(asked)
    BY Numbers
  <2> QED
    BY <2>1 DEF Reply, Expire, Drain, nodeVars, checkVars
<1>2. PICK b \in BOOLEAN : ch' = Append(ch, b) /\ (~b => i \in Doomed)
  <2>1. CASE Reply(i)
    <3>1. PICK reply \in Replies : Healthy(reply) /\ ch' = Append(ch, Healthy(reply))
      BY <2>1 DEF Reply
    <3>2. Healthy(reply) = TRUE
      BY <3>1, IsBoolean DEF Healthy
    <3>3. ch' = Append(ch, TRUE)
      BY <3>1, <3>2
    <3> QED
      BY <3>3
  <2>2. CASE Expire(i)
    <3>1. ch' = Append(ch, FALSE) /\ i \in Doomed
      BY <2>2 DEF Expire, Doomed
    <3> QED
      BY <3>1
  <2>3. CASE Drain(i)
    <3>1. asked[i].node \in cancelled
      BY <2>3 DEF Drain, IInv, EndingReset
    <3>2. ch' = Append(ch, FALSE) /\ i \in Doomed
      BY <2>3, <3>1 DEF Drain, Doomed
    <3> QED
      BY <3>2
  <2> QED
    BY <2>1, <2>2, <2>3
<1>3. ~CheckFails /\ (OutOfTime' <=> OutOfTime)
  BY <1>1, Numbers DEF CheckFails, OutOfTime
<1>4. Cardinality(Doomed) \in Nat /\ Cardinality(BadAnswers) \in Nat
  BY Counted
<1>5. /\ Cardinality(Doomed') \in Nat
      /\ i \in Doomed => Cardinality(Doomed') = Cardinality(Doomed) - 1
      /\ i \notin Doomed => Cardinality(Doomed') = Cardinality(Doomed)
  BY <1>1, DoomedRemoved
<1>6. /\ Cardinality(BadAnswers') \in Nat
      /\ Cardinality(BadAnswers') <= Cardinality(BadAnswers) + 1
      /\ b => Cardinality(BadAnswers') = Cardinality(BadAnswers)
  BY <1>2, BadAppend, Zenon
<1>7. Due \in Nat /\ Due' \in Nat /\ Due' <= Due + 1 /\ (b => Due' = Due)
  BY <1>3, <1>6, DueFacts
<1>8. Due' + Cardinality(Doomed') <= Due + Cardinality(Doomed)
  <2>1. CASE i \in Doomed
    BY <1>4, <1>5, <1>7, <2>1
  <2>2. CASE i \notin Doomed
    BY <1>2, <1>4, <1>5, <1>7, <2>2
  <2> QED
    BY <2>1, <2>2
<1> QED
  BY <1>3, <1>8 DEF OldTrouble

\* Time passes only between checks: while one waits it is owed an answer, and
\* has it before time passes.
LEMMA OldPass ==
  ASSUME IInv, settled, Pass
  PROVE  OldTrouble
<1>1. /\ asked = <<>> /\ UNCHANGED <<ch, cancelled, pc, unHealthyRequests>> /\ CheckWaits
      /\ asked' = [i \in DOMAIN asked |-> [asked[i] EXCEPT !.age = @ + 1]]
  BY DEF Pass, nodeVars
<1>2. pc = "tick"
  <2>1. pc = "tick" \/ (pc = "wait" /\ ch = <<>>)
    BY <1>1 DEF CheckWaits
  <2>2. pc = "wait" => Owed >= 1
    BY DEF IInv, FewWhenLong
  <2>3. ch = <<>> => Owed = 0
    BY <1>1 DEF Owed
  <2> QED
    BY <2>1, <2>2, <2>3
<1>3. ~OutOfTime /\ ~OutOfTime' /\ ~CheckFails
  BY <1>1, <1>2, Numbers DEF OutOfTime, CheckFails
<1>4. BadAnswers' = BadAnswers /\ Doomed' = {} /\ Doomed = {}
  BY <1>1 DEF BadAnswers, Doomed
<1>5. Cardinality(BadAnswers) \in Nat /\ Cardinality(Doomed) \in Nat
  BY Counted
<1>6. Due \in Nat /\ Due' = Due
  BY <1>3, <1>4, <1>5, DueFacts
<1> QED
  BY <1>3, <1>4, <1>5, <1>6 DEF OldTrouble

\* The nodes: a connection that is lost has answered all it owed.
LEMMA OldNodes ==
  ASSUME IInv, NEW n \in Nodes, LoopEnds(n) \/ Lose(n) \/ Connect(n)
  PROVE  OldTrouble
<1>1. UNCHANGED <<ch, asked, pc, timer, unHealthyRequests>> /\ cancelled' \subseteq cancelled
  BY DEF LoopEnds, Lose, Connect, checkVars
<1>2. ~CheckFails /\ (OutOfTime' <=> OutOfTime)
  BY <1>1, Numbers DEF CheckFails, OutOfTime
<1>3. BadAnswers' = BadAnswers /\ Doomed' \subseteq Doomed
  BY <1>1 DEF BadAnswers, Doomed
<1>4. Cardinality(BadAnswers) \in Nat /\ Cardinality(Doomed) \in Nat /\ IsFiniteSet(Doomed)
  BY Counted
<1>5. Cardinality(Doomed') <= Cardinality(Doomed) /\ Cardinality(Doomed') \in Nat
  BY <1>3, <1>4, FS_Subset, FS_CardinalityType
<1>6. Due \in Nat /\ Due' = Due
  BY <1>2, <1>3, <1>4, DueFacts
<1> QED
  BY <1>2, <1>4, <1>5, <1>6 DEF OldTrouble

\* Once the trouble is over each failure HealthCheck counts, and its os.Exit, uses up
\* a fault from before, and only a reset of the connections makes new ones.
THEOREM NoTroubleOfItsOwn == Spec => OldTroubleOnly
<1>1. IInv /\ [Next]_vars => [settled => OldTrouble]_vars
  <2> SUFFICES ASSUME IInv, Next, settled PROVE UNCHANGED vars \/ OldTrouble
    BY DEF vars
  <2>1. CASE Check
    BY <2>1, OldTick, OldSend, OldJudge DEF Check
  <2>2. CASE Pass
    BY <2>2, OldPass
  <2>3. CASE Settle \/ Exited
    BY <2>3 DEF Settle, Exited
  <2> QED
    BY <2>1, <2>2, <2>3, OldAnswer, OldNodes DEF Next
<1> QED
  BY <1>1, Invariance, PTL DEF Spec, OldTroubleOnly, OldTrouble
=============================================================================

------------------------- MODULE RespChannelsProofs -------------------------
(***************************************************************************)
(* What is proved of RespChannels for any number of queries of any kind,   *)
(* any number of channels, any capacity of the pool, and any times.        *)
(***************************************************************************)
EXTENDS RespChannels, FiniteSetTheorems, TLAPS

-----------------------------------------------------------------------------
(* The inductive invariant.                                                *)

\* Before the first success of Send nothing has been sent.
QuietBefore == ~open => out = {} /\ \A c \in Chans : buf[c] = <<>>

\* A channel that may be handed out is empty and owed nothing, one that is
\* closed is owed nothing, and one that is being cleaned up is owed the one
\* answer its query gave up on, which comes before the cleanup gives up.
ChanOK(c) ==
  /\ c \in Members(pool) \cup fresh => buf[c] = <<>> /\ OwedOn(c) = {}
  /\ c \in closed => OwedOn(c) = {}
  /\ cleaner[c] # 0 =>
       /\ Len(buf[c]) + Cardinality(OwedOn(c)) = 1
       /\ cleaner[c] >= StepTimeout + CleanupTimeout
  /\ OwedOn(c) # {} => waited[c] <= AnsweredBy

\* What a query's channel is owed, and holds, answers the requests of the step
\* it is in that it has already sent; the counts agree.
Counted(s) == due[s] = Expected(s) + (IF Stuck(s) THEN 1 ELSE 0)

OwedOK(s) == \A q \in OwedOn(ch[s]) : q.query = s /\ q.step = at[s] /\ q.nr > todo[s]

HeldOK(s) == \A i \in 1..Len(buf[ch[s]]) :
               buf[ch[s]][i].of.query = s /\ buf[ch[s]][i].of.step = at[s]

QueryOK(s) ==
  /\ Active(s) => Counted(s) /\ (Stuck(s) => due[s] = 1) /\ OwedOK(s) /\ HeldOK(s)
  /\ ~Active(s) => todo[s] = 0

IInv ==
  /\ TypeOK
  /\ OneOwner
  /\ IsFiniteSet(out)
  /\ QuietBefore
  /\ \A c \in Chans : ChanOK(c)
  /\ \A s \in Queries : QueryOK(s)

-----------------------------------------------------------------------------
(* Lemmas about the pool.                                                  *)

Distinct(p) == \A i, j \in 1..Len(p) : p[i] = p[j] => i = j

\* Put adds one channel to the members of the pool ...
LEMMA AppendMembers ==
  ASSUME NEW S, NEW p \in Seq(S), NEW c \in S, Distinct(p), c \notin Members(p)
  PROVE  /\ Members(Append(p, c)) = Members(p) \cup {c}
         /\ Distinct(Append(p, c))
<1> DEFINE q == Append(p, c)
<1>1. /\ q \in Seq(S) /\ Len(q) = Len(p) + 1 /\ Len(p) \in Nat
      /\ \A i \in 1..Len(p) : q[i] = p[i]
      /\ q[Len(p) + 1] = c
  OBVIOUS
<1>2. DOMAIN q = 1..Len(p) + 1 /\ DOMAIN p = 1..Len(p)
  BY <1>1
<1> HIDE DEF q
<1>3. Members(q) = Members(p) \cup {c}
  BY <1>1, <1>2 DEF Members
<1>4. \A i \in 1..Len(p) : p[i] # c
  BY <1>2 DEF Members
<1>5. Distinct(q)
  <2> SUFFICES ASSUME NEW i \in 1..Len(q), NEW j \in 1..Len(q), q[i] = q[j] PROVE i = j
    BY DEF Distinct
  <2>1. i \in 1..Len(p) \/ i = Len(p) + 1
    BY <1>1
  <2>2. j \in 1..Len(p) \/ j = Len(p) + 1
    BY <1>1
  <2> QED
    BY <1>1, <1>4, <2>1, <2>2 DEF Distinct
<1> QED
  BY <1>3, <1>5 DEF q

\* ... and Get takes one away.
LEMMA TailMembers ==
  ASSUME NEW S, NEW p \in Seq(S), p # <<>>, Distinct(p)
  PROVE  /\ Head(p) \in Members(p) /\ Head(p) \in S
         /\ Members(Tail(p)) = Members(p) \ {Head(p)}
         /\ Distinct(Tail(p))
         /\ Tail(p) \in Seq(S) /\ Len(Tail(p)) < Len(p)
<1> DEFINE q == Tail(p)
<1>1. /\ q \in Seq(S) /\ Len(q) = Len(p) - 1 /\ Len(p) \in Nat \ {0}
      /\ \A i \in 1..Len(q) : q[i] = p[i + 1]
      /\ Head(p) = p[1]
  OBVIOUS
<1>2. DOMAIN q = 1..Len(p) - 1 /\ DOMAIN p = 1..Len(p)
  BY <1>1
<1> HIDE DEF q
<1>3. Members(q) = Members(p) \ {p[1]}
  <2>1. ASSUME NEW x \in Members(q) PROVE x \in Members(p) /\ x # p[1]
    <3>1. PICK i \in 1..Len(q) : x = p[i + 1]
      BY <1>1, <1>2, <2>1 DEF Members
    <3>2. i + 1 \in 1..Len(p) /\ 1 \in 1..Len(p) /\ i + 1 # 1
      BY <1>1, <3>1
    <3> QED
      BY <1>2, <3>1, <3>2 DEF Members, Distinct
  <2>2. ASSUME NEW x \in Members(p), x # p[1] PROVE x \in Members(q)
    <3>1. PICK i \in 1..Len(p) : x = p[i]
      BY <1>2, <2>2 DEF Members
    <3>2. i - 1 \in 1..Len(q) /\ q[i - 1] = p[i]
      <4>1. i # 1 /\ i - 1 \in 1..Len(q)
        BY <1>1, <2>2, <3>1
      <4>2. q[i - 1] = p[(i - 1) + 1]
        BY <1>1, <4>1
      <4> QED
        BY <3>1, <4>1, <4>2
    <3> QED
      BY <1>1, <1>2, <3>1, <3>2 DEF Members
  <2> QED
    BY <2>1, <2>2
<1>4. Distinct(q)
  <2> SUFFICES ASSUME NEW i \in 1..Len(q), NEW j \in 1..Len(q), q[i] = q[j] PROVE i = j
    BY DEF Distinct
  <2>1. i + 1 \in 1..Len(p) /\ j + 1 \in 1..Len(p) /\ p[i + 1] = p[j + 1]
    BY <1>1
  <2>2. i + 1 = j + 1
    BY <2>1 DEF Distinct
  <2> QED
    BY <2>2
<1>5. p[1] \in Members(p) /\ p[1] \in S
  BY <1>1, <1>2 DEF Members
<1> QED
  BY <1>1, <1>3, <1>4, <1>5 DEF q

\* Reading takes the first answer of a channel.
LEMMA HeadAndTail ==
  ASSUME NEW S, NEW p \in Seq(S), p # <<>>
  PROVE  /\ Head(p) \in S /\ Head(p) = p[1] /\ Tail(p) \in Seq(S)
         /\ Len(p) \in Nat \ {0} /\ Len(Tail(p)) = Len(p) - 1
         /\ \A i \in 1..Len(Tail(p)) : Tail(p)[i] = p[i + 1]
  OBVIOUS

-----------------------------------------------------------------------------
(* What a step leaves alone keeps the invariant.                           *)

LEMMA ChanUndisturbed ==
  ASSUME NEW c \in Chans, ChanOK(c),
         buf'[c] = buf[c], waited'[c] = waited[c], cleaner'[c] = cleaner[c],
         OwedOn(c)' = OwedOn(c),
         c \in Members(pool') \cup fresh' => c \in Members(pool) \cup fresh,
         c \in closed' => c \in closed
  PROVE  ChanOK(c)'
  BY DEF ChanOK, Members

LEMMA QueryUndisturbed ==
  ASSUME NEW t \in Queries, QueryOK(t),
         at'[t] = at[t], ch'[t] = ch[t], todo'[t] = todo[t], due'[t] = due[t],
         verdict'[t] = verdict[t],
         Active(t) => buf'[ch[t]] = buf[ch[t]] /\ {q \in out' : q.ch = ch[t]} = OwedOn(ch[t])
  PROVE  QueryOK(t)'
<1>1. Active(t)' <=> Active(t)
  BY DEF Active
<1>2. Active(t) => OwedOn(ch[t])' = OwedOn(ch[t])
  BY DEF OwedOn
<1> QED
  BY <1>1, <1>2 DEF QueryOK, Counted, OwedOK, HeldOK, Expected, Stuck

\* The channel of one query is not that of another.
LEMMA OwnChannel ==
  ASSUME TypeOK, OneOwner, NEW s \in Queries, NEW t \in Queries, s # t, Active(s), Active(t)
  PROVE  ch[t] # ch[s]
  BY DEF OneOwner

\* What is known of the query that takes a step.
LEMMA ActiveFacts ==
  ASSUME IInv, NEW s \in Queries, Active(s)
  PROVE  /\ ch[s] \in Chans /\ ch[s] # NoChan
         /\ todo[s] \in Nat /\ due[s] \in Nat
         /\ IsFiniteSet(OwedOn(ch[s])) /\ Cardinality(OwedOn(ch[s])) \in Nat
         /\ buf[ch[s]] \in Seq([of : Requests, result : Results])
         /\ Len(buf[ch[s]]) \in Nat
         /\ due[s] = Len(buf[ch[s]]) + Cardinality(OwedOn(ch[s])) + todo[s]
                       + (IF Stuck(s) THEN 1 ELSE 0)
         /\ Stuck(s) => due[s] = 1
         /\ OwedOK(s) /\ HeldOK(s)
         /\ ch[s] \notin Members(pool) \cup fresh \cup closed /\ cleaner[ch[s]] = 0
<1>1. ch[s] \in Chans /\ ch[s] # NoChan
  BY DEF IInv, TypeOK
<1>2. IsFiniteSet(OwedOn(ch[s]))
  BY FS_Subset DEF IInv, OwedOn
<1>3. Cardinality(OwedOn(ch[s])) \in Nat
  BY <1>2, FS_CardinalityType
<1>4. /\ Counted(s) /\ (Stuck(s) => due[s] = 1) /\ OwedOK(s) /\ HeldOK(s)
      /\ ch[s] \notin Members(pool) \cup fresh \cup closed /\ cleaner[ch[s]] = 0
  BY DEF IInv, QueryOK, OneOwner
<1>5. /\ buf[ch[s]] \in Seq([of : Requests, result : Results])
      /\ todo[s] \in Nat /\ due[s] \in Nat
  BY <1>1 DEF IInv, TypeOK
<1>6. Len(buf[ch[s]]) \in Nat
  BY <1>5
<1> QED
  BY <1>1, <1>2, <1>3, <1>4, <1>5, <1>6 DEF Counted, Expected

-----------------------------------------------------------------------------
(* A query ends and lets its channel go.                                   *)

\* Put of a channel that nobody else has, that is empty and owed nothing.
LEMMA Released ==
  ASSUME IInv, NEW s \in Queries, Active(s), End(s),
         buf[ch[s]] = <<>>, OwedOn(ch[s]) = {}
  PROVE  IInv'
<1> DEFINE c == ch[s]
<1>0. UNCHANGED <<verdict, fresh, open, buf, out, waited, cleaner, crashed>>
  BY DEF End, connVars, timeVars
<1>1. /\ at' = [at EXCEPT ![s] = "over"] /\ ch' = [ch EXCEPT ![s] = NoChan]
      /\ todo' = [todo EXCEPT ![s] = 0] /\ due' = [due EXCEPT ![s] = 0]
  BY DEF End, Leave
<1>2. /\ c \in Chans /\ c \notin Members(pool) \cup fresh \cup closed /\ cleaner[c] = 0
  BY ActiveFacts
<1>3. pool \in Seq(Chans) /\ Distinct(pool) /\ Len(pool) <= PoolCap /\ Len(pool) \in Nat
  BY DEF IInv, TypeOK, OneOwner, Distinct
<1>4. /\ pool' \in Seq(Chans) /\ Len(pool') <= PoolCap /\ Distinct(pool')
      /\ closed' \subseteq closed \cup {c} /\ closed \subseteq closed'
      /\ Members(pool') \subseteq Members(pool) \cup {c}
      /\ Members(pool') \cap closed' = {}
  <2>0. Members(pool) \cap closed = {}
    BY DEF IInv, OneOwner
  <2>1. CASE UNCHANGED <<pool, closed>>
    BY <1>3, <2>0, <2>1
  <2>2. CASE pool' = Append(pool, c) /\ UNCHANGED closed /\ Len(pool) < PoolCap
    <3>1. Members(pool') = Members(pool) \cup {c} /\ Distinct(pool')
      BY <1>2, <1>3, <2>2, AppendMembers
    <3>2. pool' \in Seq(Chans) /\ Len(pool') = Len(pool) + 1
      BY <1>2, <1>3, <2>2
    <3>3. Len(pool') <= PoolCap
      BY <1>3, <2>2, <3>2, ChannelsAssumption
    <3> QED
      BY <1>2, <2>0, <2>2, <3>1, <3>2, <3>3
  <2>3. CASE closed' = closed \cup {c} /\ UNCHANGED pool
    BY <1>2, <1>3, <2>0, <2>3
  <2> QED
    BY <2>1, <2>2, <2>3 DEF End, Put
<1>5. ASSUME NEW t \in Queries
      PROVE  (Active(t)' => Active(t) /\ t # s) /\ (t # s => (Active(t)' <=> Active(t)))
  BY <1>1 DEF IInv, TypeOK, Active, Steps
<1> HIDE DEF c
<1>6. TypeOK'
  <2>1. at' \in [Queries -> Steps \cup {"idle", "over"}] /\ ch' \in [Queries -> Chans \cup {NoChan}]
    BY <1>1 DEF IInv, TypeOK
  <2>2. \A t \in Queries : Active(t)' <=> ch'[t] # NoChan
    BY <1>1, <1>5 DEF IInv, TypeOK
  <2>3. closed' \subseteq Chans
    BY <1>2, <1>4 DEF IInv, TypeOK
  <2>4. todo' \in [Queries -> Nat] /\ due' \in [Queries -> Nat]
    BY <1>1 DEF IInv, TypeOK
  <2> QED
    BY <1>0, <1>4, <2>1, <2>2, <2>3, <2>4 DEF IInv, TypeOK
<1>7. OneOwner'
  <2>1. Members(pool') \cap fresh' = {} /\ closed' \cap fresh' = {}
    BY <1>0, <1>2, <1>4 DEF IInv, OneOwner
  <2>2. ASSUME NEW t \in Queries, Active(t)'
        PROVE  ch'[t] = ch[t] /\ Active(t) /\ ch[t] # c /\ t # s
    BY <1>1, <1>5, <2>2, OwnChannel DEF IInv, TypeOK, c
  <2>3. \A t \in Queries : Active(t)' =>
          ch'[t] \notin Members(pool') \cup fresh' \cup closed' /\ cleaner'[ch'[t]] = 0
    BY <1>0, <1>4, <2>2 DEF IInv, OneOwner
  <2>4. \A t, u \in Queries : Active(t)' /\ Active(u)' /\ ch'[t] = ch'[u] => t = u
    BY <2>2 DEF IInv, OneOwner
  <2>5. \A d \in Chans : cleaner'[d] # 0 => d \notin Members(pool') \cup fresh' \cup closed'
    BY <1>0, <1>2, <1>4 DEF IInv, OneOwner
  <2> QED
    BY <1>4, <2>1, <2>3, <2>4, <2>5 DEF OneOwner, Distinct, Members
<1>8. ASSUME NEW d \in Chans PROVE ChanOK(d)'
  <2>1. ChanOK(d) /\ OwedOn(d)' = OwedOn(d)
    BY <1>0 DEF IInv, OwedOn
  <2>2. CASE d = c
    BY <1>0, <1>2, <2>1, <2>2 DEF ChanOK, c
  <2>3. CASE d # c
    BY <1>0, <1>4, <2>1, <2>3, ChanUndisturbed
  <2> QED
    BY <2>2, <2>3
<1>9. ASSUME NEW t \in Queries PROVE QueryOK(t)'
  <2>1. CASE t = s
    BY <1>1, <1>5, <2>1 DEF IInv, TypeOK, QueryOK
  <2>2. CASE t # s
    BY <1>0, <1>1, <2>2, QueryUndisturbed DEF IInv, TypeOK, OwedOn
  <2> QED
    BY <2>1, <2>2
<1> QED
  BY <1>0, <1>6, <1>7, <1>8, <1>9 DEF IInv, QuietBefore

LEMMA EndStep ==
  ASSUME IInv, NEW s \in Queries, AskRefused(s) \/ Return(s)
  PROVE  IInv'
<1>1. CASE AskRefused(s)
  <2>1. Active(s)
    BY <1>1 DEF AskRefused, IInv, TypeOK, QueryOK
  <2>2. out = {} /\ ch[s] \in Chans /\ \A c \in Chans : buf[c] = <<>>
    BY <1>1, <2>1, ActiveFacts DEF AskRefused, IInv, QuietBefore
  <2>3. buf[ch[s]] = <<>> /\ OwedOn(ch[s]) = {}
    BY <2>2 DEF OwedOn
  <2> QED
    BY <1>1, <2>1, <2>3, Released DEF AskRefused
<1>2. CASE Return(s)
  <2>1. Active(s) /\ todo[s] = 0 /\ due[s] = 0 /\ End(s)
    BY <1>2 DEF Return, Complete
  <2>2. Len(buf[ch[s]]) = 0 /\ Cardinality(OwedOn(ch[s])) = 0
    BY <2>1, ActiveFacts
  <2>3. buf[ch[s]] = <<>> /\ OwedOn(ch[s]) = {}
    BY <2>1, <2>2, ActiveFacts, FS_EmptySet
  <2> QED
    BY <2>1, <2>3, Released
<1> QED
  BY <1>1, <1>2

-----------------------------------------------------------------------------
(* A query goes on with its channel.                                       *)

LEMMA OwnersUndisturbed ==
  ASSUME OneOwner, UNCHANGED <<pool, fresh, closed, ch, cleaner>>,
         \A t \in Queries : Active(t)' => Active(t)
  PROVE  OneOwner'
  BY DEF OneOwner, Members

LEMMA AskStep ==
  ASSUME IInv, NEW s \in Queries, Ask(s)
  PROVE  IInv'
<1> DEFINE c == ch[s]
           q == [query |-> s, step |-> at[s], nr |-> todo[s], ch |-> c]
<1>1. Active(s) /\ todo[s] > 0 /\ open
  BY DEF Ask, IInv, TypeOK, QueryOK
<1>2. /\ UNCHANGED <<at, ch, due, verdict, pool, fresh, closed, open, buf, cleaner, crashed>>
      /\ out' = out \cup {q}
      /\ todo' = [todo EXCEPT ![s] = @ - 1]
      /\ waited' = [waited EXCEPT ![c] = 0]
  BY DEF Ask, poolVars
<1>3. /\ c \in Chans /\ todo[s] \in Nat /\ at[s] \in Steps
      /\ c \notin Members(pool) \cup fresh \cup closed /\ cleaner[c] = 0
  BY <1>1, ActiveFacts DEF Active
<1>4. q \in Requests /\ q.ch = c /\ q.query = s /\ q.step = at[s] /\ q.nr = todo[s]
  BY <1>3 DEF Requests
<1>5. q \notin OwedOn(c)
  BY <1>1, <1>3, <1>4, ActiveFacts DEF OwedOK
<1> HIDE DEF q, c
<1>6. OwedOn(c)' = OwedOn(c) \cup {q} /\ \A d \in Chans \ {c} : OwedOn(d)' = OwedOn(d)
  BY <1>2, <1>4 DEF OwedOn, c
<1>7. \A t \in Queries : Active(t)' <=> Active(t)
  BY <1>2 DEF Active
<1>8. TypeOK'
  <2>1. todo' \in [Queries -> Nat] /\ waited' \in [Chans -> Nat] /\ out' \subseteq Requests
    BY <1>1, <1>2, <1>3, <1>4 DEF IInv, TypeOK
  <2> QED
    BY <1>2, <1>7, <2>1 DEF IInv, TypeOK
<1>9. OneOwner'
  BY <1>2, <1>7, OwnersUndisturbed DEF IInv
<1>10. ASSUME NEW d \in Chans PROVE ChanOK(d)'
  <2>1. CASE d = c
    <3>1. waited'[c] = 0 /\ cleaner'[c] = 0 /\ Members(pool)' = Members(pool)
      BY <1>2, <1>3 DEF IInv, TypeOK, Members
    <3> QED
      BY <1>2, <1>3, <2>1, <3>1, ChannelsAssumption DEF ChanOK
  <2>2. CASE d # c
    <3>1. ChanOK(d) /\ OwedOn(d)' = OwedOn(d) /\ waited'[d] = waited[d]
      BY <1>2, <1>3, <1>6, <2>2 DEF IInv, TypeOK
    <3> QED
      BY <1>2, <3>1, ChanUndisturbed
  <2> QED
    BY <2>1, <2>2
<1>11. QueryOK(s)'
  <2>1. Cardinality(OwedOn(c) \cup {q}) = Cardinality(OwedOn(c)) + 1
    BY <1>1, <1>5, ActiveFacts, FS_AddElement DEF c
  <2>2. todo'[s] = todo[s] - 1
    BY <1>2 DEF IInv, TypeOK
  <2>3. OwedOn(ch[s])' = OwedOn(c) \cup {q}
    BY <1>2, <1>6 DEF c, OwedOn
  <2>4. Counted(s)'
    <3>1. due[s] = Len(buf[c]) + Cardinality(OwedOn(c)) + todo[s] + (IF Stuck(s) THEN 1 ELSE 0)
          /\ Len(buf[c]) \in Nat /\ Cardinality(OwedOn(c)) \in Nat
      BY <1>1, ActiveFacts DEF c
    <3>2. Len(buf[c]) + (Cardinality(OwedOn(c)) + 1) + (todo[s] - 1)
            = Len(buf[c]) + Cardinality(OwedOn(c)) + todo[s]
      BY <1>3, <3>1
    <3>3. Expected(s)' = Len(buf[c]) + Cardinality(OwedOn(c)) + todo[s]
      BY <1>2, <2>1, <2>2, <2>3, <3>2 DEF Expected, c
    <3>4. Stuck(s)' <=> Stuck(s)
      BY <1>2 DEF Stuck
    <3> QED
      BY <1>2, <3>1, <3>3, <3>4 DEF Counted
  <2>5. OwedOK(s)'
    <3>1. OwedOK(s)
      BY <1>1, ActiveFacts
    <3>2. \A r \in OwedOn(c) : r.nr \in Nat /\ r.query = s /\ r.step = at[s] /\ r.nr > todo[s]
      BY <3>1 DEF OwedOK, OwedOn, IInv, TypeOK, Requests, c
    <3>3. \A r \in OwedOn(c) \cup {q} : r.query = s /\ r.step = at[s] /\ r.nr > todo[s] - 1
      BY <1>3, <1>4, <3>2
    <3> QED
      BY <1>2, <2>2, <2>3, <3>3 DEF OwedOK
  <2>6. HeldOK(s)' /\ (Stuck(s)' => due'[s] = 1)
    BY <1>1, <1>2, ActiveFacts DEF HeldOK, Stuck
  <2> QED
    BY <1>1, <1>7, <2>4, <2>5, <2>6 DEF QueryOK
<1>12. ASSUME NEW t \in Queries, t # s PROVE QueryOK(t)'
  <2>1. Active(t) => ch[t] # c /\ ch[t] \in Chans
    BY <1>1, <1>12, OwnChannel, ActiveFacts DEF IInv, c
  <2>2. Active(t) => {r \in out' : r.ch = ch[t]} = OwedOn(ch[t])
    BY <1>2, <1>4, <2>1 DEF OwedOn
  <2>3. todo'[t] = todo[t]
    BY <1>2, <1>12 DEF IInv, TypeOK
  <2> QED
    BY <1>2, <2>2, <2>3, QueryUndisturbed DEF IInv
<1>13. IsFiniteSet(out')
  BY <1>2, FS_AddElement DEF IInv
<1> QED
  BY <1>1, <1>2, <1>8, <1>9, <1>10, <1>11, <1>12, <1>13 DEF IInv, QuietBefore

\* Advance: the step is complete, so nothing is left of it.
LEMMA AdvanceStep ==
  ASSUME IInv, NEW s \in Queries, Advance(s)
  PROVE  IInv'
<1>1. /\ Active(s) /\ todo[s] = 0 /\ due[s] = 0
      /\ verdict[s] = "ok" \/ at[s] = "head"
      /\ UNCHANGED <<ch, verdict, pool, fresh, closed, open, buf, out, waited, cleaner, crashed>>
  BY DEF Advance, Complete, poolVars, connVars, timeVars
<1>2. PICK n \in RequestsOf(NextStep(s)) :
        /\ at' = [at EXCEPT ![s] = NextStep(s)]
        /\ todo' = [todo EXCEPT ![s] = n]
        /\ due' = [due EXCEPT ![s] = n]
  BY DEF Advance, Enter
<1>3. NextStep(s) \in Steps /\ (at[s] = "head" => NextStep(s) = "header")
  BY <1>1 DEF Advance, NextStep, Active, Steps
<1>4. n \in Nat
  BY <1>3, ChannelsAssumption DEF RequestsOf
<1>5. ch[s] \in Chans /\ buf[ch[s]] = <<>> /\ OwedOn(ch[s]) = {} /\ Len(buf[ch[s]]) = 0
      /\ Cardinality(OwedOn(ch[s])) = 0
  <2>1. Len(buf[ch[s]]) = 0 /\ Cardinality(OwedOn(ch[s])) = 0
    BY <1>1, ActiveFacts
  <2> QED
    BY <1>1, <2>1, ActiveFacts, FS_EmptySet
<1>6. /\ at'[s] = NextStep(s) /\ todo'[s] = n /\ due'[s] = n
      /\ \A t \in Queries \ {s} : at'[t] = at[t] /\ todo'[t] = todo[t] /\ due'[t] = due[t]
  BY <1>2 DEF IInv, TypeOK
<1>7. \A t \in Queries : Active(t)' <=> Active(t)
  BY <1>1, <1>3, <1>6 DEF Active
<1>8. TypeOK'
  <2>1. /\ at' \in [Queries -> Steps \cup {"idle", "over"}]
        /\ todo' \in [Queries -> Nat] /\ due' \in [Queries -> Nat]
    BY <1>2, <1>3, <1>4 DEF IInv, TypeOK
  <2> QED
    BY <1>1, <1>7, <2>1 DEF IInv, TypeOK
<1>9. OneOwner'
  BY <1>1, <1>7, OwnersUndisturbed DEF IInv
<1>10. ASSUME NEW d \in Chans PROVE ChanOK(d)'
  BY <1>1, ChanUndisturbed DEF IInv, OwedOn
<1>11. QueryOK(s)'
  <2>1. ~Stuck(s)'
    BY <1>1, <1>3, <1>6 DEF Stuck
  <2>2. OwedOn(ch[s])' = {} /\ ch'[s] = ch[s] /\ buf'[ch[s]] = <<>>
    BY <1>1, <1>5 DEF OwedOn
  <2>3. Expected(s)' = n
    BY <1>4, <1>5, <1>6, <2>2, FS_EmptySet DEF Expected
  <2>4. OwedOK(s)' /\ HeldOK(s)'
    BY <2>2 DEF OwedOK, HeldOK
  <2> QED
    BY <1>1, <1>4, <1>6, <1>7, <2>1, <2>3, <2>4 DEF QueryOK, Counted
<1>12. ASSUME NEW t \in Queries, t # s PROVE QueryOK(t)'
  BY <1>1, <1>6, <1>12, QueryUndisturbed DEF IInv, OwedOn
<1> QED
  BY <1>1, <1>8, <1>9, <1>10, <1>11, <1>12 DEF IInv, QuietBefore

\* What a step that reads from a query's channel starts from.
LEMMA ReadFacts ==
  ASSUME IInv, NEW s \in Queries, Reads(s)
  PROVE  /\ Active(s) /\ todo[s] = 0 /\ due[s] > 0
         /\ Head(buf[ch[s]]) \in [of : Requests, result : Results]
         /\ Tail(buf[ch[s]]) \in Seq([of : Requests, result : Results])
         /\ Len(Tail(buf[ch[s]])) = Len(buf[ch[s]]) - 1 /\ Len(Tail(buf[ch[s]])) \in Nat
         /\ buf' = [buf EXCEPT ![ch[s]] = Tail(buf[ch[s]])]
         /\ ~Stuck(s)
         /\ due[s] = Len(Tail(buf[ch[s]])) + 1 + Cardinality(OwedOn(ch[s]))
         /\ \A i \in 1..Len(Tail(buf[ch[s]])) : Tail(buf[ch[s]])[i] = buf[ch[s]][i + 1]
<1> DEFINE b == buf[ch[s]]
<1>1. /\ Active(s) /\ todo[s] = 0 /\ due[s] > 0 /\ b # <<>>
      /\ buf' = [buf EXCEPT ![ch[s]] = Tail(b)]
  BY DEF Reads
<1>2. b \in Seq([of : Requests, result : Results])
  BY <1>1, ActiveFacts
<1>3. /\ due[s] = Len(b) + Cardinality(OwedOn(ch[s])) + (IF Stuck(s) THEN 1 ELSE 0)
      /\ Stuck(s) => due[s] = 1
      /\ Cardinality(OwedOn(ch[s])) \in Nat
  BY <1>1, ActiveFacts
<1>4. /\ Head(b) \in [of : Requests, result : Results]
      /\ Tail(b) \in Seq([of : Requests, result : Results])
      /\ Len(Tail(b)) = Len(b) - 1 /\ Len(b) \in Nat \ {0}
      /\ \A i \in 1..Len(Tail(b)) : Tail(b)[i] = b[i + 1]
  BY <1>1, <1>2, HeadAndTail
<1>5. ~Stuck(s)
  BY <1>3, <1>4
<1> QED
  BY <1>1, <1>3, <1>4, <1>5

LEMMA ReadStep ==
  ASSUME IInv, NEW s \in Queries, Read(s)
  PROVE  IInv'
<1> DEFINE c == ch[s]
           b == Tail(buf[c])
           a == Head(buf[c])
<1>1. /\ Reads(s)
      /\ due' = [due EXCEPT ![s] = DueAfter(s, a)]
      /\ verdict' = [verdict EXCEPT ![s] = VerdictAfter(s, a)]
      /\ UNCHANGED <<at, ch, todo, pool, fresh, closed, open, out, waited, cleaner, crashed>>
  BY DEF Read, poolVars, timeVars
<1>2. /\ Active(s) /\ todo[s] = 0 /\ due[s] > 0 /\ ~Stuck(s)
      /\ a \in [of : Requests, result : Results] /\ b \in Seq([of : Requests, result : Results])
      /\ buf' = [buf EXCEPT ![c] = b]
      /\ due[s] = Len(b) + 1 + Cardinality(OwedOn(c))
      /\ Len(b) \in Nat
  BY <1>1, ReadFacts
<1>3. /\ c \in Chans /\ due[s] \in Nat /\ Cardinality(OwedOn(c)) \in Nat
      /\ c \notin Members(pool) \cup fresh \cup closed /\ cleaner[c] = 0
      /\ OwedOK(s) /\ HeldOK(s)
  BY <1>2, ActiveFacts
<1>4. /\ due'[s] = DueAfter(s, a) /\ verdict'[s] = VerdictAfter(s, a)
      /\ \A t \in Queries \ {s} : due'[t] = due[t] /\ verdict'[t] = verdict[t]
      /\ buf'[c] = b /\ \A d \in Chans \ {c} : buf'[d] = buf[d]
  BY <1>1, <1>2, <1>3 DEF IInv, TypeOK
<1>5. \A t \in Queries : Active(t)' <=> Active(t)
  BY <1>1 DEF Active
<1>6. DueAfter(s, a) \in Nat /\ VerdictAfter(s, a) \in Results
  BY <1>2, <1>3 DEF DueAfter, VerdictAfter, Results
<1>7. TypeOK'
  <2>1. /\ due' \in [Queries -> Nat] /\ verdict' \in [Queries -> Results]
        /\ buf' \in [Chans -> Seq([of : Requests, result : Results])]
    BY <1>1, <1>2, <1>6 DEF IInv, TypeOK
  <2> QED
    BY <1>1, <1>5, <2>1 DEF IInv, TypeOK
<1>8. OneOwner'
  BY <1>1, <1>5, OwnersUndisturbed DEF IInv
<1>9. ASSUME NEW d \in Chans PROVE ChanOK(d)'
  <2>1. ChanOK(d) /\ OwedOn(d)' = OwedOn(d) /\ Members(pool)' = Members(pool)
    BY <1>1 DEF IInv, OwedOn, Members
  <2>2. CASE d = c
    BY <1>1, <1>3, <2>1, <2>2 DEF ChanOK
  <2>3. CASE d # c
    BY <1>1, <1>4, <2>1, <2>3, ChanUndisturbed
  <2> QED
    BY <2>2, <2>3
<1>10. QueryOK(s)'
  <2>1. OwedOn(ch[s])' = OwedOn(c)
    BY <1>1 DEF OwedOn
  <2>2. Expected(s)' = Len(b) + Cardinality(OwedOn(c))
    <3>1. /\ Expected(s)' = Len(b) + Cardinality(OwedOn(c)) + todo[s]
      BY <1>1, <1>4, <2>1 DEF Expected
    <3> QED
      BY <1>2, <1>3, <3>1
  <2>3. ASSUME OneMore(s, a) PROVE Counted(s)' /\ due'[s] = 1
    <3>1. due'[s] = 1 /\ verdict'[s] = "error" /\ at'[s] = "others" /\ due[s] = 1
      BY <1>1, <1>4, <2>3 DEF OneMore, DueAfter, VerdictAfter
    <3>2. Len(b) + Cardinality(OwedOn(c)) = 0
      BY <1>2, <1>3, <3>1
    <3> QED
      BY <2>2, <3>1, <3>2 DEF Counted, Stuck
  <2>4. ASSUME ~OneMore(s, a) PROVE Counted(s)' /\ ~Stuck(s)'
    <3>1. due'[s] = Len(b) + Cardinality(OwedOn(c))
      BY <1>2, <1>3, <1>4, <2>4 DEF DueAfter
    <3>2. ~Stuck(s)'
      BY <1>1, <1>4, <2>4 DEF Stuck, VerdictAfter
    <3>3. Len(b) + Cardinality(OwedOn(c)) + 0 = Len(b) + Cardinality(OwedOn(c))
      BY <1>2, <1>3
    <3> QED
      BY <2>2, <3>1, <3>2, <3>3 DEF Counted
  <2>5. Counted(s)' /\ (Stuck(s)' => due'[s] = 1)
    BY <2>3, <2>4
  <2>6. OwedOK(s)'
    BY <1>1, <1>3, <2>1 DEF OwedOK
  <2>7. HeldOK(s)'
    <3>1. \A i \in 1..Len(b) : b[i] = buf[c][i + 1] /\ i + 1 \in 1..Len(buf[c])
      <4>1. Len(buf[c]) \in Nat /\ Len(b) = Len(buf[c]) - 1
        BY <1>1, <1>2, ReadFacts, ActiveFacts
      <4> QED
        BY <1>1, <4>1, ReadFacts
    <3> QED
      BY <1>1, <1>3, <1>4, <3>1 DEF HeldOK
  <2> QED
    BY <1>2, <1>5, <2>5, <2>6, <2>7 DEF QueryOK
<1>11. ASSUME NEW t \in Queries, t # s PROVE QueryOK(t)'
  <2>1. Active(t) => ch[t] # c /\ ch[t] \in Chans
    BY <1>2, <1>11, OwnChannel, ActiveFacts DEF IInv
  <2> QED
    BY <1>1, <1>4, <1>11, <2>1, QueryUndisturbed DEF IInv, OwedOn
<1>12. QuietBefore'
  <2>1. ~open => FALSE
    BY <1>1, <1>3 DEF IInv, QuietBefore, Reads
  <2> QED
    BY <1>1, <2>1 DEF QuietBefore
<1> QED
  BY <1>1, <1>7, <1>8, <1>9, <1>10, <1>11, <1>12 DEF IInv

-----------------------------------------------------------------------------
(* A query is given up while its channel is still owed something.          *)

\* It has no channel any more, and the other queries keep theirs.
LEMMA LeaveFacts ==
  ASSUME IInv, NEW s \in Queries, Active(s), Leave(s), UNCHANGED <<verdict, out>>,
         \A d \in Chans \ {ch[s]} : buf'[d] = buf[d]
  PROVE  /\ at' \in [Queries -> Steps \cup {"idle", "over"}]
         /\ ch' \in [Queries -> Chans \cup {NoChan}]
         /\ todo' \in [Queries -> Nat] /\ due' \in [Queries -> Nat]
         /\ \A t \in Queries : Active(t)' <=> ch'[t] # NoChan
         /\ \A t \in Queries :
              Active(t)' => t # s /\ Active(t) /\ ch'[t] = ch[t] /\ ch[t] # ch[s]
         /\ \A t \in Queries : QueryOK(t)'
<1>1. /\ at' = [at EXCEPT ![s] = "over"] /\ ch' = [ch EXCEPT ![s] = NoChan]
      /\ todo' = [todo EXCEPT ![s] = 0] /\ due' = [due EXCEPT ![s] = 0]
  BY DEF Leave
<1>2. /\ at'[s] = "over" /\ ch'[s] = NoChan /\ todo'[s] = 0 /\ ~Active(s)'
      /\ \A t \in Queries \ {s} : /\ at'[t] = at[t] /\ ch'[t] = ch[t] /\ todo'[t] = todo[t]
                                  /\ due'[t] = due[t] /\ (Active(t)' <=> Active(t))
  BY <1>1 DEF IInv, TypeOK, Active, Steps
<1>3. ASSUME NEW t \in Queries, t # s, Active(t) PROVE ch[t] # ch[s] /\ ch[t] \in Chans
  BY <1>3, OwnChannel, ActiveFacts DEF IInv
<1>4. ASSUME NEW t \in Queries PROVE QueryOK(t)'
  <2>1. CASE t = s
    BY <1>2, <2>1 DEF QueryOK
  <2>2. CASE t # s
    BY <1>2, <1>3, <2>2, QueryUndisturbed DEF IInv, OwedOn
  <2> QED
    BY <2>1, <2>2
<1>5. /\ at' \in [Queries -> Steps \cup {"idle", "over"}]
      /\ ch' \in [Queries -> Chans \cup {NoChan}]
      /\ todo' \in [Queries -> Nat] /\ due' \in [Queries -> Nat]
  BY <1>1 DEF IInv, TypeOK
<1>6. \A t \in Queries : Active(t)' <=> ch'[t] # NoChan
  BY <1>2 DEF IInv, TypeOK
<1> QED
  BY <1>2, <1>3, <1>4, <1>5, <1>6

\* Queries may lose their channels without disturbing the other owners.
LEMMA OwnersKept ==
  ASSUME OneOwner, UNCHANGED <<pool, fresh, closed>>,
         \A t \in Queries : Active(t)' => Active(t) /\ ch'[t] = ch[t] /\ cleaner'[ch[t]] = 0,
         \A d \in Chans : cleaner'[d] # 0 => d \notin Members(pool) \cup fresh \cup closed
  PROVE  OneOwner'
<1>1. Members(pool)' = Members(pool)
  BY DEF Members
<1>2. \A t \in Queries : Active(t)' =>
        ch'[t] \notin Members(pool) \cup fresh \cup closed /\ cleaner'[ch'[t]] = 0
  BY DEF OneOwner
<1>3. \A t, u \in Queries : Active(t)' /\ Active(u)' /\ ch'[t] = ch'[u] => t = u
  BY DEF OneOwner
<1>4. \A i, j \in 1..Len(pool) : pool[i] = pool[j] => i = j
  BY DEF OneOwner
<1>5. Members(pool) \cap (closed \cup fresh) = {} /\ closed \cap fresh = {}
  BY DEF OneOwner
<1> QED
  BY <1>1, <1>2, <1>3, <1>4, <1>5 DEF OneOwner

\* The channel of an account query that panicked is nobody's.
LEMMA ReadPanicsStep ==
  ASSUME IInv, NEW s \in Queries, ReadPanics(s)
  PROVE  IInv'
<1> DEFINE c == ch[s]
<1>1. /\ Reads(s) /\ Leave(s) /\ crashed' \in BOOLEAN
      /\ UNCHANGED <<verdict, pool, fresh, closed, open, out, waited, cleaner>>
  BY DEF ReadPanics, poolVars, timeVars
<1>2. /\ Active(s) /\ buf' = [buf EXCEPT ![c] = Tail(buf[c])]
      /\ Tail(buf[c]) \in Seq([of : Requests, result : Results])
  BY <1>1, ReadFacts
<1>3. c \in Chans /\ c \notin Members(pool) \cup fresh \cup closed /\ cleaner[c] = 0
  BY <1>2, ActiveFacts
<1>4. /\ \A d \in Chans \ {c} : buf'[d] = buf[d]
      /\ buf' \in [Chans -> Seq([of : Requests, result : Results])]
  BY <1>2, <1>3 DEF IInv, TypeOK
<1>5. /\ at' \in [Queries -> Steps \cup {"idle", "over"}]
      /\ ch' \in [Queries -> Chans \cup {NoChan}]
      /\ todo' \in [Queries -> Nat] /\ due' \in [Queries -> Nat]
      /\ \A t \in Queries : Active(t)' <=> ch'[t] # NoChan
      /\ \A t \in Queries : Active(t)' => Active(t) /\ ch'[t] = ch[t]
      /\ \A t \in Queries : QueryOK(t)'
  BY <1>1, <1>2, <1>4, LeaveFacts
<1>6. TypeOK'
  BY <1>1, <1>4, <1>5 DEF IInv, TypeOK
<1>7. OneOwner'
  <2>1. \A t \in Queries : Active(t)' => cleaner'[ch[t]] = 0
    BY <1>1, <1>5 DEF IInv, OneOwner
  <2>2. \A d \in Chans : cleaner'[d] # 0 => d \notin Members(pool) \cup fresh \cup closed
    BY <1>1 DEF IInv, OneOwner
  <2> QED
    BY <1>1, <1>5, <2>1, <2>2, OwnersKept DEF IInv
<1>8. ASSUME NEW d \in Chans PROVE ChanOK(d)'
  <2>1. ChanOK(d) /\ OwedOn(d)' = OwedOn(d) /\ Members(pool)' = Members(pool)
    BY <1>1 DEF IInv, OwedOn, Members
  <2>2. CASE d = c
    BY <1>1, <1>3, <2>1, <2>2 DEF ChanOK
  <2>3. CASE d # c
    BY <1>1, <1>4, <2>1, <2>3, ChanUndisturbed
  <2> QED
    BY <2>2, <2>3
<1>9. QuietBefore'
  <2>1. open
    BY <1>1, <1>3 DEF IInv, QuietBefore, Reads
  <2> QED
    BY <1>1, <2>1 DEF QuietBefore
<1> QED
  BY <1>1, <1>5, <1>6, <1>7, <1>8, <1>9 DEF IInv

\* The channel of a query that timed out is its cleanup's, and is owed the one
\* answer that did not come.
LEMMA TimesOutStep ==
  ASSUME IInv, NEW s \in Queries, TimesOut(s)
  PROVE  IInv'
<1> DEFINE c == ch[s]
<1>1. /\ at[s] \in Timed /\ todo[s] = 0 /\ due[s] = 1 /\ waited[c] >= StepTimeout /\ Leave(s)
      /\ cleaner' = [cleaner EXCEPT ![c] = waited[c] + CleanupTimeout]
      /\ UNCHANGED <<verdict, pool, fresh, closed, open, buf, out, waited, crashed>>
  BY DEF TimesOut, AfterTimeout, connVars
<1>2. Active(s) /\ ~Stuck(s)
  BY <1>1 DEF Timed, Active, Steps, Stuck
<1>3. /\ c \in Chans /\ c \notin Members(pool) \cup fresh \cup closed
      /\ Len(buf[c]) + Cardinality(OwedOn(c)) = 1
  <2>1. due[s] = Len(buf[c]) + Cardinality(OwedOn(c)) + todo[s] + 0
        /\ Len(buf[c]) \in Nat /\ Cardinality(OwedOn(c)) \in Nat
    BY <1>2, ActiveFacts
  <2> QED
    BY <1>1, <1>2, <2>1, ActiveFacts
<1>4. /\ at' \in [Queries -> Steps \cup {"idle", "over"}]
      /\ ch' \in [Queries -> Chans \cup {NoChan}]
      /\ todo' \in [Queries -> Nat] /\ due' \in [Queries -> Nat]
      /\ \A t \in Queries : Active(t)' <=> ch'[t] # NoChan
      /\ \A t \in Queries : Active(t)' => Active(t) /\ ch'[t] = ch[t] /\ ch[t] # c
      /\ \A t \in Queries : QueryOK(t)'
  BY <1>1, <1>2, LeaveFacts
<1>5. /\ waited[c] + CleanupTimeout \in Nat
      /\ waited[c] + CleanupTimeout >= StepTimeout + CleanupTimeout
  <2>1. waited[c] \in Nat
    BY <1>3 DEF IInv, TypeOK
  <2> QED
    BY <1>1, <2>1, ChannelsAssumption
<1>6. /\ cleaner' \in [Chans -> Nat] /\ cleaner'[c] = waited[c] + CleanupTimeout
      /\ \A d \in Chans \ {c} : cleaner'[d] = cleaner[d]
  BY <1>1, <1>3, <1>5 DEF IInv, TypeOK
<1>7. TypeOK'
  BY <1>1, <1>4, <1>6 DEF IInv, TypeOK
<1>8. OneOwner'
  <2>1. \A t \in Queries : Active(t)' => ch'[t] \in Chans \ {c} /\ cleaner'[ch'[t]] = 0
    BY <1>4, <1>6, ActiveFacts
  <2>2. \A d \in Chans : cleaner'[d] # 0 => d \notin Members(pool) \cup fresh \cup closed
    BY <1>3, <1>6 DEF IInv, OneOwner
  <2> QED
    BY <1>1, <1>4, <2>1, <2>2, OwnersKept DEF IInv
<1>9. ASSUME NEW d \in Chans PROVE ChanOK(d)'
  <2>1. ChanOK(d) /\ OwedOn(d)' = OwedOn(d) /\ Members(pool)' = Members(pool)
    BY <1>1 DEF IInv, OwedOn, Members
  <2>2. CASE d = c
    BY <1>1, <1>3, <1>5, <1>6, <2>1, <2>2 DEF ChanOK
  <2>3. CASE d # c
    BY <1>1, <1>6, <2>1, <2>3, ChanUndisturbed
  <2> QED
    BY <2>2, <2>3
<1> QED
  BY <1>1, <1>4, <1>7, <1>8, <1>9 DEF IInv, QuietBefore

-----------------------------------------------------------------------------
(* A query gets a channel.                                                 *)

\* Where it comes from; draining it finds nothing.
LEMMA Taken ==
  ASSUME IInv, NEW s \in Queries, Get(s)
  PROVE  \E c \in Chans :
           /\ c \in Members(pool) \cup fresh
           /\ ch' = [ch EXCEPT ![s] = c]
           /\ buf' = buf
           /\ pool' \in Seq(Chans) /\ Len(pool') <= PoolCap /\ Distinct(pool')
           /\ Members(pool') \subseteq Members(pool) /\ fresh' \subseteq fresh
           /\ c \notin Members(pool') \cup fresh'
<1>1. pool \in Seq(Chans) /\ Distinct(pool) /\ Len(pool) <= PoolCap /\ Members(pool) \cap fresh = {}
  BY DEF IInv, TypeOK, OneOwner, Distinct
<1>2. CASE /\ pool # <<>>
           /\ ch' = [ch EXCEPT ![s] = Head(pool)]
           /\ pool' = Tail(pool)
           /\ buf' = [buf EXCEPT ![Head(pool)] = <<>>]
           /\ UNCHANGED fresh
  <2>1. /\ Head(pool) \in Members(pool) /\ Head(pool) \in Chans
        /\ Members(pool') = Members(pool) \ {Head(pool)} /\ Distinct(pool')
        /\ pool' \in Seq(Chans) /\ Len(pool') < Len(pool)
    BY <1>1, <1>2, TailMembers
  <2>2. Len(pool') <= PoolCap
    <3>1. Len(pool') \in Nat /\ Len(pool) \in Nat
      BY <1>1, <2>1
    <3> QED
      BY <1>1, <2>1, <3>1, ChannelsAssumption
  <2>3. buf[Head(pool)] = <<>>
    BY <2>1 DEF IInv, ChanOK
  <2>4. buf' = buf
    BY <1>2, <2>1, <2>3 DEF IInv, TypeOK
  <2> QED
    BY <1>1, <1>2, <2>1, <2>2, <2>4
<1>3. CASE /\ pool = <<>>
           /\ \E c \in fresh : ch' = [ch EXCEPT ![s] = c] /\ fresh' = fresh \ {c}
           /\ UNCHANGED <<pool, buf>>
  <2>1. PICK c \in fresh : ch' = [ch EXCEPT ![s] = c] /\ fresh' = fresh \ {c}
    BY <1>3
  <2>2. c \in Chans
    BY <2>1 DEF IInv, TypeOK
  <2> QED
    BY <1>1, <1>3, <2>1, <2>2
<1> QED
  BY <1>2, <1>3 DEF Get

LEMMA GetStep ==
  ASSUME IInv, NEW s \in Queries, Get(s)
  PROVE  IInv'
<1>1. /\ at[s] = "idle" /\ ~Active(s)
      /\ UNCHANGED <<verdict, closed, open, out, waited, cleaner, crashed>>
  BY DEF Get, Active, Steps, timeVars
<1>2. PICK step \in FirstSteps(s) : Enter(s, step)
  BY DEF Get
<1>3. step \in {"head", "hashes"} /\ step \in Steps
  BY DEF FirstSteps, Steps
<1>4. PICK n \in RequestsOf(step) :
        /\ at' = [at EXCEPT ![s] = step]
        /\ todo' = [todo EXCEPT ![s] = n]
        /\ due' = [due EXCEPT ![s] = n]
  BY <1>2 DEF Enter
<1>5. n \in Nat
  BY <1>3, ChannelsAssumption DEF RequestsOf
<1>6. PICK c \in Chans :
        /\ c \in Members(pool) \cup fresh
        /\ ch' = [ch EXCEPT ![s] = c]
        /\ buf' = buf
        /\ pool' \in Seq(Chans) /\ Len(pool') <= PoolCap /\ Distinct(pool')
        /\ Members(pool') \subseteq Members(pool) /\ fresh' \subseteq fresh
        /\ c \notin Members(pool') \cup fresh'
  BY Taken
<1>7. buf[c] = <<>> /\ OwedOn(c) = {} /\ c \notin closed /\ cleaner[c] = 0
  BY <1>6 DEF IInv, ChanOK, OneOwner
<1>8. /\ at'[s] = step /\ todo'[s] = n /\ due'[s] = n /\ ch'[s] = c /\ Active(s)'
      /\ \A t \in Queries \ {s} : /\ at'[t] = at[t] /\ todo'[t] = todo[t] /\ due'[t] = due[t]
                                  /\ ch'[t] = ch[t] /\ (Active(t)' <=> Active(t))
  BY <1>4, <1>5, <1>3, <1>6 DEF IInv, TypeOK, Active
<1>9. ASSUME NEW t \in Queries, Active(t) PROVE ch[t] # c
  BY <1>6, <1>9, ActiveFacts
<1>10. TypeOK'
  <2>1. /\ at' \in [Queries -> Steps \cup {"idle", "over"}]
        /\ todo' \in [Queries -> Nat] /\ due' \in [Queries -> Nat]
        /\ ch' \in [Queries -> Chans \cup {NoChan}]
    BY <1>4, <1>5, <1>3, <1>6 DEF IInv, TypeOK
  <2>2. \A t \in Queries : Active(t)' <=> ch'[t] # NoChan
    BY <1>8, ChannelsAssumption DEF IInv, TypeOK
  <2> QED
    BY <1>1, <1>6, <2>1, <2>2 DEF IInv, TypeOK
<1>11. OneOwner'
  <2>1. \A t \in Queries : Active(t)' =>
          ch'[t] \notin Members(pool') \cup fresh' \cup closed' /\ cleaner'[ch'[t]] = 0
    <3>1. ASSUME NEW t \in Queries, t # s, Active(t)
          PROVE  ch[t] \notin Members(pool') \cup fresh' \cup closed /\ cleaner[ch[t]] = 0
      BY <1>6, <3>1, ActiveFacts
    <3> QED
      BY <1>1, <1>6, <1>7, <1>8, <3>1
  <2>2. \A t, u \in Queries : Active(t)' /\ Active(u)' /\ ch'[t] = ch'[u] => t = u
    BY <1>8, <1>9 DEF IInv, OneOwner
  <2>3. \A d \in Chans : cleaner'[d] # 0 => d \notin Members(pool') \cup fresh' \cup closed'
    BY <1>1, <1>6 DEF IInv, OneOwner
  <2>4. Members(pool') \cap (closed' \cup fresh') = {} /\ closed' \cap fresh' = {}
    BY <1>1, <1>6 DEF IInv, OneOwner
  <2>5. \A i, j \in 1..Len(pool') : pool'[i] = pool'[j] => i = j
    BY <1>6 DEF Distinct
  <2> QED
    BY <2>1, <2>2, <2>3, <2>4, <2>5 DEF OneOwner, Members
<1>12. ASSUME NEW d \in Chans PROVE ChanOK(d)'
  BY <1>1, <1>6, ChanUndisturbed DEF IInv, OwedOn
<1>13. QueryOK(s)'
  <2>1. ~Stuck(s)'
    BY <1>3, <1>8 DEF Stuck
  <2>2. OwedOn(ch[s])' = {} /\ buf'[c] = <<>>
    BY <1>1, <1>6, <1>7, <1>8 DEF OwedOn
  <2>3. Expected(s)' = n
    BY <1>5, <1>8, <2>2, FS_EmptySet DEF Expected
  <2>4. OwedOK(s)' /\ HeldOK(s)'
    BY <1>8, <2>2 DEF OwedOK, HeldOK
  <2> QED
    BY <1>5, <1>8, <2>1, <2>3, <2>4 DEF QueryOK, Counted
<1>14. ASSUME NEW t \in Queries, t # s PROVE QueryOK(t)'
  BY <1>1, <1>6, <1>8, <1>14, QueryUndisturbed DEF IInv, OwedOn
<1> QED
  BY <1>1, <1>6, <1>10, <1>11, <1>12, <1>13, <1>14 DEF IInv, QuietBefore

-----------------------------------------------------------------------------
(* The cleanup, the connection layer and time.                             *)

\* When its cleanup closes a channel the late answer has been read, or would
\* have come long ago.
LEMMA CleanerStepOK ==
  ASSUME IInv, NEW c \in Chans, CleanerStep(c)
  PROVE  IInv'
<1>1. /\ cleaner[c] # 0 /\ closed' = closed \cup {c} /\ cleaner' = [cleaner EXCEPT ![c] = 0]
      /\ UNCHANGED <<at, ch, todo, due, verdict, pool, fresh, open, out, waited, crashed>>
  BY DEF CleanerStep, CleanerReads, CleanerGivesUp, Close, queryVars
<1>2. c \notin Members(pool) \cup fresh \cup closed
  BY <1>1 DEF IInv, OneOwner
<1>3. /\ buf[c] \in Seq([of : Requests, result : Results])
      /\ Len(buf[c]) \in Nat /\ Cardinality(OwedOn(c)) \in Nat /\ IsFiniteSet(OwedOn(c))
  <2>1. buf[c] \in Seq([of : Requests, result : Results])
    BY DEF IInv, TypeOK
  <2>2. IsFiniteSet(OwedOn(c))
    BY FS_Subset DEF IInv, OwedOn
  <2> QED
    BY <2>1, <2>2, FS_CardinalityType
<1>4. /\ OwedOn(c) = {}
      /\ buf' \in [Chans -> Seq([of : Requests, result : Results])]
      /\ \A d \in Chans \ {c} : buf'[d] = buf[d]
      /\ ~open => buf' = buf
  <2>1. /\ Len(buf[c]) + Cardinality(OwedOn(c)) = 1
        /\ cleaner[c] >= StepTimeout + CleanupTimeout
        /\ OwedOn(c) # {} => waited[c] <= AnsweredBy
    BY <1>1 DEF IInv, ChanOK
  <2>2. CASE CleanerReads(c)
    <3>1. buf[c] # <<>> /\ buf' = [buf EXCEPT ![c] = Tail(buf[c])] /\ open
      BY <2>2 DEF CleanerReads, IInv, QuietBefore
    <3>2. Len(buf[c]) # 0
      BY <1>3, <3>1
    <3>3. Cardinality(OwedOn(c)) = 0
      BY <1>3, <2>1, <3>2
    <3>4. Tail(buf[c]) \in Seq([of : Requests, result : Results])
      BY <1>3, <3>1, HeadAndTail
    <3>5. OwedOn(c) = {}
      BY <1>3, <3>3, FS_EmptySet
    <3> QED
      BY <3>1, <3>4, <3>5 DEF IInv, TypeOK
  <2>3. CASE CleanerGivesUp(c)
    <3>1. waited[c] >= cleaner[c] /\ buf' = buf
      BY <2>3 DEF CleanerGivesUp
    <3>2. waited[c] \in Nat /\ cleaner[c] \in Nat
      BY DEF IInv, TypeOK
    <3>3. ~(waited[c] <= AnsweredBy)
      BY <2>1, <3>1, <3>2, ChannelsAssumption, TimeoutsAssumption
    <3> QED
      BY <2>1, <3>1, <3>3 DEF IInv, TypeOK
  <2> QED
    BY <2>2, <2>3 DEF CleanerStep
<1>5. \A t \in Queries : (Active(t)' <=> Active(t)) /\ (Active(t) => ch[t] \in Chans \ {c})
  BY <1>1, ActiveFacts DEF Active
<1>6. /\ cleaner' \in [Chans -> Nat] /\ cleaner'[c] = 0
      /\ \A d \in Chans \ {c} : cleaner'[d] = cleaner[d]
  BY <1>1 DEF IInv, TypeOK
<1>7. TypeOK'
  BY <1>1, <1>4, <1>5, <1>6 DEF IInv, TypeOK
<1>8. OneOwner'
  <2>1. Members(pool)' = Members(pool)
    BY <1>1 DEF Members
  <2>2. \A t \in Queries : Active(t)' =>
          ch'[t] \notin Members(pool) \cup fresh \cup closed' /\ cleaner'[ch'[t]] = 0
    BY <1>1, <1>5, <1>6, ActiveFacts
  <2>3. \A t, u \in Queries : Active(t)' /\ Active(u)' /\ ch'[t] = ch'[u] => t = u
    BY <1>1, <1>5 DEF IInv, OneOwner
  <2>4. \A d \in Chans : cleaner'[d] # 0 => d \notin Members(pool) \cup fresh \cup closed'
    BY <1>1, <1>6 DEF IInv, OneOwner
  <2>5. Members(pool) \cap (closed' \cup fresh) = {} /\ closed' \cap fresh = {}
    BY <1>1, <1>2 DEF IInv, OneOwner
  <2>6. \A i, j \in 1..Len(pool) : pool[i] = pool[j] => i = j
    BY DEF IInv, OneOwner
  <2> QED
    BY <1>1, <2>1, <2>2, <2>3, <2>4, <2>5, <2>6 DEF OneOwner
<1>9. ASSUME NEW d \in Chans PROVE ChanOK(d)'
  <2>1. ChanOK(d) /\ OwedOn(d)' = OwedOn(d) /\ Members(pool)' = Members(pool)
    BY <1>1 DEF IInv, OwedOn, Members
  <2>2. CASE d = c
    BY <1>1, <1>2, <1>4, <1>6, <2>1, <2>2 DEF ChanOK
  <2>3. CASE d # c
    BY <1>1, <1>4, <1>6, <2>1, <2>3, ChanUndisturbed
  <2> QED
    BY <2>2, <2>3
<1>10. ASSUME NEW t \in Queries PROVE QueryOK(t)'
  BY <1>1, <1>4, <1>5, QueryUndisturbed DEF IInv, OwedOn
<1> QED
  BY <1>1, <1>4, <1>7, <1>8, <1>9, <1>10 DEF IInv, QuietBefore

\* An answer moves from what a channel is owed to what it holds.
LEMMA AnswerStep ==
  ASSUME IInv, NEW q \in out, Answer(q)
  PROVE  IInv'
<1> DEFINE c == q.ch
<1>1. c \in Chans /\ q \in Requests /\ q \in OwedOn(c)
  BY DEF IInv, TypeOK, Requests, OwedOn
<1>2. c \notin closed
  BY <1>1 DEF IInv, ChanOK
<1>3. PICK result \in Results :
        /\ buf' = [buf EXCEPT ![c] = Append(@, [of |-> q, result |-> result])]
        /\ out' = out \ {q}
        /\ UNCHANGED <<at, ch, todo, due, verdict, pool, fresh, closed, open, waited, cleaner,
                       crashed>>
  BY <1>2 DEF Answer, queryVars, poolVars, timeVars
<1> DEFINE a == [of |-> q, result |-> result]
           b == buf[c]
           b2 == Append(b, a)
<1>4. a \in [of : Requests, result : Results] /\ b \in Seq([of : Requests, result : Results])
  BY <1>1 DEF IInv, TypeOK
<1>5. /\ b2 \in Seq([of : Requests, result : Results])
      /\ Len(b) \in Nat /\ Len(b2) = Len(b) + 1
      /\ \A i \in 1..Len(b2) : (i \in 1..Len(b) /\ b2[i] = b[i]) \/ b2[i] = a
  BY <1>4
<1>6. /\ IsFiniteSet(OwedOn(c)) /\ Cardinality(OwedOn(c)) \in Nat
      /\ IsFiniteSet(OwedOn(c) \ {q})
      /\ Cardinality(OwedOn(c) \ {q}) = Cardinality(OwedOn(c)) - 1
      /\ IsFiniteSet(out')
  <2>1. IsFiniteSet(OwedOn(c))
    BY FS_Subset DEF IInv, OwedOn
  <2>2. IsFiniteSet(out)
    BY DEF IInv
  <2> QED
    BY <1>1, <1>3, <2>1, <2>2, FS_CardinalityType, FS_RemoveElement
<1>7. /\ buf' \in [Chans -> Seq([of : Requests, result : Results])]
      /\ buf'[c] = b2 /\ \A d \in Chans \ {c} : buf'[d] = buf[d]
  BY <1>1, <1>3, <1>5 DEF IInv, TypeOK
<1>8. /\ {r \in out' : r.ch = c} = OwedOn(c) \ {q}
      /\ \A d \in Chans \ {c} : {r \in out' : r.ch = d} = OwedOn(d)
  BY <1>3 DEF OwedOn
<1> HIDE DEF a, b, b2, c
<1>9. Len(b2) + Cardinality(OwedOn(c) \ {q}) = Len(b) + Cardinality(OwedOn(c))
  BY <1>5, <1>6
<1>10. \A t \in Queries : Active(t)' <=> Active(t)
  BY <1>3 DEF Active
<1>11. TypeOK'
  <2>1. out' \subseteq Requests
    BY <1>3 DEF IInv, TypeOK
  <2> QED
    BY <1>3, <1>7, <1>10, <2>1 DEF IInv, TypeOK
<1>12. OneOwner'
  BY <1>3, <1>10, OwnersUndisturbed DEF IInv
<1>13. ASSUME NEW d \in Chans PROVE ChanOK(d)'
  <2>1. ChanOK(d) /\ Members(pool)' = Members(pool)
    BY <1>3 DEF IInv, Members
  <2>2. CASE d = c
    <3>1. OwedOn(c) # {} /\ c \notin Members(pool) \cup fresh \cup closed
      BY <1>1, <2>1, <2>2 DEF ChanOK
    <3>2. OwedOn(d)' = OwedOn(c) \ {q}
      BY <1>8, <2>2 DEF OwedOn
    <3> QED
      BY <1>3, <1>7, <1>9, <2>1, <2>2, <3>1, <3>2 DEF ChanOK, b
  <2>3. CASE d # c
    <3>1. OwedOn(d)' = OwedOn(d)
      BY <1>8, <2>3 DEF OwedOn
    <3> QED
      BY <1>3, <1>7, <2>1, <2>3, <3>1, ChanUndisturbed
  <2> QED
    BY <2>2, <2>3
<1>14. ASSUME NEW t \in Queries PROVE QueryOK(t)'
  <2>1. CASE Active(t) /\ ch[t] = c
    <3>1. /\ Counted(t) /\ (Stuck(t) => due[t] = 1) /\ OwedOK(t) /\ HeldOK(t)
      BY <2>1, ActiveFacts DEF IInv, QueryOK
    <3>2. q.query = t /\ q.step = at[t]
      BY <1>1, <2>1, <3>1 DEF OwedOK
    <3>3. OwedOn(ch[t])' = OwedOn(c) \ {q} /\ ch'[t] = c /\ todo'[t] = todo[t]
      BY <1>3, <1>8, <2>1 DEF OwedOn
    <3>4. Expected(t)' = Expected(t)
      BY <1>7, <1>9, <2>1, <3>3 DEF Expected, b
    <3>5. Counted(t)' /\ (Stuck(t)' => due'[t] = 1)
      BY <1>3, <3>1, <3>4 DEF Counted, Stuck
    <3>6. OwedOK(t)'
      BY <1>3, <2>1, <3>1, <3>3 DEF OwedOK
    <3>7. HeldOK(t)'
      BY <1>3, <1>5, <1>7, <2>1, <3>1, <3>2, <3>3 DEF HeldOK, a, b
    <3> QED
      BY <1>10, <2>1, <3>5, <3>6, <3>7 DEF QueryOK
  <2>2. CASE ~(Active(t) /\ ch[t] = c)
    <3>1. Active(t) => ch[t] \in Chans \ {c}
      BY <2>2, ActiveFacts
    <3> QED
      BY <1>3, <1>7, <1>8, <3>1, QueryUndisturbed DEF IInv
  <2> QED
    BY <2>1, <2>2
<1>15. QuietBefore'
  BY <1>3 DEF IInv, QuietBefore
<1> QED
  BY <1>6, <1>11, <1>12, <1>13, <1>14, <1>15 DEF IInv

\* Time passes on a channel only while the answer it is owed is not overdue.
LEMMA TickStep ==
  ASSUME IInv, NEW c \in Chans, Tick(c)
  PROVE  IInv'
<1>1. /\ OwedOn(c) # {} => waited[c] < AnsweredBy
      /\ waited' = [waited EXCEPT ![c] = @ + 1]
      /\ UNCHANGED <<at, ch, todo, due, verdict, pool, fresh, closed, open, buf, out, cleaner,
                     crashed>>
  BY DEF Tick, queryVars, poolVars, connVars
<1>2. /\ waited' \in [Chans -> Nat] /\ waited[c] \in Nat /\ waited'[c] = waited[c] + 1
      /\ \A d \in Chans \ {c} : waited'[d] = waited[d]
  BY <1>1 DEF IInv, TypeOK
<1>3. \A t \in Queries : Active(t)' <=> Active(t)
  BY <1>1 DEF Active
<1>4. TypeOK'
  BY <1>1, <1>2, <1>3 DEF IInv, TypeOK
<1>5. OneOwner'
  BY <1>1, <1>3, OwnersUndisturbed DEF IInv
<1>6. ASSUME NEW d \in Chans PROVE ChanOK(d)'
  <2>1. ChanOK(d) /\ OwedOn(d)' = OwedOn(d) /\ Members(pool)' = Members(pool)
    BY <1>1 DEF IInv, OwedOn, Members
  <2>2. CASE d = c
    <3>1. OwedOn(c) # {} => waited'[c] <= AnsweredBy
      BY <1>1, <1>2, ChannelsAssumption
    <3> QED
      BY <1>1, <2>1, <2>2, <3>1 DEF ChanOK
  <2>3. CASE d # c
    BY <1>1, <1>2, <2>1, <2>3, ChanUndisturbed
  <2> QED
    BY <2>2, <2>3
<1>7. ASSUME NEW t \in Queries PROVE QueryOK(t)'
  BY <1>1, QueryUndisturbed DEF IInv, OwedOn
<1> QED
  BY <1>1, <1>4, <1>5, <1>6, <1>7 DEF IInv, QuietBefore

\* Nothing but what Send answers hangs on open; and the program may rest.
LEMMA OpenStep ==
  ASSUME IInv, Open \/ UNCHANGED vars
  PROVE  IInv'
<1>1. /\ open' \in BOOLEAN /\ (~open' => ~open)
      /\ UNCHANGED <<at, ch, todo, due, verdict, pool, fresh, closed, buf, out, waited, cleaner,
                     crashed>>
  BY DEF Open, vars, queryVars, poolVars, connVars, timeVars, IInv, TypeOK
<1>2. \A t \in Queries : Active(t)' <=> Active(t)
  BY <1>1 DEF Active
<1>3. TypeOK'
  BY <1>1, <1>2 DEF IInv, TypeOK
<1>4. OneOwner'
  BY <1>1, <1>2, OwnersUndisturbed DEF IInv
<1>5. ASSUME NEW d \in Chans PROVE ChanOK(d)'
  BY <1>1, ChanUndisturbed DEF IInv, OwedOn
<1>6. ASSUME NEW t \in Queries PROVE QueryOK(t)'
  BY <1>1, QueryUndisturbed DEF IInv, OwedOn
<1> QED
  BY <1>1, <1>3, <1>4, <1>5, <1>6 DEF IInv, QuietBefore

-----------------------------------------------------------------------------
LEMMA InvInit == Init => IInv
<1> SUFFICES ASSUME Init PROVE IInv
  OBVIOUS
<1>1. Members(pool) = {} /\ pool \in Seq(Chans) /\ Len(pool) = 0
  BY DEF Init, Members
<1>2. \A t \in Queries : ~Active(t) /\ ch[t] = NoChan /\ todo[t] = 0
  BY DEF Init, Active, Steps
<1>3. TypeOK
  <2>1. \A s \in Queries : Active(s) <=> ch[s] # NoChan
    BY <1>2
  <2>2. buf \in [Chans -> Seq([of : Requests, result : Results])]
    BY DEF Init
  <2>3. Len(pool) <= PoolCap
    BY <1>1, ChannelsAssumption
  <2>4. /\ at \in [Queries -> Steps \cup {"idle", "over"}]
        /\ ch \in [Queries -> Chans \cup {NoChan}]
        /\ todo \in [Queries -> Nat] /\ due \in [Queries -> Nat]
        /\ verdict \in [Queries -> Results]
        /\ waited \in [Chans -> Nat] /\ cleaner \in [Chans -> Nat]
    BY DEF Init, Results
  <2> QED
    BY <1>1, <2>1, <2>2, <2>3, <2>4 DEF Init, TypeOK
<1>4. OneOwner
  BY <1>1, <1>2 DEF Init, OneOwner
<1>5. ASSUME NEW c \in Chans PROVE ChanOK(c)
  BY DEF Init, ChanOK, OwedOn
<1> QED
  BY <1>2, <1>3, <1>4, <1>5, FS_EmptySet DEF Init, IInv, QuietBefore, QueryOK

LEMMA InvStep == IInv /\ [Next]_vars => IInv'
<1> SUFFICES ASSUME IInv, [Next]_vars PROVE IInv'
  OBVIOUS
<1>1. ASSUME NEW s \in Queries, Get(s) \/ QueryStep(s) PROVE IInv'
  BY <1>1, GetStep, AskStep, EndStep, ReadStep, ReadPanicsStep, AdvanceStep, TimesOutStep
     DEF QueryStep
<1>2. ASSUME NEW c \in Chans, CleanerStep(c) \/ Tick(c) PROVE IInv'
  BY <1>2, CleanerStepOK, TickStep
<1>3. ASSUME NEW q \in out, Answer(q) PROVE IInv'
  BY <1>3, AnswerStep
<1>4. CASE Open \/ UNCHANGED vars
  BY <1>4, OpenStep
<1> QED
  BY <1>1, <1>2, <1>3, <1>4 DEF Next, Step, Finished

\* What holds in every reachable state of the queries, the pool and the cleanups.
THEOREM Invariance == Spec => []IInv
  BY InvInit, InvStep, PTL DEF Spec

-----------------------------------------------------------------------------
(* The theorems.                                                           *)

\* Every variable keeps its type, the pool its capacity, and a query of package
\* indexer has a channel exactly while it is in one of its steps.
THEOREM TypeCorrect == Spec => []TypeOK
<1>1. IInv => TypeOK
  BY DEF IInv
<1> QED
  BY <1>1, Invariance, PTL

\* getBlockPool never has a channel twice, nor one that a query, a cleanup or
\* nobody any more has.
THEOREM ChannelsHaveOneOwner == Spec => []OneOwner
<1>1. IInv => OneOwner
  BY DEF IInv
<1> QED
  BY <1>1, Invariance, PTL

\* The process never sends on a channel that Put or cleanupTimeoutedCh closed.
THEOREM ClosedMeansUnused == Spec => []NoSendOnClosed
<1>1. IInv => NoSendOnClosed
  BY DEF IInv, TypeOK, Requests, ChanOK, OwedOn, NoSendOnClosed
<1> QED
  BY <1>1, Invariance, PTL

\* What Get takes from getBlockPool is open, empty and owed nothing.
THEOREM PoolIsIdle == Spec => []PooledIdle
<1>1. IInv => PooledIdle
  <2> SUFFICES ASSUME IInv, NEW c \in Members(pool)
               PROVE  c \notin closed /\ buf[c] = <<>> /\ OwedOn(c) = {}
    BY DEF PooledIdle
  <2>1. c \in Chans
    BY DEF IInv, TypeOK, Members
  <2> QED
    BY <2>1 DEF IInv, OneOwner, ChanOK
<1> QED
  BY <1>1, Invariance, PTL

\* A query of account.go, getBlock.go or client.go reads only answers to the
\* requests of the step it is in.
THEOREM AnswersBelong == Spec => []NoCrossTalk
<1>1. IInv => NoCrossTalk
  BY DEF IInv, QueryOK, HeldOK, NoCrossTalk
<1> QED
  BY <1>1, Invariance, PTL

\* Every loop over a response channel waits for exactly the answers that are
\* still to come, but for getOthers after a failed last answer.
THEOREM CountsAgree == Spec => []CountsMatch
<1>1. IInv => CountsMatch
  BY DEF IInv, QueryOK, Counted, CountsMatch
<1> QED
  BY <1>1, Invariance, PTL
=============================================================================

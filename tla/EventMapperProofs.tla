------------------------- MODULE EventMapperProofs --------------------------
(***************************************************************************)
(* What is proved of EventMapper for events of any length: however the     *)
(* loops of parseEventDescription go about it, an event is mapped as its   *)
(* description says.                                                       *)
(***************************************************************************)
EXTENDS EventMapper, WellFoundedInduction, TLAPS

-----------------------------------------------------------------------------
(* Induction along the rounds of a loop, for a set in place of a predicate. *)

LEMMA RoundByRound ==
  ASSUME NEW S, NEW n \in Nat, 0 \in S, \A i \in 0..(n - 1) : i \in S => i + 1 \in S
  PROVE  0..n \subseteq S
<1> DEFINE T == {i \in 0..n : i \notin S}
           Less == OpToRel(<, Nat)
<1>1. \A i, j \in Nat : i < j => <<i, j>> \in Less
  BY DEF OpToRel
<1>2. IsWellFoundedOn(Less, Nat)
  BY NatLessThanWellFounded
<1> HIDE DEF Less
<1> SUFFICES ASSUME T # {} PROVE FALSE
  OBVIOUS
<1>3. T \subseteq Nat
  OBVIOUS
<1>4. PICK i \in T : \A j \in T : <<j, i>> \notin Less
  BY <1>2, <1>3, WFMin
<1>5. i \in 0..n /\ i \notin S /\ i # 0
  OBVIOUS
<1>6. i - 1 \in 0..(n - 1) /\ i - 1 \in Nat /\ i - 1 < i
  BY <1>5
<1>7. i - 1 \notin T
  <2>1. <<i - 1, i>> \in Less
    BY <1>1, <1>5, <1>6
  <2> HIDE DEF T
  <2> QED
    BY <1>4, <2>1
<1>8. i - 1 \in S
  BY <1>6, <1>7
<1> QED
  BY <1>5, <1>6, <1>8

-----------------------------------------------------------------------------
(* What is gathered round by round.                                        *)

LEMMA LastType ==
  ASSUME NEW e \in Events
  PROVE  /\ LastRound(e) \in Nat /\ Len(e.values) \in Nat /\ Len(e.data) \in Nat
         /\ Len(e.values) <= LastRound(e) /\ Len(e.data) <= LastRound(e)
         /\ LastRound(e) \in {Len(e.values), Len(e.data)}
         /\ DOMAIN e.values = 1..Len(e.values) /\ DOMAIN e.data = 1..Len(e.data)
<1>1. e.values \in Seq(Cases) /\ e.data \in Seq([name : Names, value : Values])
  BY DEF Events
<1> QED
  BY <1>1 DEF LastRound

\* The function that Gathered defines exists: nothing, and each round from
\* the one before it.
LEMMA GatheredIs ==
  ASSUME NEW e \in Events
  PROVE  Gathered(e) = [i \in 0..LastRound(e) |->
                          IF i = 0 THEN Nothing ELSE Round(e, Gathered(e)[i - 1], i)]
<1> DEFINE Is(f, n) == f = [i \in 0..n |-> IF i = 0 THEN Nothing ELSE Round(e, f[i - 1], i)]
           S == {n \in Nat : \E f : Is(f, n)}
<1>1. 0 \in S
  <2>1. Is([i \in 0..0 |-> Nothing], 0)
    OBVIOUS
  <2> QED
    BY <2>1
<1>2. ASSUME NEW n \in Nat, n \in S PROVE n + 1 \in S
  <2>1. PICK f : Is(f, n)
    BY <1>2
  <2> DEFINE g == [i \in 0..(n + 1) |-> IF i = n + 1 THEN Round(e, f[n], n + 1) ELSE f[i]]
  <2>2. \A i \in 0..n : g[i] = f[i]
    OBVIOUS
  <2>3. ASSUME NEW i \in 0..(n + 1)
        PROVE  g[i] = IF i = 0 THEN Nothing ELSE Round(e, g[i - 1], i)
    <3>1. CASE i = n + 1
      <4>1. g[i - 1] = f[n] /\ g[i] = Round(e, f[n], i) /\ i # 0
        BY <3>1
      <4> QED
        BY <4>1
    <3>2. CASE i \in 0..n
      <4>1. g[i] = f[i] /\ (i # 0 => g[i - 1] = f[i - 1])
        BY <2>2, <3>2
      <4>2. f[i] = IF i = 0 THEN Nothing ELSE Round(e, f[i - 1], i)
        BY <2>1, <3>2
      <4> QED
        BY <4>1, <4>2
    <3> QED
      BY <3>1, <3>2
  <2>4. g = [i \in 0..(n + 1) |-> g[i]]
    OBVIOUS
  <2> HIDE DEF g
  <2>5. Is(g, n + 1)
    BY <2>3, <2>4
  <2> QED
    BY <2>5
<1>3. LastRound(e) \in S
  <2>1. LastRound(e) \in Nat
    BY LastType
  <2> HIDE DEF S
  <2>2. \A i \in 0..(LastRound(e) - 1) : i \in S => i + 1 \in S
    BY <1>2, <2>1
  <2>3. 0..LastRound(e) \subseteq S
    BY <1>1, <2>1, <2>2, RoundByRound
  <2> QED
    BY <2>1, <2>3
<1>4. \E f : Is(f, LastRound(e))
  BY <1>3
<1>5. Gathered(e) = CHOOSE f : Is(f, LastRound(e))
  BY DEF Gathered
<1> QED
  BY <1>4, <1>5

-----------------------------------------------------------------------------
(* Sequences and last members of a set of indices, seen up to an index.    *)

Upto(X, i) == {j \in X : j <= i}

Lists(q, X) == q \in Seq(Nat) /\ Entries(q) = X /\ Ascending(q)

LEMMA UptoNext ==
  ASSUME NEW X \in SUBSET Nat, NEW i \in Nat
  PROVE  /\ i + 1 \notin X => Upto(X, i + 1) = Upto(X, i)
         /\ i + 1 \in X => Upto(X, i + 1) = Upto(X, i) \cup {i + 1}
<1>1. \A j \in X : j <= i + 1 <=> j <= i \/ j = i + 1
  OBVIOUS
<1> QED
  BY <1>1 DEF Upto

LEMMA ListNext ==
  ASSUME NEW X \in SUBSET Nat, NEW i \in Nat, NEW q, Lists(q, Upto(X, i))
  PROVE  Lists(IF i + 1 \in X THEN Append(q, i + 1) ELSE q, Upto(X, i + 1))
<1>1. CASE i + 1 \notin X
  BY <1>1, UptoNext
<1>2. CASE i + 1 \in X
  <2> DEFINE r == Append(q, i + 1)
  <2>1. q \in Seq(Nat) /\ Entries(q) = Upto(X, i) /\ Ascending(q)
    BY DEF Lists
  <2>2. /\ r \in Seq(Nat) /\ Len(r) = Len(q) + 1 /\ r[Len(q) + 1] = i + 1
        /\ \A k \in 1..Len(q) : r[k] = q[k]
        /\ DOMAIN r = 1..(Len(q) + 1) /\ DOMAIN q = 1..Len(q) /\ Len(q) \in Nat
    BY <2>1
  <2> HIDE DEF r
  <2>3. \A k \in 1..Len(q) : q[k] \in Nat /\ q[k] <= i
    BY <2>1, <2>2 DEF Entries, Upto
  <2>4. ASSUME NEW j \in DOMAIN r, NEW k \in DOMAIN r, j < k PROVE r[j] < r[k]
    <3>1. j \in 1..Len(q) /\ r[j] = q[j] /\ q[j] \in Nat /\ q[j] <= i
      BY <2>2, <2>3, <2>4
    <3>2. CASE k = Len(q) + 1
      BY <2>2, <3>1, <3>2
    <3>3. CASE k \in 1..Len(q)
      BY <2>1, <2>2, <2>4, <3>1, <3>3 DEF Ascending
    <3> QED
      BY <2>2, <3>2, <3>3
  <2>5. Entries(r) = Entries(q) \cup {i + 1}
    BY <2>2 DEF Entries
  <2> QED
    BY <1>2, <2>1, <2>2, <2>4, <2>5, UptoNext DEF Lists, Ascending, r
<1> QED
  BY <1>1, <1>2

LEMMA LastNext ==
  ASSUME NEW X \in SUBSET Nat, NEW i \in Nat, NEW r, IsLastOf(r, Upto(X, i))
  PROVE  IsLastOf(IF i + 1 \in X THEN i + 1 ELSE r, Upto(X, i + 1))
<1>1. CASE i + 1 \notin X
  BY <1>1, UptoNext
<1>2. CASE i + 1 \in X
  BY <1>2, UptoNext DEF IsLastOf, Upto
<1> QED
  BY <1>1, <1>2

-----------------------------------------------------------------------------
(* One round.                                                              *)

Gatherings == [status : {"ok", "error", "panic"}, accounts : Seq(Nat), sender : Nat,
               recipient : Nat, amounts : Seq(Nat), attributes : Nat]

IndexSets(e) == /\ AmountsOf(e) \subseteq Nat /\ PartiesOf(e) \subseteq Nat
                /\ RecipientsOf(e) \subseteq Nat /\ NamedAs(e, "from") \subseteq Nat

LEMMA IndexSetsType == \A e \in Events : IndexSets(e)
<1> SUFFICES ASSUME NEW e \in Events PROVE IndexSets(e)
  OBVIOUS
<1>1. DOMAIN e.values \subseteq Nat /\ DOMAIN e.data \subseteq Nat
  BY LastType
<1>2. Unnamed(e) \subseteq Nat /\ \A c : NamedAs(e, c) \subseteq Nat
  BY <1>1 DEF Unnamed, NamedAs
<1> QED
  BY <1>2 DEF IndexSets, AmountsOf, PartiesOf, RecipientsOf

\* What datum p adds is what the reference says of p.
Adds(e, s, t, p) ==
  /\ t \in Gatherings /\ t.attributes = s.attributes
  /\ t.status = IF p \in NamedAs(e, "from") /\ ~IsAccount(e, p) THEN "error" ELSE "ok"
  /\ t.status = "ok" =>
       /\ t.amounts = IF p \in AmountsOf(e) THEN Append(s.amounts, p) ELSE s.amounts
       /\ t.accounts = IF p \in PartiesOf(e) THEN Append(s.accounts, p) ELSE s.accounts
       /\ t.recipient = IF p \in RecipientsOf(e) THEN p ELSE s.recipient
       /\ t.sender = IF p \in NamedAs(e, "from") THEN p ELSE s.sender

\* What the three ways to take a datum leave and change.
LEMMA Takes ==
  ASSUME NEW s \in Gatherings, NEW p \in Nat
  PROVE  LET a == AddAccount(s, p)
             m == AddAmount(s, p)
             r == SetRecipient(s, p)
             f == [s EXCEPT !.sender = p]
         IN  /\ a \in Gatherings /\ a.accounts = Append(s.accounts, p) /\ a.amounts = s.amounts
             /\ a.recipient = s.recipient /\ a.sender = s.sender
             /\ a.status = s.status /\ a.attributes = s.attributes
             /\ m \in Gatherings /\ m.amounts = Append(s.amounts, p) /\ m.accounts = s.accounts
             /\ m.recipient = s.recipient /\ m.sender = s.sender
             /\ m.status = s.status /\ m.attributes = s.attributes
             /\ r \in Gatherings /\ r.recipient = p /\ r.amounts = s.amounts
             /\ r.accounts = s.accounts /\ r.sender = s.sender
             /\ r.status = s.status /\ r.attributes = s.attributes
             /\ f \in Gatherings /\ f.sender = p /\ f.amounts = s.amounts
             /\ f.accounts = s.accounts /\ f.recipient = s.recipient
             /\ f.status = s.status /\ f.attributes = s.attributes
<1>1. Append(s.accounts, p) \in Seq(Nat) /\ Append(s.amounts, p) \in Seq(Nat)
  BY DEF Gatherings
<1> QED
  BY <1>1 DEF Gatherings, AddAccount, AddAmount, SetRecipient

LEMMA UnnamedAdds ==
  ASSUME NEW e \in Events, NEW s \in Gatherings, s.status = "ok",
         NEW p \in 1..Len(e.data), p > Len(e.values)
  PROVE  Adds(e, s, TakeUnnamed(e, s, p), p)
<1>1. p \in Unnamed(e) /\ \A c : p \notin NamedAs(e, c)
  BY LastType DEF Unnamed, NamedAs
<1>2. p \in Nat
  BY LastType
<1>3. IsBalance(e, p) => ~IsAccount(e, p)
  BY DEF IsBalance, IsAccount
<1>4. p \notin RecipientsOf(e)
  BY <1>1 DEF RecipientsOf
<1>5. p \in AmountsOf(e) <=> IsBalance(e, p)
  BY <1>1 DEF AmountsOf
<1>6. p \in PartiesOf(e) <=> IsAccount(e, p)
  BY <1>1, <1>4 DEF PartiesOf
<1>7. CASE IsBalance(e, p)
  BY <1>1, <1>2, <1>3, <1>4, <1>5, <1>6, <1>7, Takes DEF Adds, TakeUnnamed
<1>8. CASE IsAccount(e, p) /\ ~IsBalance(e, p)
  BY <1>1, <1>2, <1>4, <1>5, <1>6, <1>8, Takes DEF Adds, TakeUnnamed
<1>9. CASE ~IsAccount(e, p) /\ ~IsBalance(e, p)
  BY <1>1, <1>2, <1>4, <1>5, <1>6, <1>9 DEF Adds, TakeUnnamed, Gatherings
<1> QED
  BY <1>7, <1>8, <1>9

LEMMA NamedAdds ==
  ASSUME NEW e \in Events, NEW s \in Gatherings, s.status = "ok",
         NEW p \in 1..Len(e.data), p <= Len(e.values)
  PROVE  Adds(e, s, TakeNamed(e, s, p), p)
<1> DEFINE c == e.values[p]
<1>1. p \in Nat /\ p \in DOMAIN e.values /\ p \notin Unnamed(e)
  BY LastType DEF Unnamed
<1>2. c \in Cases
  BY <1>1, LastType DEF Events
<1>3. \A d : p \in NamedAs(e, d) <=> c = d
  BY <1>1 DEF NamedAs
<1> HIDE DEF c
<1>4. p \in AmountsOf(e) <=> c = "amount" /\ IsBalance(e, p)
  BY <1>1, <1>3 DEF AmountsOf
<1>5. p \in RecipientsOf(e) <=> /\ IsAccount(e, p)
                                /\ \/ c = "to" /\ e.method # "delegated"
                                   \/ c = "account" /\ e.method = "endowed"
  BY <1>3 DEF RecipientsOf
<1>6. p \in PartiesOf(e) <=> c \in {"account", "to"} /\ IsAccount(e, p) /\ p \notin RecipientsOf(e)
  BY <1>1, <1>3 DEF PartiesOf
<1>7. p \in NamedAs(e, "from") <=> c = "from"
  BY <1>3
<1> DEFINE t == TakeNamed(e, s, p)
<1> SUFFICES Adds(e, s, t, p)
  OBVIOUS
<1> HIDE DEF t
<1>8. CASE c \in {"account", "to", "amount", "other"} /\ t = s
           /\ p \notin AmountsOf(e) /\ p \notin PartiesOf(e) /\ p \notin RecipientsOf(e)
  BY <1>7, <1>8 DEF Adds
<1>9. CASE c = "account"
  <2>1. t = TakeAccount(e, s, p)
    BY <1>9 DEF TakeNamed, c, t
  <2>2. CASE ~IsAccount(e, p)
    BY <1>4, <1>5, <1>6, <1>8, <1>9, <2>1, <2>2 DEF TakeAccount
  <2>3. CASE IsAccount(e, p) /\ e.method = "endowed"
    <3>1. t = SetRecipient(s, p)
      BY <2>1, <2>3 DEF TakeAccount
    <3>2. p \in RecipientsOf(e) /\ p \notin PartiesOf(e) /\ p \notin AmountsOf(e)
      BY <1>4, <1>5, <1>6, <1>9, <2>3
    <3> QED
      BY <1>1, <1>7, <1>9, <3>1, <3>2, Takes DEF Adds
  <2>4. CASE IsAccount(e, p) /\ e.method # "endowed"
    <3>1. t = AddAccount(s, p)
      BY <2>1, <2>4 DEF TakeAccount
    <3>2. p \notin RecipientsOf(e) /\ p \in PartiesOf(e) /\ p \notin AmountsOf(e)
      BY <1>4, <1>5, <1>6, <1>9, <2>4
    <3> QED
      BY <1>1, <1>7, <1>9, <3>1, <3>2, Takes DEF Adds
  <2> QED
    BY <2>2, <2>3, <2>4
<1>10. CASE c = "from"
  <2>1. t = IF IsAccount(e, p) THEN [s EXCEPT !.sender = p] ELSE Fail(s)
    BY <1>10 DEF TakeNamed, TakeSender, c, t
  <2>2. p \notin RecipientsOf(e) /\ p \notin PartiesOf(e) /\ p \notin AmountsOf(e)
    BY <1>4, <1>5, <1>6, <1>10
  <2>3. CASE IsAccount(e, p)
    <3>1. t = [s EXCEPT !.sender = p]
      BY <2>1, <2>3
    <3> QED
      BY <1>1, <1>7, <1>10, <2>2, <2>3, <3>1, Takes DEF Adds
  <2>4. CASE ~IsAccount(e, p)
    <3>1. t = Fail(s)
      BY <2>1, <2>4
    <3>2. t \in Gatherings /\ t.status = "error" /\ t.attributes = s.attributes
      BY <3>1 DEF Fail, Gatherings
    <3> QED
      BY <1>7, <1>10, <2>4, <3>2 DEF Adds
  <2> QED
    BY <2>3, <2>4
<1>11. CASE c = "to"
  <2>1. t = TakeRecipient(e, s, p)
    BY <1>11 DEF TakeNamed, c, t
  <2>2. CASE ~IsAccount(e, p)
    BY <1>4, <1>5, <1>6, <1>8, <1>11, <2>1, <2>2 DEF TakeRecipient
  <2>3. CASE IsAccount(e, p) /\ e.method # "delegated"
    <3>1. t = SetRecipient(s, p)
      BY <2>1, <2>3 DEF TakeRecipient
    <3>2. p \in RecipientsOf(e) /\ p \notin PartiesOf(e) /\ p \notin AmountsOf(e)
      BY <1>4, <1>5, <1>6, <1>11, <2>3
    <3> QED
      BY <1>1, <1>7, <1>11, <3>1, <3>2, Takes DEF Adds
  <2>4. CASE IsAccount(e, p) /\ e.method = "delegated"
    <3>1. t = AddAccount(s, p)
      BY <2>1, <2>4 DEF TakeRecipient
    <3>2. p \notin RecipientsOf(e) /\ p \in PartiesOf(e) /\ p \notin AmountsOf(e)
      BY <1>4, <1>5, <1>6, <1>11, <2>4
    <3> QED
      BY <1>1, <1>7, <1>11, <3>1, <3>2, Takes DEF Adds
  <2> QED
    BY <2>2, <2>3, <2>4
<1>12. CASE c = "amount"
  <2>1. t = TakeAmount(e, s, p)
    BY <1>12 DEF TakeNamed, c, t
  <2>2. CASE ~IsBalance(e, p)
    BY <1>4, <1>5, <1>6, <1>8, <1>12, <2>1, <2>2 DEF TakeAmount
  <2>3. CASE IsBalance(e, p)
    <3>1. t = AddAmount(s, p)
      BY <2>1, <2>3 DEF TakeAmount
    <3>2. p \notin RecipientsOf(e) /\ p \notin PartiesOf(e) /\ p \in AmountsOf(e)
      BY <1>4, <1>5, <1>6, <1>12, <2>3
    <3> QED
      BY <1>1, <1>7, <1>12, <3>1, <3>2, Takes DEF Adds
  <2> QED
    BY <2>2, <2>3
<1>13. CASE c = "other"
  <2>1. t = s
    BY <1>13 DEF TakeNamed, c, t
  <2> QED
    BY <1>4, <1>5, <1>6, <1>8, <1>13, <2>1
<1> QED
  BY <1>2, <1>9, <1>10, <1>11, <1>12, <1>13 DEF Cases

-----------------------------------------------------------------------------
(* The loops.                                                              *)

\* After round i all is gathered of the data up to i ...
AllSoFar(e, i, s) ==
  /\ i <= Len(e.data) /\ s.attributes = i
  /\ \A j \in 1..i : e.data[j].value # ""
  /\ \A j \in Upto(NamedAs(e, "from"), i) : IsAccount(e, j)
  /\ Lists(s.amounts, Upto(AmountsOf(e), i))
  /\ Lists(s.accounts, Upto(PartiesOf(e), i))
  /\ IsLastOf(s.recipient, Upto(RecipientsOf(e), i))
  /\ IsLastOf(s.sender, Upto(NamedAs(e, "from"), i))

\* ... or there is a cause why the event cannot be mapped.
SoFar(e, i, s) ==
  /\ s \in Gatherings
  /\ s.status = "ok" => AllSoFar(e, i, s)
  /\ s.status = "error" => Len(e.values) > Len(e.data) \/ \E j \in NamedAs(e, "from") : ~IsAccount(e, j)
  /\ s.status = "panic" => \E j \in DOMAIN e.data : e.data[j].value = ""

\* A round in which the datum is there.
LEMMA AddsSoFar ==
  ASSUME NEW e \in Events, NEW i \in Nat, NEW s, SoFar(e, i, s), s.status = "ok",
         i + 1 \in DOMAIN e.data, NEW t, Adds(e, s, t, i + 1)
  PROVE  SoFar(e, i + 1, Stringify(e, t, i + 1))
<1> DEFINE p == i + 1
           u == Stringify(e, t, p)
<1> SUFFICES SoFar(e, p, u)
  OBVIOUS
<1> HIDE DEF u
<1>1. p \in 1..Len(e.data) /\ p <= Len(e.data) /\ p \in Nat
  BY LastType
<1>2. t \in Gatherings /\ t.status \in {"ok", "error"}
  BY DEF Adds
<1>3. CASE t.status = "error"
  <2>1. u = t
    BY <1>3 DEF Stringify, u
  <2>2. p \in NamedAs(e, "from") /\ ~IsAccount(e, p)
    BY <1>3 DEF Adds
  <2> QED
    BY <1>2, <1>3, <2>1, <2>2 DEF SoFar
<1>4. CASE t.status = "ok" /\ e.data[p].value = ""
  <2>1. u = [t EXCEPT !.status = "panic"]
    BY <1>4 DEF Stringify, u
  <2>2. u \in Gatherings /\ u.status = "panic"
    BY <1>2, <2>1 DEF Gatherings
  <2> QED
    BY <1>4, <2>2 DEF SoFar
<1>5. CASE t.status = "ok" /\ e.data[p].value # ""
  <2>1. u = [t EXCEPT !.attributes = @ + 1]
    BY <1>5 DEF Stringify, u
  <2>2. AllSoFar(e, i, s) /\ t.attributes = i
    BY DEF SoFar, AllSoFar, Adds
  <2>3. /\ u \in Gatherings /\ u.status = "ok" /\ u.attributes = p
        /\ u.amounts = t.amounts /\ u.accounts = t.accounts
        /\ u.recipient = t.recipient /\ u.sender = t.sender
    <3>1. u = [t EXCEPT !.attributes = p]
      BY <2>1, <2>2
    <3>2. p \in Nat /\ t \in Gatherings /\ t.status = "ok"
      BY <1>1, <1>2, <1>5
    <3> HIDE DEF p
    <3> QED
      BY <3>1, <3>2 DEF Gatherings
  <2>4. IndexSets(e)
    BY IndexSetsType
  <2>5. Lists(u.amounts, Upto(AmountsOf(e), p))
    <3>1. Lists(s.amounts, Upto(AmountsOf(e), i))
      BY <2>2 DEF AllSoFar
    <3>2. u.amounts = IF p \in AmountsOf(e) THEN Append(s.amounts, p) ELSE s.amounts
      BY <1>5, <2>3 DEF Adds
    <3> QED
      BY <2>4, <3>1, <3>2, ListNext DEF IndexSets
  <2>6. Lists(u.accounts, Upto(PartiesOf(e), p))
    <3>1. Lists(s.accounts, Upto(PartiesOf(e), i))
      BY <2>2 DEF AllSoFar
    <3>2. u.accounts = IF p \in PartiesOf(e) THEN Append(s.accounts, p) ELSE s.accounts
      BY <1>5, <2>3 DEF Adds
    <3> QED
      BY <2>4, <3>1, <3>2, ListNext DEF IndexSets
  <2>7. IsLastOf(u.recipient, Upto(RecipientsOf(e), p))
    <3>1. IsLastOf(s.recipient, Upto(RecipientsOf(e), i))
      BY <2>2 DEF AllSoFar
    <3>2. u.recipient = IF p \in RecipientsOf(e) THEN p ELSE s.recipient
      BY <1>5, <2>3 DEF Adds
    <3> QED
      BY <2>4, <3>1, <3>2, LastNext DEF IndexSets
  <2>8. IsLastOf(u.sender, Upto(NamedAs(e, "from"), p))
    <3>1. IsLastOf(s.sender, Upto(NamedAs(e, "from"), i))
      BY <2>2 DEF AllSoFar
    <3>2. u.sender = IF p \in NamedAs(e, "from") THEN p ELSE s.sender
      BY <1>5, <2>3 DEF Adds
    <3> QED
      BY <2>4, <3>1, <3>2, LastNext DEF IndexSets
  <2>9. ASSUME NEW j \in 1..p PROVE e.data[j].value # ""
    <3>1. j \in 1..i \/ j = p
      OBVIOUS
    <3>2. \A k \in 1..i : e.data[k].value # ""
      BY <2>2 DEF AllSoFar
    <3> QED
      BY <1>5, <3>1, <3>2
  <2>10. ASSUME NEW j \in Upto(NamedAs(e, "from"), p) PROVE IsAccount(e, j)
    <3>1. p \in NamedAs(e, "from") => IsAccount(e, p)
      BY <1>5 DEF Adds
    <3>2. j \in Upto(NamedAs(e, "from"), i) \/ (j = p /\ p \in NamedAs(e, "from"))
      BY <2>4, UptoNext DEF IndexSets
    <3>3. \A k \in Upto(NamedAs(e, "from"), i) : IsAccount(e, k)
      BY <2>2 DEF AllSoFar
    <3> QED
      BY <3>1, <3>2, <3>3
  <2>11. AllSoFar(e, p, u)
    BY <1>1, <2>3, <2>5, <2>6, <2>7, <2>8, <2>9, <2>10 DEF AllSoFar
  <2> QED
    BY <2>3, <2>11 DEF SoFar
<1> QED
  BY <1>2, <1>3, <1>4, <1>5

LEMMA RoundSoFar ==
  ASSUME NEW e \in Events, NEW i \in 0..(LastRound(e) - 1), NEW s, SoFar(e, i, s)
  PROVE  SoFar(e, i + 1, Round(e, s, i + 1))
<1> DEFINE p == i + 1
<1>1. i \in Nat /\ p \in 1..LastRound(e) /\ s \in Gatherings
  <2>1. LastRound(e) \in Nat
    BY LastType
  <2>2. i \in Nat /\ p \in 1..LastRound(e)
    BY <2>1
  <2>3. s \in Gatherings
    BY DEF SoFar
  <2> QED
    BY <2>2, <2>3
<1>2. CASE s.status # "ok"
  <2>1. Round(e, s, p) = s
    BY <1>2 DEF Round
  <2> QED
    BY <1>2, <2>1 DEF SoFar
<1>3. CASE s.status = "ok" /\ p > Len(e.values)
  <2>1. p \in 1..Len(e.data) /\ p \in DOMAIN e.data
    BY <1>1, <1>3, LastType
  <2>2. Round(e, s, p) = Stringify(e, TakeUnnamed(e, s, p), p)
    BY <1>1, <1>3, LastType DEF Round, FirstUndescribed
  <2> QED
    BY <1>1, <1>3, <2>1, <2>2, UnnamedAdds, AddsSoFar
<1>4. CASE s.status = "ok" /\ p <= Len(e.values) /\ p > Len(e.data)
  <2>1. Round(e, s, p) = Fail(s)
    BY <1>1, <1>4, LastType DEF Round, FirstUndescribed
  <2>2. Fail(s) \in Gatherings /\ Fail(s).status = "error"
    BY <1>1 DEF Fail, Gatherings
  <2>3. Len(e.values) > Len(e.data)
    BY <1>1, <1>4, LastType
  <2> QED
    BY <2>1, <2>2, <2>3 DEF SoFar
<1>5. CASE s.status = "ok" /\ p <= Len(e.values) /\ p <= Len(e.data)
  <2>1. p \in 1..Len(e.data) /\ p \in DOMAIN e.data
    BY <1>1, <1>5, LastType
  <2>2. Round(e, s, p) = Stringify(e, TakeNamed(e, s, p), p)
    BY <1>1, <1>5, LastType DEF Round, FirstUndescribed
  <2> QED
    BY <1>1, <1>5, <2>1, <2>2, NamedAdds, AddsSoFar
<1> QED
  BY <1>1, <1>2, <1>3, <1>4, <1>5, LastType

LEMMA NothingSoFar == \A e \in Events : SoFar(e, 0, Nothing)
<1> SUFFICES ASSUME NEW e \in Events PROVE SoFar(e, 0, Nothing)
  OBVIOUS
<1>1. ASSUME NEW X, X \subseteq Nat \ {0} PROVE Upto(X, 0) = {}
  <2>1. \A j \in X : ~(j <= 0)
    BY <1>1
  <2> QED
    BY <2>1 DEF Upto
<1>2. DOMAIN e.values \subseteq Nat \ {0} /\ DOMAIN e.data \subseteq Nat \ {0}
  BY LastType
<1>3. Unnamed(e) \subseteq Nat \ {0} /\ \A c : NamedAs(e, c) \subseteq Nat \ {0}
  BY <1>2 DEF Unnamed, NamedAs
<1>4. /\ AmountsOf(e) \subseteq Nat \ {0} /\ PartiesOf(e) \subseteq Nat \ {0}
      /\ RecipientsOf(e) \subseteq Nat \ {0}
  BY <1>3 DEF AmountsOf, PartiesOf, RecipientsOf
<1>5. Lists(<<>>, {})
  BY DEF Lists, Entries, Ascending
<1>6. /\ Nothing \in Gatherings /\ Nothing.status = "ok" /\ Nothing.attributes = 0
      /\ Nothing.amounts = <<>> /\ Nothing.accounts = <<>>
      /\ Nothing.recipient = 0 /\ Nothing.sender = 0
  BY DEF Nothing, Gatherings
<1>7. /\ Upto(AmountsOf(e), 0) = {} /\ Upto(PartiesOf(e), 0) = {}
      /\ Upto(RecipientsOf(e), 0) = {} /\ Upto(NamedAs(e, "from"), 0) = {}
  BY <1>1, <1>3, <1>4
<1>8. IsLastOf(0, {}) /\ 0 <= Len(e.data)
  BY LastType DEF IsLastOf
<1>9. AllSoFar(e, 0, Nothing)
  <2>1. Lists(Nothing.amounts, {}) /\ Lists(Nothing.accounts, {})
    BY <1>5, <1>6
  <2>2. IsLastOf(Nothing.recipient, {}) /\ IsLastOf(Nothing.sender, {})
    BY <1>6, <1>8
  <2>3. Nothing.attributes = 0 /\ 1..0 = {}
    BY <1>6
  <2> QED
    BY <1>7, <1>8, <2>1, <2>2, <2>3 DEF AllSoFar
<1> QED
  BY <1>6, <1>9 DEF SoFar

LEMMA ParsedSoFar == \A e \in Events : SoFar(e, LastRound(e), parseEventDescription(e))
<1> SUFFICES ASSUME NEW e \in Events PROVE SoFar(e, LastRound(e), parseEventDescription(e))
  OBVIOUS
<1> DEFINE S == {i \in 0..LastRound(e) : SoFar(e, i, Gathered(e)[i])}
<1>1. LastRound(e) \in Nat
  BY LastType
<1>2. 0 \in S
  BY <1>1, GatheredIs, NothingSoFar
<1>3. ASSUME NEW i \in 0..(LastRound(e) - 1), i \in S PROVE i + 1 \in S
  <2>1. i + 1 \in 0..LastRound(e) /\ i + 1 # 0 /\ (i + 1) - 1 = i
    BY <1>1
  <2>2. Gathered(e)[i + 1] = Round(e, Gathered(e)[i], i + 1)
    BY <2>1, GatheredIs
  <2> QED
    BY <1>3, <2>1, <2>2, RoundSoFar
<1> HIDE DEF S
<1>4. 0..LastRound(e) \subseteq S
  BY <1>1, <1>2, <1>3, RoundByRound
<1> QED
  BY <1>1, <1>4 DEF S, parseEventDescription

-----------------------------------------------------------------------------
(* The event.                                                              *)

\* An event with any data and any description is mapped as the description
\* says, in the order of the data, or not at all for one of the causes
\* Mappable names (getEvent).
THEOREM EventIsMappedRight == \A e \in Events : MapsRight(e, getEvent(e))
<1> SUFFICES ASSUME NEW e \in Events PROVE MapsRight(e, getEvent(e))
  OBVIOUS
<1> DEFINE s == parseEventDescription(e)
           g == getEvent(e)
           n == LastRound(e)
<1>1. SoFar(e, n, s)
  BY ParsedSoFar
<1> SUFFICES MapsRight(e, g)
  OBVIOUS
<1> HIDE DEF s, g, n
<1>2. s \in Gatherings /\ s.status \in {"ok", "error", "panic"}
  BY <1>1 DEF SoFar, Gatherings
<1>3. CASE s.status # "ok"
  <2>1. g = s
    BY <1>3 DEF getEvent, s, g
  <2>2. s.status = "error" => ~Mappable(e)
    BY <1>1, LastType DEF SoFar, Mappable
  <2> QED
    BY <1>1, <1>2, <1>3, <2>1, <2>2 DEF MapsRight, SoFar
<1>4. CASE s.status = "ok"
  <2>1. n <= Len(e.data) /\ n = Len(e.data) /\ Len(e.values) <= Len(e.data)
    <3>1. n <= Len(e.data)
      BY <1>1, <1>4 DEF SoFar, AllSoFar
    <3> QED
      BY <3>1, LastType DEF n
  <2>2. ASSUME NEW X, X \subseteq 1..n PROVE Upto(X, n) = X
    <3>1. \A j \in X : j <= n
      BY <2>1, <2>2, LastType
    <3> QED
      BY <3>1 DEF Upto
  <2>3. /\ \A c : NamedAs(e, c) \subseteq 1..n
        /\ AmountsOf(e) \subseteq 1..n /\ PartiesOf(e) \subseteq 1..n /\ RecipientsOf(e) \subseteq 1..n
    <3>1. DOMAIN e.values \subseteq 1..n /\ DOMAIN e.data \subseteq 1..n
      BY <2>1, LastType
    <3>2. Unnamed(e) \subseteq 1..n /\ \A c : NamedAs(e, c) \subseteq 1..n
      BY <3>1 DEF Unnamed, NamedAs
    <3> QED
      BY <3>2 DEF AmountsOf, PartiesOf, RecipientsOf
  <2>4. /\ s.attributes = Len(e.data)
        /\ Lists(s.amounts, AmountsOf(e)) /\ Lists(s.accounts, PartiesOf(e))
        /\ IsLastOf(s.recipient, RecipientsOf(e)) /\ IsLastOf(s.sender, NamedAs(e, "from"))
        /\ \A j \in NamedAs(e, "from") : IsAccount(e, j)
        /\ \A j \in DOMAIN e.data : e.data[j].value # ""
    <3>1. /\ Upto(AmountsOf(e), n) = AmountsOf(e) /\ Upto(PartiesOf(e), n) = PartiesOf(e)
          /\ Upto(RecipientsOf(e), n) = RecipientsOf(e)
          /\ Upto(NamedAs(e, "from"), n) = NamedAs(e, "from")
      BY <2>2, <2>3
    <3>2. DOMAIN e.data = 1..n
      BY <2>1, LastType
    <3> QED
      BY <1>1, <1>4, <2>1, <3>1, <3>2 DEF SoFar, AllSoFar
  <2>5. g = appendAmounts(e, s)
    BY <1>4 DEF getEvent, s, g
  <2>6. (\E k \in DOMAIN s.amounts : e.data[s.amounts[k]].value # "number")
          <=> \E j \in AmountsOf(e) : e.data[j].value # "number"
    BY <2>4 DEF Lists, Entries
  <2>7. CASE \E j \in AmountsOf(e) : e.data[j].value # "number"
    <3>1. g = Fail(s)
      BY <2>5, <2>6, <2>7 DEF appendAmounts
    <3>2. g.status = "error"
      BY <1>2, <3>1 DEF Fail, Gatherings
    <3>3. ~Mappable(e)
      BY <2>7 DEF Mappable
    <3> QED
      BY <3>2, <3>3 DEF MapsRight
  <2>8. CASE \A j \in AmountsOf(e) : e.data[j].value = "number"
    <3>1. g = s
      BY <2>5, <2>6, <2>8 DEF appendAmounts
    <3>2. Mappable(e)
      BY <2>1, <2>4, <2>8 DEF Mappable
    <3>3. TransferAmount(s) \in AmountsOf(e) \cup {0}
      <4>1. s.amounts \in Seq(Nat) /\ Entries(s.amounts) = AmountsOf(e)
        BY <2>4 DEF Lists
      <4>2. Len(s.amounts) = 1 => s.amounts[1] \in Entries(s.amounts)
        BY <4>1 DEF Entries
      <4> QED
        BY <4>1, <4>2 DEF TransferAmount
    <3> QED
      BY <1>4, <2>4, <3>1, <3>2, <3>3 DEF MapsRight, Lists
  <2> QED
    BY <2>7, <2>8
<1> QED
  BY <1>3, <1>4
=============================================================================

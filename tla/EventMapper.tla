---------------------------- MODULE EventMapper ----------------------------
(***************************************************************************)
(* How an event of the proxy becomes one of the common format,             *)
(* mapper/event_mapper.go.  An event has data, and a description that may  *)
(* name the first few of them; the names decide who is sender, recipient   *)
(* or party and what is an amount.  A datum is written by its position in  *)
(* the data, a name of the description by the case of the switch it falls  *)
(* under.  The value of a datum is "number", "text" or "" (empty).         *)
(***************************************************************************)
EXTENDS Naturals, Sequences

Cases   == {"account", "from", "to", "amount", "other"}
Names   == {"AccountId", "AccountIndex", "Balance", "Text"}
Values  == {"number", "text", ""}
Methods == {"endowed", "delegated", "transfer"}

Events == [method : Methods, values : Seq(Cases), data : Seq([name : Names, value : Values])]

\* What parseEventDescription has gathered; 0 stands for nobody.
Nothing == [status |-> "ok", accounts |-> <<>>, sender |-> 0, recipient |-> 0,
            amounts |-> <<>>, attributes |-> 0]

Fail(s) == [s EXCEPT !.status = "error"]

\* getAccountID and getBalance look at nothing but the name of the datum.
IsAccount(e, i) == e.data[i].name = "AccountId"
IsBalance(e, i) == e.data[i].name = "Balance"

AddAccount(s, i) == [s EXCEPT !.accounts = Append(@, i)]
AddAmount(s, i)  == [s EXCEPT !.amounts = Append(@, i)]
SetRecipient(s, i) == [s EXCEPT !.recipient = i]

\* case "account", "approving", ...: a datum of another kind is passed over.
TakeAccount(e, s, i) ==
  IF ~IsAccount(e, i) THEN s
  ELSE IF e.method = "endowed" THEN SetRecipient(s, i) ELSE AddAccount(s, i)

\* case "from", "provider": here, and only here, it is an error.
TakeSender(e, s, i) == IF IsAccount(e, i) THEN [s EXCEPT !.sender = i] ELSE Fail(s)

\* Mutant of TakeRecipient: as if delegated were like any other method.
TakeRecipientAlways(e, s, i) == IF IsAccount(e, i) THEN SetRecipient(s, i) ELSE s

\* case "to", "who", "beneficiary", "reaper": the last one stays.
TakeRecipient(e, s, i) ==
  IF ~IsAccount(e, i) THEN s
  ELSE IF e.method = "delegated" THEN AddAccount(s, i) ELSE SetRecipient(s, i)

TakeAmount(e, s, i) == IF IsBalance(e, i) THEN AddAmount(s, i) ELSE s

\* []rune(val)[0]: an empty value ends the process.
Stringify(e, s, i) ==
  IF s.status # "ok" THEN s
  ELSE IF e.data[i].value = "" THEN [s EXCEPT !.status = "panic"]
  ELSE [s EXCEPT !.attributes = @ + 1]

\* What the two loops of parseEventDescription take of a datum: the first goes
\* by its name in the description, the second, having none, by its kind.
TakeNamed(e, s, i) == CASE e.values[i] = "account" -> TakeAccount(e, s, i)
                        [] e.values[i] = "from"    -> TakeSender(e, s, i)
                        [] e.values[i] = "to"      -> TakeRecipient(e, s, i)
                        [] e.values[i] = "amount"  -> TakeAmount(e, s, i)
                        [] OTHER                   -> s

TakeUnnamed(e, s, i) == CASE IsBalance(e, i) -> AddAmount(s, i)
                          [] IsAccount(e, i) -> AddAccount(s, i)
                          [] OTHER           -> s

\* lastEvent when the second loop begins.
FirstUndescribed(e) == Len(e.values) + 1

\* One round, of the first loop and then of the second.
Round(e, s, i) ==
  IF s.status # "ok" THEN s
  ELSE IF i >= FirstUndescribed(e) THEN Stringify(e, TakeUnnamed(e, s, i), i)
  ELSE IF i > Len(e.data) THEN Fail(s) ELSE Stringify(e, TakeNamed(e, s, i), i)

\* The last index of the two loops.
LastRound(e) == IF Len(e.values) > Len(e.data) THEN Len(e.values) ELSE Len(e.data)

\* What has been gathered before the first round and after each.
Gathered(e) ==
  LET after[i \in 0..LastRound(e)] == IF i = 0 THEN Nothing ELSE Round(e, after[i - 1], i)
  IN  after

parseEventDescription(e) == Gathered(e)[LastRound(e)]

\* A balance must be a number; the sender's and the recipient's transfer have
\* an amount only when there is just one.
appendAmounts(e, s) ==
  IF \E k \in DOMAIN s.amounts : e.data[s.amounts[k]].value # "number" THEN Fail(s) ELSE s

TransferAmount(s) == IF Len(s.amounts) = 1 THEN s.amounts[1] ELSE 0

getEvent(e) ==
  LET s == parseEventDescription(e)
  IN  IF s.status = "ok" THEN appendAmounts(e, s) ELSE s

-----------------------------------------------------------------------------
(* What the loops amount to, without the loops.                            *)

NamedAs(e, case) == {i \in DOMAIN e.values : e.values[i] = case}
Unnamed(e) == {i \in DOMAIN e.data : i > Len(e.values)}

\* Every balance counts that is called an amount or not called anything.
AmountsOf(e) == {i \in NamedAs(e, "amount") \cup Unnamed(e) : IsBalance(e, i)}

\* An event is mapped unless it is too short for its description, a sender is
\* not an account, or an amount is not a number; nothing else loses a block.
Mappable(e) ==
  /\ Len(e.values) <= Len(e.data)
  /\ \A i \in NamedAs(e, "from") : IsAccount(e, i)
  /\ \A i \in AmountsOf(e) : e.data[i].value = "number"

RecipientsOf(e) ==
  {i \in (IF e.method = "delegated" THEN {} ELSE NamedAs(e, "to")) \cup
         (IF e.method = "endowed" THEN NamedAs(e, "account") ELSE {}) : IsAccount(e, i)}

PartiesOf(e) ==
  {i \in NamedAs(e, "account") \cup NamedAs(e, "to") \cup Unnamed(e) :
     IsAccount(e, i) /\ i \notin RecipientsOf(e)}

Entries(q) == {q[k] : k \in DOMAIN q}
Ascending(q) == \A j, k \in DOMAIN q : j < k => q[j] < q[k]
IsLastOf(i, S) == IF S = {} THEN i = 0 ELSE i \in S /\ \A j \in S : j <= i

MapsRight(e, s) ==
  IF \E i \in DOMAIN e.data : e.data[i].value = ""
    THEN s.status # "ok"
    ELSE /\ (s.status = "ok") <=> Mappable(e)
         /\ s.status # "panic"
         /\ s.status = "ok" =>
              /\ s.attributes = Len(e.data)
              /\ Entries(s.amounts) = AmountsOf(e) /\ Ascending(s.amounts)
              /\ Entries(s.accounts) = PartiesOf(e) /\ Ascending(s.accounts)
              /\ IsLastOf(s.recipient, RecipientsOf(e))
              /\ IsLastOf(s.sender, NamedAs(e, "from"))
              /\ TransferAmount(s) \in AmountsOf(e) \cup {0}
=============================================================================

----------------------------- MODULE RpcService -----------------------------
(***************************************************************************)
(* What the websocket layer of api/api.go promises to the code that calls  *)
(* Conn.Send, with the connections, the goroutines and the maps left out:  *)
(* a request that was accepted is answered exactly once, with its own      *)
(* result or with an error, and requests are refused only until the first  *)
(* connection was established.                                             *)
(***************************************************************************)
CONSTANTS Reqs            \* the requests the callers will ever make

VARIABLES phase,          \* phase[r]: how far request r has come
          open            \* Send no longer refuses (statusEvenOne)

svcVars == <<phase, open>>

Phases == {"idle", "sending", "pending", "answered", "refused"}

SvcInit == /\ phase = [r \in Reqs |-> "idle"]
           /\ open = FALSE

Move(r, from, to) == /\ phase[r] = from
                     /\ phase' = [phase EXCEPT ![r] = to]

\* The first successful dial opens the service, once and for all.
Open == /\ ~open
        /\ open' = TRUE
        /\ UNCHANGED phase

Refuse(r) == ~open /\ Move(r, "idle", "refused") /\ UNCHANGED open

Offer(r) == open /\ Move(r, "idle", "sending") /\ UNCHANGED open

Take(r) == open /\ Move(r, "sending", "pending") /\ UNCHANGED open

Answer(r) == Move(r, "pending", "answered") /\ UNCHANGED open

SvcNext == \/ Open
           \/ \E r \in Reqs : Refuse(r) \/ Offer(r) \/ Take(r) \/ Answer(r)

SvcSafety == SvcInit /\ [][SvcNext]_svcVars

SvcSpec == /\ SvcSafety
           /\ \A r \in Reqs : WF_svcVars(Answer(r))
=============================================================================

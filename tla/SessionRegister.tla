-------------------------- MODULE SessionRegister --------------------------
(***************************************************************************)
(* What the sessions table promises: a session is opened once and ends     *)
(* once, and a session that continues another one is opened in the step    *)
(* that ends its predecessor, so that no session has two successors.       *)
(***************************************************************************)
CONSTANTS Ids,      \* identities a session can get
          Nobody    \* no predecessor

VARIABLES session,  \* of each identity: unknown, active or ended
          follows   \* the session it continues

SessionInit ==
  /\ session \in [Ids -> {"unknown", "active"}]
  /\ follows = [n \in Ids |-> Nobody]

Open(n) ==
  /\ session[n] = "unknown"
  /\ session' = [session EXCEPT ![n] = "active"]
  /\ UNCHANGED follows

Exchange(old, n) ==
  /\ session[old] = "active" /\ session[n] = "unknown"
  /\ session' = [session EXCEPT ![old] = "ended", ![n] = "active"]
  /\ follows' = [follows EXCEPT ![n] = old]

End(old) ==
  /\ session[old] = "active"
  /\ session' = [session EXCEPT ![old] = "ended"]
  /\ UNCHANGED follows

SessionNext ==
  \/ \E n \in Ids : Open(n)
  \/ \E old, n \in Ids : Exchange(old, n)
  \/ \E old \in Ids : End(old)

RegisterSpec == SessionInit /\ [][SessionNext]_<<session, follows>>
=============================================================================

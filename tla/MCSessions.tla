----------------------------- MODULE MCSessions -----------------------------
(* Small instances of Sessions for TLC.                                    *)
EXTENDS Sessions, TLC

CONSTANTS o1, o2, f1, f2, r1, r2, r3

MCOrgOf == (f1 :> o1) @@ (f2 :> o2)

(* A request of any kind, one that revokes and one that uses a token.      *)
TokenOps == {"login", "refresh", "switch", "logout", "call"}
AccountOps == {"password", "reset", "lock", "unlock", "profile"}
MCOps ==
  (r1 :> TokenOps \cup AccountOps) @@ (r2 :> {"refresh", "logout", "reset"})
                                   @@ (r3 :> {"refresh", "call"})

(* The two organizations are interchangeable: what is there at the start   *)
(* is of the first, or of both.                                            *)
MCInit ==
  /\ Init
  /\ profile[o1] = Null => profile[o2] = Null
  /\ Seed \in held => tok[Seed].org = o1
MCSpec == MCInit /\ [][Next]_vars /\ \A r \in Requests : WF_vars(Step(r))
=============================================================================

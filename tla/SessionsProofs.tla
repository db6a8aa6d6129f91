--------------------------- MODULE SessionsProofs ---------------------------
(***************************************************************************)
(* Proofs about Sessions, for any number of requests, organizations,       *)
(* profiles and passwords.                                                 *)
(***************************************************************************)
EXTENDS Sessions, TLAPS

AllOps == {"none", "login", "refresh", "switch", "logout", "call", "password", "reset",
           "lock", "unlock", "profile"}

(* What a request carries, by its operation.                               *)
LEMMA Carried ==
  ASSUME NEW H, H \subseteq Pairs, NEW x \in Inputs(H) \cup {Idle}
  PROVE  /\ x.op \in AllOps
         /\ x.op = "none" <=> x = Idle
         /\ x.op = "refresh" => x.cookie \in H
         /\ x.op \in Bearer => x.access \in H
         /\ x.op = "logout" => x.cookie \in H \cup {Null}
         /\ x.op \in {"switch", "profile"} => x.arg \in Orgs
         /\ x.op = "profile" => x.new \in Profiles
         /\ x.op \in {"password", "reset"} => x.new \in Passwords
BY DEF Inputs, Ask, Idle, No, Bearer, AllOps

LEMMA Asked ==
  ASSUME TypeOK, NEW r \in Requests
  PROVE  /\ req[r].op \in AllOps
         /\ req[r].op = "none" <=> req[r] = Idle
         /\ req[r].op = "refresh" => req[r].cookie \in Pairs
         /\ req[r].op \in Bearer => req[r].access \in Pairs
         /\ req[r].op = "logout" => req[r].cookie \in Pairs \cup {Null}
         /\ req[r].op \in {"switch", "profile"} => req[r].arg \in Orgs
         /\ req[r].op = "profile" => req[r].new \in Profiles
         /\ req[r].op \in {"password", "reset"} => req[r].new \in Passwords
<1>1. req[r] \in Inputs(Pairs) \cup {Idle}
  BY DEF TypeOK
<1> QED
  BY <1>1, Carried, Zenon

LEMMA NullOut == Null \notin Pairs /\ Null \notin Orgs /\ Null \notin Profiles /\ Seed \notin Requests
BY NullAssumption, SeedAssumption DEF Pairs

LEMMA InitIInv == Init => IInv
<1> SUFFICES ASSUME Init PROVE IInv
  OBVIOUS
<1>1. /\ row \in [Pairs -> {"none", "active", "revoked"}]
      /\ \A p \in Requests : row[p] = "none"
      /\ \A p \in Pairs : row[p] # "revoked"
  BY NullOut DEF Init, Pairs
<1>2. /\ tok \in [Pairs -> [org : Orgs \cup {Null}, perms : Profiles \cup {Null}]]
      /\ \A p \in Pairs : tok[p].perms # Null => OrgOf[tok[p].perms] = tok[p].org
  BY NullOut DEF Init, Claims, NoClaims
<1>3. \A r \in Requests : /\ pc[r] = "idle" /\ req[r] = Idle /\ req[r].op = "none"
                          /\ locks[r] = Null /\ late[r] = {}
  BY DEF Init, Idle
<1>4. TypeOK
  BY <1>1, <1>2 DEF Init, TypeOK, Steps, Pairs
<1>5. OneHolder /\ ExchangedOnce /\ LogoutEnds /\ RefusedWithReason
  BY <1>3 DEF OneHolder, ExchangedOnce, Exchanged, LogoutEnds, RefusedWithReason
<1>6. TenantPermissions
  BY <1>2 DEF Init, TenantPermissions
<1>7. WhereRequestsAre
  BY <1>3, Zenon DEF WhereRequestsAre, At, Init
<1>8. WhatRequestsLeave
  BY <1>1, <1>3 DEF WhatRequestsLeave, Init, Issues
<1> QED
  BY <1>4, <1>5, <1>6, <1>7, <1>8 DEF IInv

(* A step that reads and goes on: only the position and the claims of the  *)
(* request change.                                                         *)
LEMMA Move ==
  ASSUME IInv, NEW r \in Requests, NEW l \in (Steps \cup Ended) \ {"idle", "done", "dead"},
         pc[r] \in {"gate", "load", "issue"},
         pc' = [pc EXCEPT ![r] = l],
         UNCHANGED <<account, row, denied, req, locks, writing, held, history>>,
         tok' \in [Pairs -> [org : Orgs \cup {Null}, perms : Profiles \cup {Null}]],
         \A p \in Pairs : tok'[p].perms # Null => OrgOf[tok'[p].perms] = tok'[p].org,
         l \notin {"denyrefresh", "commit"},
         l = "issue" => req[r].op = "login",
         l = "denyaccess" => req[r].op \in {"switch", "logout"},
         l = "update" => req[r].op = "refresh",
         l = "write" => req[r].op \in Changing,
         l = "answer" => req[r].op \notin {"refresh", "logout"},
         req[r].op = "profile" /\ l \in {"write", "answer"} => OrgOf[req[r].new] = req[r].arg,
         pc[r] = "gate" => (l = "unauthorized" <=> Denied(r)),
         pc[r] # "gate" => l \notin {"gate", "unauthorized"}
  PROVE  IInv'
<1> USE DEF IInv, account, denied, history
<1>1. TypeOK'
  BY DEF TypeOK, Hashes
<1>2. \A q \in Requests : pc'[q] = IF q = r THEN l ELSE pc[q]
  BY DEF TypeOK
<1>3. /\ locks[r] = Null /\ r \notin writing /\ pc[r] # "done"
  BY DEF WhereRequestsAre, At, Ended
<1>4. OneHolder'
  BY DEF OneHolder
<1>5. ExchangedOnce'
  BY <1>2 DEF ExchangedOnce, Exchanged
<1>6. TenantPermissions'
  BY DEF TenantPermissions
<1>7. \A q \in Requests : Admitted(q) => Admitted(q)'
  BY <1>2 DEF Admitted, Ended
<1>8. LogoutEnds'
  <2> SUFFICES ASSUME NEW q \in Requests, NEW p \in late[q], UsesTokenOf(q, p)
               PROVE  pc'[q] \in {"gate", "unauthorized", "dead"}
    BY DEF LogoutEnds, UsesTokenOf
  <2>1. CASE q # r
    BY <1>2, <2>1 DEF LogoutEnds
  <2>2. CASE q = r
    <3>1. pc[r] = "gate"
      BY <2>2 DEF LogoutEnds, Ended
    <3>2. p \in ended
      BY DEF WhatRequestsLeave
    <3>3. /\ req[r].op = "refresh" => req[r].cookie \in deniedRefresh
          /\ req[r].op # "refresh" => req[r].access \in deniedAccess
      BY <2>2, <3>2, Asked, NullOut DEF WhatRequestsLeave, UsesTokenOf
    <3>4. Denied(r)
      BY <3>3 DEF Denied
    <3> QED
      BY <1>2, <2>2, <3>1, <3>4
  <2> QED
    BY <2>1, <2>2
<1>9. RefusedWithReason'
  <2> SUFFICES ASSUME NEW q \in Requests, pc'[q] = "unauthorized", q \notin early
               PROVE  \E p \in Requests \ {q} : Revokes(p, q) /\ Admitted(p)'
    BY DEF RefusedWithReason, Revokes
  <2>1. CASE q # r
    BY <1>2, <1>7, <2>1 DEF RefusedWithReason
  <2>2. CASE q = r
    <3>1. pc[r] = "gate" /\ Denied(r)
      BY <1>2, <2>2
    <3>2. PICK p \in Requests : Revokes(p, r) /\ Admitted(p)
      BY <3>1 DEF Denied, WhatRequestsLeave, Revokes
    <3>3. p # r
      BY <3>1, <3>2 DEF Admitted
    <3> QED
      BY <1>7, <2>2, <3>2, <3>3
  <2> QED
    BY <2>1, <2>2
<1>10. WhereRequestsAre'
  <2>1. req[r].op = "refresh" => req[r].cookie # Null
    BY Asked, NullOut
  <2> QED
    BY <1>2, <1>3, <2>1 DEF WhereRequestsAre, At, Ended, Steps
<1>11. WhatRequestsLeave'
  <2>1. \A q \in Requests : pc'[q] = "done" <=> pc[q] = "done"
    BY <1>2, <1>3
  <2> QED
    BY <1>7, <2>1 DEF WhatRequestsLeave, At, Issues
<1> QED
  BY <1>1, <1>4, <1>5, <1>6, <1>8, <1>9, <1>10, <1>11

LEMMA BeginStep == ASSUME IInv, NEW r \in Requests, Begin(r) PROVE IInv'
<1> USE DEF IInv, account, denied
<1>1. PICK x :
        /\ x \in Inputs(held)
        /\ req' = [req EXCEPT ![r] = x]
        /\ Goto(r, IF x.op \in Bearer \cup {"refresh"} THEN "gate" ELSE "load")
        /\ early' = IF x.op = "refresh" /\ row[x.cookie] = "none" THEN early \cup {r} ELSE early
  BY DEF Begin
<1>2. /\ pc[r] = "idle" /\ late' = [late EXCEPT ![r] = ended]
      /\ UNCHANGED <<account, row, denied, tok, locks, writing, held, ended>>
  BY DEF Begin
<1>3. req[r] = Idle /\ req[r].op = "none"
  BY <1>2 DEF WhereRequestsAre, Idle
<1>4. PICK l \in {"gate", "load"} :
        /\ pc' = [pc EXCEPT ![r] = l]
        /\ l = "gate" <=> x.op \in Bearer \cup {"refresh"}
  BY <1>1 DEF Goto
<1>5. x \in Inputs(Pairs) /\ x # Idle /\ x.op # "none"
  BY <1>1 DEF Inputs, Ask, Idle, No, TypeOK
<1>6. TypeOK'
  <2>1. req' \in [Requests -> Inputs(Pairs) \cup {Idle}]
    BY <1>1, <1>5 DEF TypeOK
  <2>2. pc' \in [Requests -> Steps \cup Ended] /\ late' \in [Requests -> SUBSET Requests]
    BY <1>2, <1>4 DEF TypeOK, Steps
  <2> QED
    BY <1>1, <1>2, <2>1, <2>2 DEF TypeOK, Hashes
<1>7. \A q \in Requests : /\ q # r => req'[q] = req[q] /\ pc'[q] = pc[q] /\ late'[q] = late[q]
                          /\ q = r => req'[q] = x /\ pc'[q] = l /\ late'[q] = ended
  BY <1>1, <1>2, <1>4 DEF TypeOK
<1>8. locks[r] = Null /\ r \notin writing /\ r \notin ended
  BY <1>2, <1>3 DEF WhereRequestsAre, WhatRequestsLeave, At
<1>9. OneHolder' /\ TenantPermissions'
  BY <1>2, <1>7, <1>8 DEF OneHolder, TenantPermissions
<1>10. ExchangedOnce'
  BY <1>2, <1>7 DEF ExchangedOnce, Exchanged
<1>11. LogoutEnds'
  <2> SUFFICES ASSUME NEW q \in Requests, NEW p \in late'[q], UsesTokenOf(q, p)'
               PROVE  pc'[q] \in {"gate", "unauthorized", "dead"}
    BY DEF LogoutEnds
  <2>1. CASE q = r
    <3>1. x.op \in Bearer \cup {"refresh"}
      BY <1>7, <2>1 DEF UsesTokenOf
    <3> QED
      BY <1>4, <1>7, <2>1, <3>1
  <2>2. CASE q # r
    <3>1. p \in late[q] /\ p \in Requests /\ p # r
      BY <1>7, <1>8, <2>2 DEF WhatRequestsLeave, TypeOK
    <3>2. UsesTokenOf(q, p)
      BY <1>7, <2>2, <3>1 DEF UsesTokenOf
    <3> QED
      BY <1>7, <2>2, <3>1, <3>2 DEF LogoutEnds
  <2> QED
    BY <2>1, <2>2
<1>12. RefusedWithReason'
  <2> SUFFICES ASSUME NEW q \in Requests, pc'[q] = "unauthorized", q \notin early'
               PROVE  \E p \in Requests \ {q} : Revokes(p, q)' /\ Admitted(p)'
    BY DEF RefusedWithReason
  <2>1. q # r /\ pc[q] = "unauthorized" /\ q \notin early
    BY <1>1, <1>7
  <2>2. PICK p \in Requests \ {q} : Revokes(p, q) /\ Admitted(p)
    BY <2>1 DEF RefusedWithReason
  <2>3. p # r
    BY <1>2, <2>2 DEF Admitted
  <2> QED
    BY <1>7, <2>1, <2>2, <2>3 DEF Revokes, Admitted
<1>13. WhereRequestsAre'
  <2> SUFFICES ASSUME NEW q \in Requests
               PROVE  WhereRequestsAre!(q)'
    BY DEF WhereRequestsAre
  <2>1. CASE q = r
    BY <1>2, <1>5, <1>7, <1>8, <2>1 DEF WhereRequestsAre, At
  <2>2. CASE q # r
    BY <1>2, <1>7, <2>2 DEF WhereRequestsAre, At
  <2> QED
    BY <2>1, <2>2
<1>14. WhatRequestsLeave'
  <2>1. \A q \in Requests : Admitted(q) => q # r /\ Admitted(q)'
    BY <1>2, <1>7 DEF Admitted
  <2>2. \A q \in Requests : row[q] # "none" <=> Issues(q)' /\ pc'[q] = "done"
    BY <1>2, <1>3, <1>7 DEF WhatRequestsLeave, Issues
  <2>3. \A p \in Pairs : row[p] = "revoked" =>
          \E q \in Requests : At(q, {"refresh", "logout"}, {"done"})' /\ req'[q].cookie = p
    BY <1>2, <1>7 DEF WhatRequestsLeave, At
  <2>4. \A p \in deniedAccess :
          \E q \in Requests : /\ req'[q].op \in {"switch", "logout"} /\ req'[q].access = p
                              /\ Admitted(q)'
    BY <1>7, <2>1 DEF WhatRequestsLeave
  <2>5. \A p \in deniedRefresh :
          \E q \in Requests : req'[q].op = "logout" /\ req'[q].cookie = p /\ Admitted(q)'
    BY <1>7, <2>1 DEF WhatRequestsLeave
  <2>6. \A q \in ended : /\ req'[q].op = "logout" /\ req'[q].access \in deniedAccess
                         /\ req'[q].cookie # Null => req'[q].cookie \in deniedRefresh
    BY <1>7, <1>8 DEF WhatRequestsLeave, TypeOK
  <2>7. \A q \in Requests : late'[q] \subseteq ended
    BY <1>7 DEF WhatRequestsLeave
  <2>8. \A q \in Requests \ early' : req'[q].op = "refresh" => row[req'[q].cookie] # "none"
    BY <1>1, <1>7 DEF WhatRequestsLeave
  <2> QED
    BY <1>2, <2>2, <2>3, <2>4, <2>5, <2>6, <2>7, <2>8 DEF WhatRequestsLeave
<1> QED
  BY <1>6, <1>9, <1>10, <1>11, <1>12, <1>13, <1>14

LEMMA DenyAccessStep == ASSUME IInv, NEW r \in Requests, DenyAccess(r) PROVE IInv'
<1> USE DEF IInv, account, history
<1>1. PICK l \in {"update", "answer"} :
        /\ pc' = [pc EXCEPT ![r] = l]
        /\ l = "update" <=> req[r].op = "logout" /\ req[r].cookie # Null
  BY DEF DenyAccess, Goto
<1>2. /\ pc[r] = "denyaccess" /\ deniedAccess' = deniedAccess \cup {req[r].access}
      /\ UNCHANGED <<account, row, deniedRefresh, tok, req, locks, writing, held, history>>
  BY DEF DenyAccess
<1>3. req[r].op \in {"switch", "logout"} /\ req[r].access \in Pairs
  BY <1>2, Asked DEF WhereRequestsAre, Bearer
<1>4. TypeOK'
  BY <1>1, <1>2, <1>3 DEF TypeOK, Steps, Hashes
<1>5. \A q \in Requests : pc'[q] = IF q = r THEN l ELSE pc[q]
  BY <1>1 DEF TypeOK
<1>6. OneHolder' /\ ExchangedOnce' /\ TenantPermissions'
  BY <1>2, <1>5 DEF OneHolder, ExchangedOnce, Exchanged, TenantPermissions
<1>7. \A q \in Requests : Admitted(q)' <=> Admitted(q)
  BY <1>2, <1>5 DEF Admitted
<1>8. LogoutEnds'
  BY <1>2, <1>5 DEF LogoutEnds, UsesTokenOf
<1>9. RefusedWithReason'
  BY <1>2, <1>5, <1>7 DEF RefusedWithReason, Revokes
<1>10. WhereRequestsAre'
  <2> SUFFICES ASSUME NEW q \in Requests
               PROVE  WhereRequestsAre!(q)'
    BY DEF WhereRequestsAre
  <2>1. CASE q = r
    BY <1>1, <1>2, <1>3, <1>5, <2>1 DEF WhereRequestsAre, At, Changing
  <2>2. CASE q # r
    BY <1>2, <1>5, <2>2 DEF WhereRequestsAre, At
  <2> QED
    BY <2>1, <2>2
<1>11. WhatRequestsLeave'
  <2>1. Admitted(r)'
    BY <1>5 DEF Admitted
  <2>2. \A q \in Requests : pc'[q] = "done" <=> pc[q] = "done"
    BY <1>2, <1>5
  <2> QED
    BY <1>2, <1>3, <1>7, <2>1, <2>2 DEF WhatRequestsLeave, At, Issues
<1> QED
  BY <1>4, <1>6, <1>8, <1>9, <1>10, <1>11

LEMMA DenyRefreshStep == ASSUME IInv, NEW r \in Requests, DenyRefresh(r) PROVE IInv'
<1> USE DEF IInv, account, history
<1>1. /\ pc[r] = "denyrefresh" /\ deniedRefresh' = deniedRefresh \cup {req[r].cookie}
      /\ pc' = [pc EXCEPT ![r] = "answer"]
      /\ UNCHANGED <<account, row, deniedAccess, tok, req, locks, writing, held, history>>
  BY DEF DenyRefresh, Goto, CookieOf
<1>2. req[r].op = "logout" /\ req[r].cookie \in Pairs
  BY <1>1, Asked DEF WhereRequestsAre
<1>3. TypeOK'
  BY <1>1, <1>2 DEF TypeOK, Steps, Hashes
<1>4. \A q \in Requests : pc'[q] = IF q = r THEN "answer" ELSE pc[q]
  BY <1>1 DEF TypeOK
<1>5. OneHolder' /\ ExchangedOnce' /\ TenantPermissions'
  BY <1>1, <1>4 DEF OneHolder, ExchangedOnce, Exchanged, TenantPermissions
<1>6. \A q \in Requests : Admitted(q)' <=> Admitted(q)
  BY <1>1, <1>4 DEF Admitted
<1>7. LogoutEnds'
  BY <1>1, <1>4 DEF LogoutEnds, UsesTokenOf
<1>8. RefusedWithReason'
  BY <1>1, <1>4, <1>6 DEF RefusedWithReason, Revokes
<1>9. WhereRequestsAre'
  <2> SUFFICES ASSUME NEW q \in Requests
               PROVE  WhereRequestsAre!(q)'
    BY DEF WhereRequestsAre
  <2>1. CASE q = r
    BY <1>1, <1>2, <1>4, <2>1 DEF WhereRequestsAre, At, Changing
  <2>2. CASE q # r
    BY <1>1, <1>4, <2>2 DEF WhereRequestsAre, At
  <2> QED
    BY <2>1, <2>2
<1>10. WhatRequestsLeave'
  <2>1. Admitted(r)'
    BY <1>4 DEF Admitted
  <2>2. \A q \in Requests : pc'[q] = "done" <=> pc[q] = "done"
    BY <1>1, <1>4
  <2> QED
    BY <1>1, <1>2, <1>6, <2>1, <2>2 DEF WhatRequestsLeave, At, Issues
<1> QED
  BY <1>3, <1>5, <1>7, <1>8, <1>9, <1>10

LEMMA RotateStep == ASSUME IInv, NEW r \in Requests, Rotate(r) PROVE IInv'
<1> USE DEF IInv, account, denied, history
<1> DEFINE c == req[r].cookie
<1>1. /\ pc[r] = "update" /\ req[r].op = "refresh" /\ Free(r, c)
      /\ UNCHANGED <<account, row, denied, req, writing, held, history>>
  BY DEF Rotate
<1>2. c \in Pairs /\ c # Null /\ locks[r] = Null /\ r \notin writing
  BY <1>1, Asked DEF WhereRequestsAre, At
<1> HIDE DEF c
<1>3. CASE row[c] = "active"
  <2>1. /\ locks' = [locks EXCEPT ![r] = c] /\ pc' = [pc EXCEPT ![r] = "answer"]
        /\ tok' = [tok EXCEPT ![r] = [org |-> tok[c].org, perms |-> Null]]
    BY <1>3 DEF Rotate, Unrevoked, Goto, c
  <2>2. TypeOK'
    <3>1. tok' \in [Pairs -> [org : Orgs \cup {Null}, perms : Profiles \cup {Null}]]
      BY <1>2, <2>1 DEF TypeOK
    <3> QED
      BY <1>1, <1>2, <2>1, <3>1 DEF TypeOK, Steps, Hashes
  <2>3. \A q \in Requests : /\ pc'[q] = IF q = r THEN "answer" ELSE pc[q]
                            /\ locks'[q] = IF q = r THEN c ELSE locks[q]
    BY <2>1 DEF TypeOK
  <2>4. OneHolder'
    BY <1>1, <1>2, <1>3, <2>3 DEF OneHolder, Free, c
  <2>5. ExchangedOnce'
    BY <1>1, <2>3 DEF ExchangedOnce, Exchanged
  <2>6. TenantPermissions'
    BY <1>1, <1>2, <2>1 DEF TenantPermissions, TypeOK, Pairs
  <2>7. \A q \in Requests : Admitted(q)' <=> Admitted(q)
    BY <1>1, <2>3 DEF Admitted
  <2>8. LogoutEnds' /\ RefusedWithReason'
    BY <1>1, <2>3, <2>7 DEF LogoutEnds, UsesTokenOf, RefusedWithReason, Revokes
  <2>9. WhereRequestsAre'
    <3> SUFFICES ASSUME NEW q \in Requests
                 PROVE  WhereRequestsAre!(q)'
      BY DEF WhereRequestsAre
    <3>1. CASE q = r
      BY <1>1, <1>2, <2>3, <3>1 DEF WhereRequestsAre, At, Changing, c, Idle
    <3>2. CASE q # r
      BY <1>1, <2>3, <3>2 DEF WhereRequestsAre, At
    <3> QED
      BY <3>1, <3>2
  <2>10. WhatRequestsLeave'
    <3>1. \A q \in Requests : pc'[q] = "done" <=> pc[q] = "done"
      BY <1>1, <2>3
    <3> QED
      BY <1>1, <2>7, <3>1 DEF WhatRequestsLeave, At, Issues
  <2> QED
    BY <2>2, <2>4, <2>5, <2>6, <2>8, <2>9, <2>10
<1>4. CASE row[c] # "active"
  <2>1. /\ pc' = [pc EXCEPT ![r] = "unauthorized"] /\ UNCHANGED <<locks, tok>>
    BY <1>4 DEF Rotate, Unrevoked, Goto, c
  <2>2. TypeOK'
    BY <1>1, <2>1 DEF TypeOK, Ended, Hashes
  <2>3. \A q \in Requests : pc'[q] = IF q = r THEN "unauthorized" ELSE pc[q]
    BY <2>1 DEF TypeOK
  <2>4. OneHolder' /\ ExchangedOnce' /\ TenantPermissions'
    BY <1>1, <2>1, <2>3 DEF OneHolder, ExchangedOnce, Exchanged, TenantPermissions
  <2>5. LogoutEnds'
    BY <1>1, <2>3 DEF LogoutEnds, UsesTokenOf
  <2>6. \A q \in Requests \ {r} : Admitted(q)' <=> Admitted(q)
    BY <2>3 DEF Admitted
  (* Whoever was refused because of r has the reason that r now has.       *)
  <2>7. RefusedWithReason'
    <3> SUFFICES ASSUME NEW q \in Requests, pc'[q] = "unauthorized", q \notin early
                 PROVE  \E p \in Requests \ {q} : Revokes(p, q) /\ Admitted(p)'
      BY <1>1 DEF RefusedWithReason, Revokes
    <3>1. \/ q = r
          \/ \E p \in Requests \ {q, r} : Revokes(p, q) /\ Admitted(p)
          \/ q # r /\ Revokes(r, q)
      BY <2>3 DEF RefusedWithReason
    <3>2. CASE \E p \in Requests \ {q, r} : Revokes(p, q) /\ Admitted(p)
      BY <2>6, <3>2
    <3>3. CASE q = r \/ (q # r /\ Revokes(r, q))
      <4>1. req[q].op = "refresh" /\ req[q].cookie = c
        BY <1>1, <3>3 DEF Revokes, c
      <4>2. row[c] = "revoked"
        BY <1>2, <1>4, <4>1 DEF WhatRequestsLeave, TypeOK
      <4>3. PICK p \in Requests : At(p, {"refresh", "logout"}, {"done"}) /\ req[p].cookie = c
        BY <1>2, <4>2 DEF WhatRequestsLeave
      <4>4. p # q /\ p # r
        BY <1>1, <2>3, <4>3 DEF At
      <4> QED
        BY <2>3, <4>1, <4>3, <4>4 DEF At, Revokes, Admitted
    <3> QED
      BY <3>1, <3>2, <3>3
  <2>8. WhereRequestsAre'
    <3> SUFFICES ASSUME NEW q \in Requests
                 PROVE  WhereRequestsAre!(q)'
      BY DEF WhereRequestsAre
    <3>1. CASE q = r
      BY <1>1, <1>2, <2>1, <2>3, <3>1 DEF WhereRequestsAre, At
    <3>2. CASE q # r
      BY <1>1, <2>1, <2>3, <3>2 DEF WhereRequestsAre, At
    <3> QED
      BY <3>1, <3>2
  <2>9. WhatRequestsLeave'
    <3>1. \A q \in Requests : pc'[q] = "done" <=> pc[q] = "done"
      BY <1>1, <2>3
    <3>2. \A q \in Requests : req[q].op \in {"switch", "logout"} => (Admitted(q)' <=> Admitted(q))
      BY <1>1, <2>6
    <3> QED
      BY <1>1, <3>1, <3>2 DEF WhatRequestsLeave, At, Issues
  <2> QED
    BY <2>2, <2>4, <2>5, <2>7, <2>8, <2>9
<1> QED
  BY <1>3, <1>4

LEMMA RevokeStep == ASSUME IInv, NEW r \in Requests, Revoke(r) PROVE IInv'
<1> USE DEF IInv, account, denied, history
<1> DEFINE c == req[r].cookie
<1>1. /\ pc[r] = "update" /\ req[r].op = "logout" /\ Free(r, c)
      /\ locks' = [locks EXCEPT ![r] = IF row[c] = "active" THEN c ELSE Null]
      /\ pc' = [pc EXCEPT ![r] = "denyrefresh"]
      /\ UNCHANGED <<account, row, denied, tok, req, writing, held, history>>
  BY DEF Revoke, Unrevoked, Goto
<1>2. c \in Pairs /\ c # Null /\ locks[r] = Null /\ r \notin writing
  BY <1>1, Asked DEF WhereRequestsAre, At
<1> HIDE DEF c
<1>3. TypeOK'
  BY <1>1, <1>2 DEF TypeOK, Steps, Hashes
<1>4. \A q \in Requests :
        /\ pc'[q] = IF q = r THEN "denyrefresh" ELSE pc[q]
        /\ q # r => locks'[q] = locks[q]
        /\ q = r => locks'[q] = IF row[c] = "active" THEN c ELSE Null
  BY <1>1 DEF TypeOK
<1>5. OneHolder'
  BY <1>1, <1>2, <1>4 DEF OneHolder, Free, c
<1>6. ExchangedOnce' /\ TenantPermissions'
  BY <1>1, <1>4 DEF ExchangedOnce, Exchanged, TenantPermissions
<1>7. \A q \in Requests : Admitted(q)' <=> Admitted(q)
  BY <1>1, <1>4 DEF Admitted
<1>8. LogoutEnds' /\ RefusedWithReason'
  BY <1>1, <1>4, <1>7 DEF LogoutEnds, UsesTokenOf, RefusedWithReason, Revokes
<1>9. WhereRequestsAre'
  <2> SUFFICES ASSUME NEW q \in Requests
               PROVE  WhereRequestsAre!(q)'
    BY DEF WhereRequestsAre
  <2>1. CASE q = r
    BY <1>1, <1>2, <1>4, <2>1 DEF WhereRequestsAre, At, c
  <2>2. CASE q # r
    BY <1>1, <1>4, <2>2 DEF WhereRequestsAre, At
  <2> QED
    BY <2>1, <2>2
<1>10. WhatRequestsLeave'
  <2>1. \A q \in Requests : pc'[q] = "done" <=> pc[q] = "done"
    BY <1>1, <1>4
  <2> QED
    BY <1>1, <1>7, <2>1 DEF WhatRequestsLeave, At, Issues
<1> QED
  BY <1>3, <1>5, <1>6, <1>8, <1>9, <1>10

LEMMA WriteStep == ASSUME IInv, NEW r \in Requests, Write(r) PROVE IInv'
<1> USE DEF IInv, account, denied, history
<1>1. /\ pc[r] = "write" /\ writing' = writing \cup {r}
      /\ pc' = [pc EXCEPT ![r] = "answer"]
      /\ UNCHANGED <<account, row, denied, tok, req, locks, held, history>>
  BY DEF Write, Goto
<1>2. req[r].op \in Changing
  BY <1>1 DEF WhereRequestsAre
<1>3. TypeOK'
  BY <1>1 DEF TypeOK, Steps, Hashes
<1>4. \A q \in Requests : pc'[q] = IF q = r THEN "answer" ELSE pc[q]
  BY <1>1 DEF TypeOK
<1>5. OneHolder' /\ ExchangedOnce' /\ TenantPermissions'
  BY <1>1, <1>4 DEF OneHolder, ExchangedOnce, Exchanged, TenantPermissions
<1>6. \A q \in Requests : Admitted(q)' <=> Admitted(q)
  BY <1>1, <1>4 DEF Admitted
<1>7. LogoutEnds' /\ RefusedWithReason'
  BY <1>1, <1>4, <1>6 DEF LogoutEnds, UsesTokenOf, RefusedWithReason, Revokes
<1>8. WhereRequestsAre'
  <2> SUFFICES ASSUME NEW q \in Requests
               PROVE  WhereRequestsAre!(q)'
    BY DEF WhereRequestsAre
  <2>1. CASE q = r
    BY <1>1, <1>2, <1>4, <2>1 DEF WhereRequestsAre, At, Changing
  <2>2. CASE q # r
    BY <1>1, <1>4, <2>2 DEF WhereRequestsAre, At
  <2> QED
    BY <2>1, <2>2
<1>9. WhatRequestsLeave'
  <2>1. \A q \in Requests : pc'[q] = "done" <=> pc[q] = "done"
    BY <1>1, <1>4
  <2> QED
    BY <1>1, <1>6, <2>1 DEF WhatRequestsLeave, At, Issues
<1> QED
  BY <1>3, <1>5, <1>7, <1>8, <1>9

LEMMA AnswerStep == ASSUME IInv, NEW r \in Requests, Answer(r) PROVE IInv'
<1> USE DEF IInv, account, denied
<1>1. /\ pc[r] = "answer" /\ pc' = [pc EXCEPT ![r] = "commit"]
      /\ held' = IF Issues(r) THEN held \cup {r} ELSE held
      /\ ended' = IF req[r].op = "logout" THEN ended \cup {r} ELSE ended
      /\ UNCHANGED <<account, row, denied, tok, req, locks, writing, late, early>>
  BY DEF Answer, Goto
<1>2. TypeOK'
  BY <1>1 DEF TypeOK, Steps, Hashes, Pairs
<1>3. \A q \in Requests : pc'[q] = IF q = r THEN "commit" ELSE pc[q]
  BY <1>1 DEF TypeOK
<1>4. OneHolder' /\ ExchangedOnce' /\ TenantPermissions'
  BY <1>1, <1>3 DEF OneHolder, ExchangedOnce, Exchanged, TenantPermissions
<1>5. \A q \in Requests : Admitted(q)' <=> Admitted(q)
  BY <1>1, <1>3 DEF Admitted
<1>6. LogoutEnds' /\ RefusedWithReason'
  BY <1>1, <1>3, <1>5 DEF LogoutEnds, UsesTokenOf, RefusedWithReason, Revokes
<1>7. WhereRequestsAre'
  <2> SUFFICES ASSUME NEW q \in Requests
               PROVE  WhereRequestsAre!(q)'
    BY DEF WhereRequestsAre
  <2>1. CASE q = r
    BY <1>1, <1>3, <2>1 DEF WhereRequestsAre, At
  <2>2. CASE q # r
    BY <1>1, <1>3, <2>2 DEF WhereRequestsAre, At
  <2> QED
    BY <2>1, <2>2
<1>8. WhatRequestsLeave'
  <2>1. \A q \in Requests : pc'[q] = "done" <=> pc[q] = "done"
    BY <1>1, <1>3
  <2>2. req[r].op = "logout" => /\ req[r].access \in deniedAccess
                                /\ req[r].cookie # Null => req[r].cookie \in deniedRefresh
    BY <1>1 DEF WhereRequestsAre, At
  <2> QED
    BY <1>1, <1>5, <2>1, <2>2 DEF WhatRequestsLeave, At, Issues
<1> QED
  BY <1>2, <1>4, <1>6, <1>7, <1>8

LEMMA DieStep == ASSUME IInv, NEW r \in Requests, Die(r) PROVE IInv'
<1> USE DEF IInv, account, denied, history
<1>1. /\ pc[r] \notin Ended \cup {"idle"} /\ pc' = [pc EXCEPT ![r] = "dead"]
      /\ locks' = [locks EXCEPT ![r] = Null] /\ writing' = writing \ {r}
      /\ UNCHANGED <<account, row, denied, tok, req, held, history>>
  BY DEF Die, Goto, Released
<1>2. TypeOK'
  BY <1>1 DEF TypeOK, Ended, Hashes
<1>3. \A q \in Requests : /\ pc'[q] = IF q = r THEN "dead" ELSE pc[q]
                          /\ locks'[q] = IF q = r THEN Null ELSE locks[q]
  BY <1>1 DEF TypeOK
<1>4. OneHolder' /\ ExchangedOnce' /\ TenantPermissions'
  BY <1>1, <1>3 DEF OneHolder, ExchangedOnce, Exchanged, TenantPermissions
<1>5. \A q \in Requests : Admitted(q) => Admitted(q)'
  BY <1>3 DEF Admitted
<1>6. LogoutEnds' /\ RefusedWithReason'
  BY <1>1, <1>3, <1>5 DEF LogoutEnds, UsesTokenOf, RefusedWithReason, Revokes
<1>7. WhereRequestsAre'
  <2> SUFFICES ASSUME NEW q \in Requests
               PROVE  WhereRequestsAre!(q)'
    BY DEF WhereRequestsAre
  <2>1. CASE q = r
    BY <1>1, <1>3, <2>1 DEF WhereRequestsAre, At
  <2>2. CASE q # r
    BY <1>1, <1>3, <2>2 DEF WhereRequestsAre, At
  <2> QED
    BY <2>1, <2>2
<1>8. WhatRequestsLeave'
  <2>1. \A q \in Requests : pc'[q] = "done" <=> pc[q] = "done"
    BY <1>1, <1>3 DEF Ended
  <2> QED
    BY <1>1, <1>5, <2>1 DEF WhatRequestsLeave, At, Issues
<1> QED
  BY <1>2, <1>4, <1>6, <1>7, <1>8

(* What a commit does to the sessions: r has a lock only as a refresh or a *)
(* logout, on the active session of its cookie.                            *)
LEMMA Committed ==
  ASSUME IInv, NEW r \in Requests, Commit(r)
  PROVE  /\ pc[r] = "commit" /\ row[r] = "none" /\ locks[r] # r
         /\ \A p \in Pairs : row'[p] = IF p = r /\ Issues(r) THEN "active"
                                       ELSE IF p = locks[r] THEN "revoked" ELSE row[p]
         /\ locks[r] # Null => /\ req[r].op \in {"refresh", "logout"}
                               /\ locks[r] = req[r].cookie /\ row[locks[r]] = "active"
         /\ req[r].op = "refresh" => locks[r] = req[r].cookie /\ locks[r] \in Pairs
<1> USE DEF IInv
<1>1. pc[r] = "commit" /\ row[r] = "none"
  BY DEF Commit, WhatRequestsLeave
<1>2. \A p \in Pairs : row'[p] = IF p = r /\ Issues(r) THEN "active"
                                ELSE IF p = locks[r] THEN "revoked" ELSE row[p]
  BY DEF Commit, RowAfter, Revoked
<1>3. locks[r] # Null => /\ req[r].op \in {"refresh", "logout"}
                         /\ locks[r] = req[r].cookie /\ row[locks[r]] = "active"
  BY DEF OneHolder, WhereRequestsAre, At
<1>4. req[r].op = "refresh" => locks[r] = req[r].cookie /\ locks[r] \in Pairs
  BY <1>1, Asked DEF WhereRequestsAre, At
<1>5. locks[r] # r
  BY <1>1, <1>3, NullOut DEF Pairs
<1> QED
  BY <1>1, <1>2, <1>3, <1>4, <1>5

LEMMA CommitStep == ASSUME IInv, NEW r \in Requests, Commit(r) PROVE IInv'
<1> USE DEF IInv
<1>1. /\ pc[r] = "commit" /\ row[r] = "none" /\ locks[r] # r
      /\ \A p \in Pairs : row'[p] = IF p = r /\ Issues(r) THEN "active"
                                    ELSE IF p = locks[r] THEN "revoked" ELSE row[p]
      /\ locks[r] # Null => /\ req[r].op \in {"refresh", "logout"}
                            /\ locks[r] = req[r].cookie /\ row[locks[r]] = "active"
      /\ req[r].op = "refresh" => locks[r] = req[r].cookie /\ locks[r] \in Pairs
  BY Committed
<1>2. /\ pc' = [pc EXCEPT ![r] = "done"]
      /\ locks' = [locks EXCEPT ![r] = Null] /\ writing' = writing \ {r}
      /\ row' \in [Pairs -> {"none", "active", "revoked"}]
      /\ UNCHANGED <<deniedAccess, deniedRefresh, tok, req, held, ended, late, early>>
  <2>1. row' = [p \in Pairs |-> RowAfter(r, p)]
    BY DEF Commit
  <2>2. \A p \in Pairs : RowAfter(r, p) \in {"none", "active", "revoked"}
    BY DEF RowAfter, TypeOK
  <2> QED
    BY <2>1, <2>2 DEF Commit, Goto, Released, denied, history
<1>3. \A q \in Requests : /\ pc'[q] = IF q = r THEN "done" ELSE pc[q]
                          /\ locks'[q] = IF q = r THEN Null ELSE locks[q]
  BY <1>2 DEF TypeOK
<1>4. /\ status' \in {"active", "locked"} /\ password' \in Hashes
      /\ profile' \in [Orgs -> Profiles \cup {Null}]
      /\ \A o \in Orgs : profile'[o] # Null => OrgOf[profile'[o]] = o
  <2>1. CASE r \notin writing
    BY <2>1 DEF Commit, account, TypeOK, TenantPermissions
  <2>2. CASE r \in writing
    <3>1. CommitAccount(r)
      BY <2>2 DEF Commit
    <3>2. status' \in {"active", "locked"}
      BY <3>1 DEF CommitAccount, TypeOK
    <3>3. password' \in Hashes
      BY <3>1, Asked DEF CommitAccount, TypeOK, Hashes
    <3>4. CASE req[r].op = "profile"
      <4>1. profile' = [profile EXCEPT ![req[r].arg] = req[r].new]
        BY <3>1, <3>4 DEF CommitAccount
      <4>2. req[r].arg \in Orgs /\ req[r].new \in Profiles /\ OrgOf[req[r].new] = req[r].arg
        BY <1>1, <3>4, Asked DEF WhereRequestsAre
      <4> QED
        BY <3>2, <3>3, <4>1, <4>2 DEF TypeOK, TenantPermissions
    <3>5. CASE req[r].op # "profile"
      BY <3>1, <3>2, <3>3, <3>5 DEF CommitAccount, TypeOK, TenantPermissions
    <3> QED
      BY <3>4, <3>5
  <2> QED
    BY <2>1, <2>2
<1>5. TypeOK'
  BY <1>2, <1>4 DEF TypeOK, Ended, Hashes
<1>6. OneHolder'
  BY <1>1, <1>2, <1>3, NullOut DEF OneHolder, TypeOK, Pairs
<1>7. ExchangedOnce'
  <2> SUFFICES ASSUME NEW q \in Requests, Exchanged(q)'
               PROVE  /\ row'[req[q].cookie] = "revoked"
                      /\ \A p \in Requests \ {q} : Exchanged(p)' => req[p].cookie # req[q].cookie
    BY <1>2 DEF ExchangedOnce
  <2>1. \A p \in Requests : Exchanged(p)' => Exchanged(p) \/ (p = r /\ req[r].op = "refresh")
    BY <1>2, <1>3 DEF Exchanged
  <2>2. \A p \in Requests : Exchanged(p) => row[req[p].cookie] = "revoked" /\ req[p].cookie \in Pairs
    BY Asked DEF ExchangedOnce, Exchanged
  <2>3. \A p \in Requests : Exchanged(p) => row'[req[p].cookie] = "revoked"
    BY <1>1, <2>2
  <2>4. req[r].op = "refresh" => row'[req[r].cookie] = "revoked" /\ row[req[r].cookie] = "active"
    BY <1>1, Asked, NullOut
  <2>5. row'[req[q].cookie] = "revoked"
    BY <2>1, <2>3, <2>4
  <2> QED
    BY <2>1, <2>2, <2>4, <2>5 DEF ExchangedOnce
<1>8. TenantPermissions'
  BY <1>2, <1>4 DEF TenantPermissions
<1>9. \A q \in Requests : Admitted(q)' <=> Admitted(q)
  BY <1>1, <1>3 DEF Admitted
<1>10. LogoutEnds' /\ RefusedWithReason'
  BY <1>1, <1>2, <1>3, <1>9 DEF LogoutEnds, UsesTokenOf, RefusedWithReason, Revokes
<1>11. WhereRequestsAre'
  <2> SUFFICES ASSUME NEW q \in Requests
               PROVE  WhereRequestsAre!(q)'
    BY DEF WhereRequestsAre
  <2>1. CASE q = r
    BY <1>1, <1>2, <1>3, <2>1 DEF WhereRequestsAre, At
  <2>2. CASE q # r
    BY <1>1, <1>2, <1>3, <2>2 DEF WhereRequestsAre, At
  <2> QED
    BY <2>1, <2>2
<1>12. WhatRequestsLeave'
  <2>1. \A q \in Requests : row'[q] # "none" <=> Issues(q) /\ pc'[q] = "done"
    <3> SUFFICES ASSUME NEW q \in Requests
                 PROVE  row'[q] # "none" <=> Issues(q) /\ pc'[q] = "done"
      OBVIOUS
    <3>1. q \in Pairs /\ q # Null /\ (row[q] # "none" <=> Issues(q) /\ pc[q] = "done")
      BY NullOut DEF WhatRequestsLeave, Pairs
    <3>2. CASE q = r
      BY <1>1, <1>3, <3>1, <3>2
    <3>3. CASE q # r /\ q = locks[r]
      BY <1>1, <1>3, <3>1, <3>3
    <3>4. CASE q # r /\ q # locks[r]
      BY <1>1, <1>3, <3>1, <3>4
    <3> QED
      BY <3>2, <3>3, <3>4
  <2>2. \A p \in Pairs : row'[p] = "revoked" =>
          \E q \in Requests : At(q, {"refresh", "logout"}, {"done"})' /\ req[q].cookie = p
    <3> SUFFICES ASSUME NEW p \in Pairs, row'[p] = "revoked"
                 PROVE  \E q \in Requests : /\ At(q, {"refresh", "logout"}, {"done"})'
                                            /\ req[q].cookie = p
      OBVIOUS
    <3>1. CASE p = locks[r]
      BY <1>1, <1>2, <1>3, <3>1, NullOut DEF At
    <3>2. CASE p # locks[r]
      <4>1. row[p] = "revoked"
        BY <1>1, <3>2
      <4> QED
        BY <1>2, <1>3, <4>1 DEF WhatRequestsLeave, At
    <3> QED
      BY <3>1, <3>2
  <2>3. \A p \in Pairs : row[p] # "none" => row'[p] # "none"
    BY <1>1
  <2>4. \A q \in Requests \ early : req[q].op = "refresh" => row'[req[q].cookie] # "none"
    BY <2>3, Asked DEF WhatRequestsLeave
  <2> QED
    BY <1>2, <1>9, <2>1, <2>2, <2>4 DEF WhatRequestsLeave, Issues
<1> QED
  BY <1>5, <1>6, <1>7, <1>8, <1>10, <1>11, <1>12

LEMMA TokStep ==
  ASSUME IInv, NEW r \in Requests, NEW o \in Orgs, profile[o] # Null,
         tok' = [tok EXCEPT ![r] = Claims(o)]
  PROVE  /\ tok' \in [Pairs -> [org : Orgs \cup {Null}, perms : Profiles \cup {Null}]]
         /\ \A p \in Pairs : tok'[p].perms # Null => OrgOf[tok'[p].perms] = tok'[p].org
<1>1. /\ Claims(o) \in [org : Orgs \cup {Null}, perms : Profiles \cup {Null}]
      /\ OrgOf[Claims(o).perms] = Claims(o).org
  BY DEF IInv, TypeOK, TenantPermissions, Claims
<1> HIDE DEF Claims
<1> QED
  BY <1>1 DEF IInv, TypeOK, TenantPermissions, Pairs

LEMMA TokSame ==
  ASSUME IInv, UNCHANGED tok
  PROVE  /\ tok' \in [Pairs -> [org : Orgs \cup {Null}, perms : Profiles \cup {Null}]]
         /\ \A p \in Pairs : tok'[p].perms # Null => OrgOf[tok'[p].perms] = tok'[p].org
BY DEF IInv, TypeOK, TenantPermissions

(* The steps that read and go on.                                          *)
LEMMA ReadStep ==
  ASSUME IInv, NEW r \in Requests,
         \/ Gate(r) \/ LoginCheck(r) \/ LoginIssue(r) \/ Switch(r)
         \/ PasswordCheck(r) \/ Reset(r) \/ LoadStatus(r) \/ LoadProfile(r)
  PROVE  IInv'
<1> DEFINE same == UNCHANGED <<account, row, denied, req, locks, writing, held, history>>
<1>1. CASE Gate(r)
  <2> DEFINE l == IF Denied(r) THEN "unauthorized" ELSE AfterGate(req[r].op)
  <2>1. pc[r] = "gate" /\ pc' = [pc EXCEPT ![r] = l] /\ same /\ UNCHANGED tok
    BY <1>1 DEF Gate, Goto
  <2>2. /\ l \in {"unauthorized", "update", "denyaccess", "answer", "load"}
        /\ l = "unauthorized" <=> Denied(r)
        /\ l = "update" => req[r].op = "refresh"
        /\ l = "denyaccess" => req[r].op = "logout"
        /\ l = "answer" => req[r].op = "call"
    BY DEF AfterGate
  <2> HIDE DEF l
  <2> QED
    BY <2>1, <2>2, TokSame, Move DEF Steps, Ended
<1>2. CASE LoginCheck(r)
  <2>1. PICK l \in {"wrong", "refused", "issue"} :
          /\ pc[r] = "load" /\ req[r].op = "login" /\ pc' = [pc EXCEPT ![r] = l]
          /\ same /\ UNCHANGED tok
    BY <1>2 DEF LoginCheck, Goto
  <2> QED
    BY <2>1, TokSame, Move DEF Steps, Ended
<1>3. CASE LoginIssue(r)
  <2>1. PICK l \in {"refused", "answer"} :
          pc[r] = "issue" /\ pc' = [pc EXCEPT ![r] = l] /\ same
    BY <1>3 DEF LoginIssue, Goto
  <2>2. \/ UNCHANGED tok
        \/ \E o \in Orgs : profile[o] # Null /\ tok' = [tok EXCEPT ![r] = Claims(o)]
    BY <1>3 DEF LoginIssue
  <2>3. /\ tok' \in [Pairs -> [org : Orgs \cup {Null}, perms : Profiles \cup {Null}]]
        /\ \A p \in Pairs : tok'[p].perms # Null => OrgOf[tok'[p].perms] = tok'[p].org
    BY <2>2, TokSame, TokStep
  <2>4. req[r].op = "login"
    BY <2>1 DEF IInv, WhereRequestsAre
  <2> QED
    BY <2>1, <2>3, <2>4, Move DEF Steps, Ended
<1>4. CASE Switch(r)
  <2>1. PICK l \in {"refused", "denyaccess"} :
          pc[r] = "load" /\ req[r].op = "switch" /\ pc' = [pc EXCEPT ![r] = l] /\ same
    BY <1>4 DEF Switch, Goto
  <2>2. req[r].arg \in Orgs
    BY <2>1, Asked DEF IInv
  <2>3. \/ UNCHANGED tok
        \/ profile[req[r].arg] # Null /\ tok' = [tok EXCEPT ![r] = Claims(req[r].arg)]
    BY <1>4 DEF Switch
  <2>4. /\ tok' \in [Pairs -> [org : Orgs \cup {Null}, perms : Profiles \cup {Null}]]
        /\ \A p \in Pairs : tok'[p].perms # Null => OrgOf[tok'[p].perms] = tok'[p].org
    BY <2>2, <2>3, TokSame, TokStep
  <2> QED
    BY <2>1, <2>4, Move DEF Steps, Ended
<1>5. CASE PasswordCheck(r) \/ Reset(r)
  <2>1. PICK l \in {"wrong", "refused", "write"} :
          /\ pc[r] = "load" /\ req[r].op \in {"password", "reset"} /\ pc' = [pc EXCEPT ![r] = l]
          /\ same /\ UNCHANGED tok
    BY <1>5 DEF PasswordCheck, Reset, Goto
  <2> QED
    BY <2>1, TokSame, Move DEF Steps, Ended, Changing
<1>6. CASE LoadStatus(r)
  <2>1. PICK l \in {"answer", "write"} :
          /\ pc[r] = "load" /\ req[r].op \in {"lock", "unlock"} /\ pc' = [pc EXCEPT ![r] = l]
          /\ same /\ UNCHANGED tok
    BY <1>6 DEF LoadStatus, Goto
  <2> QED
    BY <2>1, TokSame, Move DEF Steps, Ended, Changing
<1>7. CASE LoadProfile(r)
  <2>1. PICK l \in {"refused", "answer", "write"} :
          /\ pc[r] = "load" /\ req[r].op = "profile" /\ pc' = [pc EXCEPT ![r] = l]
          /\ l # "refused" => OrgOf[req[r].new] = req[r].arg
          /\ same /\ UNCHANGED tok
    BY <1>7 DEF LoadProfile, Goto, InOrg
  <2> QED
    BY <2>1, TokSame, Move DEF Steps, Ended, Changing
<1> QED
  BY <1>1, <1>2, <1>3, <1>4, <1>5, <1>6, <1>7

LEMMA NextIInv == IInv /\ [Next]_vars => IInv'
<1> SUFFICES ASSUME IInv, [Next]_vars PROVE IInv'
  OBVIOUS
<1>1. ASSUME NEW r \in Requests, Begin(r) \/ Step(r) \/ Die(r) PROVE IInv'
  BY <1>1, BeginStep, ReadStep, DenyAccessStep, RotateStep, RevokeStep, DenyRefreshStep,
     WriteStep, AnswerStep, CommitStep, DieStep DEF Step
<1>2. CASE UNCHANGED vars
  BY <1>2 DEF vars, account, denied, history, IInv, TypeOK, OneHolder, ExchangedOnce, Exchanged,
     TenantPermissions, LogoutEnds, UsesTokenOf, RefusedWithReason, Revokes, Admitted,
     WhereRequestsAre, WhatRequestsLeave, At, Issues, Hashes
<1> QED
  BY <1>1, <1>2 DEF Next

-----------------------------------------------------------------------------
(* The inductive invariant of the sessions holds in every reachable state  *)
(* (tokens.py, auth.py).                                                   *)
THEOREM Invariance == Spec => []IInv
BY InitIInv, NextIInv, PTL DEF Spec

(* Every variable keeps its type.                                          *)
THEOREM TypeCorrect == Spec => []TypeOK
<1>1. IInv => TypeOK
  BY DEF IInv
<1> QED
  BY <1>1, Invariance, PTL

(* A refresh token is exchanged once, by whichever requests race for it    *)
(* (rotate_refresh).                                                       *)
THEOREM RotationIsExclusive == Spec => []ExchangedOnce
<1>1. IInv => ExchangedOnce
  BY DEF IInv
<1> QED
  BY <1>1, Invariance, PTL

(* The tokens of an answered logout are refused for good, committed or not *)
(* (logout, get_current_user, rotate_refresh).                             *)
THEOREM LogoutIsFinal == Spec => []LogoutEnds
<1>1. IInv => LogoutEnds
  BY DEF IInv
<1> QED
  BY <1>1, Invariance, PTL

(* A token is refused only for what another request did with it, or before *)
(* its session is committed (is_denied, rotate_refresh).                   *)
THEOREM RefusalHasReason == Spec => []RefusedWithReason
<1>1. IInv => RefusedWithReason
  BY DEF IInv
<1> QED
  BY <1>1, Invariance, PTL

(* The permissions of a token belong to the organization of the token      *)
(* (login, switch_org, patch_user).                                        *)
THEOREM PermissionsStayInTenant == Spec => []TenantPermissions
<1>1. IInv => TenantPermissions
  BY DEF IInv
<1> QED
  BY <1>1, Invariance, PTL

-----------------------------------------------------------------------------
(* The sessions table implements SessionRegister.                          *)
State(p) == CASE row[p] = "none" -> "unknown"
              [] row[p] = "active" -> "active"
              [] OTHER -> "ended"
Before(p) == IF row[p] # "none" /\ Continues(p) THEN req[p].cookie ELSE Null

LEMMA InitRegister == Init => Register!SessionInit
<1> SUFFICES ASSUME Init PROVE Register!SessionInit
  OBVIOUS
<1>1. \A p \in Pairs : row[p] \in {"none", "active"} /\ (p \in Requests => row[p] = "none")
  BY NullOut DEF Init, Pairs
<1> QED
  BY <1>1 DEF Register!SessionInit, Continues

(* Only a commit changes the sessions; what a request is does not change   *)
(* once its session exists.                                                *)
LEMMA QuietStep ==
  ASSUME IInv, NEW r \in Requests, Begin(r) \/ Step(r) \/ Die(r), ~Commit(r)
  PROVE  \A p \in Pairs : UNCHANGED <<State(p), Before(p)>>
<1>1. UNCHANGED row
  BY DEF Begin, Step, Die, Gate, LoginCheck, LoginIssue, Switch, DenyAccess, Rotate, Revoke,
         DenyRefresh, PasswordCheck, Reset, LoadStatus, LoadProfile, Write, Answer, denied
<1>2. \A p \in Requests : row[p] # "none" => req'[p] = req[p]
  <2>1. CASE Begin(r)
    <3>1. row[r] = "none"
      BY <2>1 DEF Begin, IInv, WhatRequestsLeave
    <3>2. PICK x : req' = [req EXCEPT ![r] = x]
      BY <2>1 DEF Begin
    <3> QED
      BY <3>1, <3>2 DEF IInv, TypeOK
  <2>2. CASE ~Begin(r)
    BY <2>2 DEF Step, Die, Gate, LoginCheck, LoginIssue, Switch, DenyAccess, Rotate, Revoke,
         DenyRefresh, PasswordCheck, Reset, LoadStatus, LoadProfile, Write, Answer
  <2> QED
    BY <2>1, <2>2
<1> QED
  BY <1>1, <1>2 DEF State, Before, Continues

LEMMA CommitRegister ==
  ASSUME IInv, NEW r \in Requests, Commit(r)
  PROVE  Register!SessionNext \/ \A p \in Pairs : UNCHANGED <<State(p), Before(p)>>
<1> DEFINE S == [p \in Pairs |-> State(p)]
           F == [p \in Pairs |-> Before(p)]
<1>1. /\ row[r] = "none" /\ locks[r] # r
      /\ \A p \in Pairs : row'[p] = IF p = r /\ Issues(r) THEN "active"
                                    ELSE IF p = locks[r] THEN "revoked" ELSE row[p]
      /\ locks[r] # Null => /\ req[r].op \in {"refresh", "logout"}
                            /\ locks[r] = req[r].cookie /\ row[locks[r]] = "active"
      /\ req[r].op = "refresh" => locks[r] = req[r].cookie /\ locks[r] \in Pairs
  BY Committed
<1>2. req' = req /\ r \in Pairs /\ locks[r] \in Pairs \cup {Null}
  BY DEF Commit, Pairs, IInv, TypeOK
<1>3. \A p \in Pairs : p # r => Before(p)' = Before(p)
  <2>1. \A p \in Pairs : p # r => (row'[p] = "none" <=> row[p] = "none")
    BY <1>1, NullOut
  <2> QED
    BY <1>2, <2>1 DEF Before, Continues
<1>4. CASE req[r].op = "refresh"
  <2>1. State(r) = "unknown" /\ State(locks[r]) = "active" /\ locks[r] \in Pairs
    BY <1>1, <1>4, NullOut DEF State
  <2>2. S' = [S EXCEPT ![locks[r]] = "ended", ![r] = "active"]
    BY <1>1, <1>2, <1>4, <2>1 DEF State, Issues
  <2>3. F' = [F EXCEPT ![r] = locks[r]]
    BY <1>1, <1>2, <1>3, <1>4 DEF Before, Continues, Issues
  <2>4. Register!Exchange(locks[r], r)
    BY <1>2, <2>1, <2>2, <2>3 DEF Register!Exchange, State, Before
  <2> QED
    BY <1>2, <2>1, <2>4 DEF Register!SessionNext
<1>5. CASE req[r].op \in {"login", "switch"}
  <2>1. State(r) = "unknown" /\ locks[r] = Null
    BY <1>1, <1>5 DEF State
  <2>2. S' = [S EXCEPT ![r] = "active"]
    BY <1>1, <1>2, <1>5, <2>1, NullOut DEF State, Issues
  <2>3. F' = F
    BY <1>1, <1>2, <1>3, <1>5 DEF Before, Continues
  <2>4. Register!Open(r)
    BY <1>2, <2>1, <2>2, <2>3 DEF Register!Open, State, Before
  <2> QED
    BY <1>2, <2>4 DEF Register!SessionNext
<1>6. CASE ~Issues(r) /\ locks[r] # Null
  <2>1. State(locks[r]) = "active" /\ locks[r] \in Pairs
    BY <1>1, <1>2, <1>6 DEF State
  <2>2. S' = [S EXCEPT ![locks[r]] = "ended"]
    BY <1>1, <1>2, <1>6, <2>1 DEF State
  <2>3. F' = F
    BY <1>1, <1>2, <1>3, <1>6 DEF Before, Continues, Issues
  <2>4. PICK c \in Pairs : c = locks[r]
    BY <2>1
  <2>5. Register!End(c)
    BY <2>1, <2>2, <2>3, <2>4 DEF Register!End, State, Before
  <2> QED
    BY <2>5 DEF Register!SessionNext
<1>7. CASE ~Issues(r) /\ locks[r] = Null
  <2>1. \A p \in Pairs : row'[p] = row[p]
    BY <1>1, <1>7, NullOut
  <2> QED
    BY <1>2, <2>1 DEF State, Before, Continues
<1> QED
  BY <1>4, <1>5, <1>6, <1>7 DEF Issues

(* Every step of the server is a step of the register or none.             *)
THEOREM Implements == Spec => ImplementsRegister
<1>1. Init => Register!SessionInit
  BY InitRegister
<1>2. ASSUME IInv, [Next]_vars
      PROVE  Register!SessionNext \/ \A p \in Pairs : UNCHANGED <<State(p), Before(p)>>
  <2>1. CASE UNCHANGED vars
    BY <2>1 DEF vars, State, Before, Continues
  <2>2. ASSUME NEW r \in Requests, Begin(r) \/ Step(r) \/ Die(r)
        PROVE  Register!SessionNext \/ \A p \in Pairs : UNCHANGED <<State(p), Before(p)>>
    BY <1>2, <2>2, QuietStep, CommitRegister
  <2> QED
    BY <1>2, <2>1, <2>2 DEF Next
<1>3. ASSUME IInv, [Next]_vars
      PROVE  [Register!SessionNext]_<<[p \in Pairs |-> State(p)], [p \in Pairs |-> Before(p)]>>
  BY <1>2, <1>3
<1>4. IInv /\ [Next]_vars
        => [Register!SessionNext]_<<[p \in Pairs |-> State(p)], [p \in Pairs |-> Before(p)]>>
  BY <1>3
<1> QED
  BY <1>1, <1>4, Invariance, PTL DEF Spec, ImplementsRegister, Register!RegisterSpec, State, Before
=============================================================================

------------------------------ MODULE Sessions ------------------------------
(***************************************************************************)
(* Sessions of one user: access and refresh tokens                         *)
(* (backend/adhkar/auth/tokens.py), the endpoints that issue, exchange and *)
(* revoke them (backend/adhkar/api/v1/auth.py), the check of the bearer    *)
(* token and the transaction of a request (backend/adhkar/api/deps.py),    *)
(* and the account they depend on (backend/adhkar/api/v1/users.py).        *)
(*                                                                         *)
(* A request issues at most one pair of tokens, which carries its name:    *)
(* row[r] is the row of the sessions table (the refresh token of pair r),  *)
(* tok[r] the claims of its access token.  The denylists live in Redis and *)
(* are outside of the transaction.  The response is sent before the        *)
(* transaction is committed: get_db commits after its yield, which runs    *)
(* once the response is out.                                               *)
(*                                                                         *)
(* Tokens do not expire while the model runs, a bearer is a token and not  *)
(* an API key, and the signature of a token is right.                      *)
(***************************************************************************)
EXTENDS Naturals, FiniteSets

CONSTANTS Requests,   \* HTTP requests, each sent once
          Seed,       \* a pair of tokens the user may hold at the start
          Orgs,       \* organizations
          Profiles,   \* profiles: sets of permissions
          OrgOf,      \* the organization of a profile
          Passwords,  \* what is typed as a password
          Ops,        \* bound: what each request may be
          MaxDeaths,  \* bound: requests that die
          Null        \* no organization, no profile, no token, no permission

ASSUME SeedAssumption == Seed \notin Requests
ASSUME NullAssumption == Null \notin Requests \cup {Seed} \cup Orgs \cup Profiles \cup Passwords
ASSUME OrgAssumption == OrgOf \in [Profiles -> Orgs]

VARIABLES status,         \* of the user: active or locked
          password,       \* its hash
          profile,        \* of the user in each organization, or Null
          row,            \* of a pair: none, active or revoked
          deniedAccess,   \* pairs whose access token is on the denylist
          deniedRefresh,  \* pairs whose refresh token is
          tok,            \* organization and permissions of an access token
          req,            \* what a request asks
          pc,             \* where it is
          locks,          \* the session row it has updated and not committed
          writing,        \* requests with an uncommitted UPDATE of the account
          held,           \* pairs that clients have received
          ended,          \* history: logouts that have been answered
          late,           \* history: those answered before a request was sent
          early           \* history: refreshes sent before their pair was committed

account == <<status, password, profile>>
denied == <<deniedAccess, deniedRefresh>>
history == <<ended, late, early>>
vars == <<account, row, denied, tok, req, pc, locks, writing, held, history>>

Pairs == Requests \cup {Seed}
NoClaims == [org |-> Null, perms |-> Null]
Claims(o) == [org |-> o, perms |-> profile[o]]

Hash(p) == <<"argon2id", p>>
Hashes == {Hash(p) : p \in Passwords}
Verify(stored, plain) == stored = Hash(plain)

(* What can be asked: with tokens that were received, from any client.     *)
Ask(op, access, cookie, arg, new) ==
  [op : {op}, access : access, cookie : cookie, arg : arg, new : new]
No == {Null}
Bearer == {"switch", "logout", "call", "password"}
Inputs(H) ==
       Ask("login", No, No, Passwords, No)
  \cup Ask("refresh", No, H, No, No)
  \cup Ask("switch", H, No, Orgs, No)
  \cup Ask("logout", H, H \cup No, No, No)
  \cup Ask("call", H, No, No, No)
  \cup Ask("password", H, No, Passwords, Passwords)
  \cup Ask("reset", No, No, No, Passwords)
  \cup Ask("lock", No, No, No, No)
  \cup Ask("unlock", No, No, No, No)
  \cup Ask("profile", No, No, Orgs, Profiles)

Idle == [op |-> "none", access |-> Null, cookie |-> Null, arg |-> Null, new |-> Null]
Changing == {"password", "reset", "lock", "unlock", "profile"}
Issues(r) == req[r].op \in {"login", "refresh", "switch"}
Ended == {"done", "unauthorized", "wrong", "refused", "dead"}

Init ==
  /\ status = "active"
  /\ password \in Hashes
  /\ profile \in [Orgs -> Profiles \cup {Null}]
  /\ \A o \in Orgs : profile[o] # Null => OrgOf[profile[o]] = o
  /\ \/ /\ held = {}
        /\ row = [p \in Pairs |-> "none"]
        /\ tok = [p \in Pairs |-> NoClaims]
     \/ /\ held = {Seed}
        /\ row = [p \in Pairs |-> IF p = Seed THEN "active" ELSE "none"]
        /\ \E o \in Orgs :
             /\ profile[o] # Null
             /\ tok = [p \in Pairs |-> IF p = Seed THEN Claims(o) ELSE NoClaims]
  /\ deniedAccess = {} /\ deniedRefresh = {}
  /\ req = [r \in Requests |-> Idle]
  /\ pc = [r \in Requests |-> "idle"]
  /\ locks = [r \in Requests |-> Null]
  /\ writing = {}
  /\ ended = {}
  /\ late = [r \in Requests |-> {}]
  /\ early = {}

Goto(r, label) == pc' = [pc EXCEPT ![r] = label]

-----------------------------------------------------------------------------
Begin(r) ==
  /\ pc[r] = "idle"
  /\ \E x \in Inputs(held) :
       /\ x.op \in Ops[r]
       /\ req' = [req EXCEPT ![r] = x]
       /\ Goto(r, IF x.op \in Bearer \cup {"refresh"} THEN "gate" ELSE "load")
       /\ early' = IF x.op = "refresh" /\ row[x.cookie] = "none" THEN early \cup {r} ELSE early
  /\ late' = [late EXCEPT ![r] = ended]
  /\ UNCHANGED <<account, row, denied, tok, locks, writing, held, ended>>

(* is_denied, of the bearer in get_current_user and of the cookie in       *)
(* rotate_refresh.                                                         *)
AnyTokenDenied(r) ==
  (IF req[r].op = "refresh" THEN req[r].cookie ELSE req[r].access)
    \in deniedAccess \cup deniedRefresh
Denied(r) == IF req[r].op = "refresh" THEN req[r].cookie \in deniedRefresh
                                      ELSE req[r].access \in deniedAccess
AfterGate(op) ==
  CASE op = "refresh" -> "update"
    [] op = "logout"  -> "denyaccess"
    [] op = "call"    -> "answer"
    [] OTHER          -> "load"
Gate(r) ==
  /\ pc[r] = "gate"
  /\ Goto(r, IF Denied(r) THEN "unauthorized" ELSE AfterGate(req[r].op))
  /\ UNCHANGED <<account, row, denied, tok, req, locks, writing, held, history>>

(* login: the user row, then the membership and the profile.               *)
LoginCheck(r) ==
  /\ pc[r] = "load" /\ req[r].op = "login"
  /\ Goto(r, IF ~Verify(password, req[r].arg) THEN "wrong"
             ELSE IF status = "locked" THEN "refused" ELSE "issue")
  /\ UNCHANGED <<account, row, denied, tok, req, locks, writing, held, history>>

LoginIssue(r) ==
  /\ pc[r] = "issue"
  /\ \/ /\ \A o \in Orgs : profile[o] = Null
        /\ Goto(r, "refused")
        /\ UNCHANGED tok
     \/ \E o \in Orgs :
          /\ profile[o] # Null
          /\ tok' = [tok EXCEPT ![r] = Claims(o)]
          /\ Goto(r, "answer")
  /\ UNCHANGED <<account, row, denied, req, locks, writing, held, history>>

(* switch_org: the membership and the profile, before anything is revoked. *)
Switch(r) ==
  /\ pc[r] = "load" /\ req[r].op = "switch"
  /\ IF profile[req[r].arg] = Null
       THEN Goto(r, "refused") /\ UNCHANGED tok
       ELSE Goto(r, "denyaccess") /\ tok' = [tok EXCEPT ![r] = Claims(req[r].arg)]
  /\ UNCHANGED <<account, row, denied, req, locks, writing, held, history>>

(* revoke_session of the access token: no session has its jti.             *)
DenyAccess(r) ==
  /\ pc[r] = "denyaccess"
  /\ deniedAccess' = deniedAccess \cup {req[r].access}
  /\ Goto(r, IF req[r].op = "logout" /\ req[r].cookie # Null THEN "update" ELSE "answer")
  /\ UNCHANGED <<account, row, deniedRefresh, tok, req, locks, writing, held, history>>

(* The UPDATE of the session waits for the transaction that has updated    *)
(* the row, and then sees what that one has committed.                     *)
Free(r, c) == \A q \in Requests \ {r} : locks[q] # c
WasSeen(c) == row[c] # "none"
Unrevoked(c) == row[c] = "active"
Rotate(r) ==
  /\ pc[r] = "update" /\ req[r].op = "refresh"
  /\ LET c == req[r].cookie IN
       /\ Free(r, c)
       /\ IF Unrevoked(c)
            THEN /\ locks' = [locks EXCEPT ![r] = c]
                 /\ tok' = [tok EXCEPT ![r] = [org |-> tok[c].org, perms |-> Null]]
                 /\ Goto(r, "answer")
            ELSE /\ Goto(r, "unauthorized")
                 /\ UNCHANGED <<locks, tok>>
  /\ UNCHANGED <<account, row, denied, req, writing, held, history>>

Revoke(r) ==
  /\ pc[r] = "update" /\ req[r].op = "logout"
  /\ LET c == req[r].cookie IN
       /\ Free(r, c)
       /\ locks' = [locks EXCEPT ![r] = IF Unrevoked(c) THEN c ELSE Null]
  /\ Goto(r, "denyrefresh")
  /\ UNCHANGED <<account, row, denied, tok, req, writing, held, history>>

AccessOf(r) == {req[r].access}
CookieOf(r) == {req[r].cookie}
DenyRefresh(r) ==
  /\ pc[r] = "denyrefresh"
  /\ deniedRefresh' = deniedRefresh \cup CookieOf(r)
  /\ Goto(r, "answer")
  /\ UNCHANGED <<account, row, deniedAccess, tok, req, locks, writing, held, history>>

-----------------------------------------------------------------------------
(* The account: the row is loaded, and written if an attribute differs.    *)
PasswordCheck(r) ==
  /\ pc[r] = "load" /\ req[r].op = "password"
  /\ IF ~Verify(req[r].arg, password)
       THEN Goto(r, "wrong")
       ELSE Goto(r, "write") \/ Goto(r, "refused")
  /\ UNCHANGED <<account, row, denied, tok, req, locks, writing, held, history>>

Reset(r) ==
  /\ pc[r] = "load" /\ req[r].op = "reset"
  /\ \/ status = "active" /\ Goto(r, "write")
     \/ Goto(r, "refused")
  /\ UNCHANGED <<account, row, denied, tok, req, locks, writing, held, history>>

LoadStatus(r) ==
  /\ pc[r] = "load" /\ req[r].op \in {"lock", "unlock"}
  /\ Goto(r, IF status = (IF req[r].op = "lock" THEN "locked" ELSE "active")
               THEN "answer" ELSE "write")
  /\ UNCHANGED <<account, row, denied, tok, req, locks, writing, held, history>>

(* patch_user: the membership in the administrator's organization, and a   *)
(* profile of that organization.                                           *)
InOrg(q, o) == OrgOf[q] = o
LoadProfile(r) ==
  /\ pc[r] = "load" /\ req[r].op = "profile"
  /\ LET o == req[r].arg
         q == req[r].new
     IN Goto(r, IF profile[o] = Null \/ ~InOrg(q, o) THEN "refused"
                ELSE IF profile[o] = q THEN "answer" ELSE "write")
  /\ UNCHANGED <<account, row, denied, tok, req, locks, writing, held, history>>

(* The row of the user, or that of the membership.                         *)
SameRow(r, q) == /\ (req[r].op = "profile") = (req[q].op = "profile")
                 /\ req[r].op = "profile" => req[r].arg = req[q].arg
Write(r) ==
  /\ pc[r] = "write"
  /\ \A q \in writing : ~SameRow(r, q)
  /\ writing' = writing \cup {r}
  /\ Goto(r, "answer")
  /\ UNCHANGED <<account, row, denied, tok, req, locks, held, history>>

-----------------------------------------------------------------------------
(* The response leaves, then the transaction is committed.                 *)
Answer(r) ==
  /\ pc[r] = "answer"
  /\ Goto(r, "commit")
  /\ held' = IF Issues(r) THEN held \cup {r} ELSE held
  /\ ended' = IF req[r].op = "logout" THEN ended \cup {r} ELSE ended
  /\ UNCHANGED <<account, row, denied, tok, req, locks, writing, late, early>>

RevokedAll(r, p) == locks[r] # Null /\ row[p] = "active"
Revoked(r, p) == p = locks[r]
RowAfter(r, p) == IF p = r /\ Issues(r) THEN "active"
                  ELSE IF Revoked(r, p) THEN "revoked" ELSE row[p]
CommitAccount(r) ==
  /\ status' = CASE req[r].op = "lock" -> "locked"
                 [] req[r].op = "unlock" -> "active"
                 [] OTHER -> status
  /\ password' = IF req[r].op \in {"password", "reset"} THEN Hash(req[r].new) ELSE password
  /\ profile' = IF req[r].op = "profile" THEN [profile EXCEPT ![req[r].arg] = req[r].new]
                                         ELSE profile

HoldsOn(r) == locks
Released(r) == [locks EXCEPT ![r] = Null]
Commit(r) ==
  /\ pc[r] = "commit"
  /\ Goto(r, "done")
  /\ row' = [p \in Pairs |-> RowAfter(r, p)]
  /\ IF r \in writing THEN CommitAccount(r) ELSE UNCHANGED account
  /\ locks' = Released(r)
  /\ writing' = writing \ {r}
  /\ UNCHANGED <<denied, tok, req, held, history>>

(* Redis or the database fails, or the process ends: what was written to   *)
(* the database is rolled back, what was written to Redis is not.          *)
Die(r) ==
  /\ pc[r] \notin Ended \cup {"idle"}
  /\ Cardinality({q \in Requests : pc[q] = "dead"}) < MaxDeaths
  /\ Goto(r, "dead")
  /\ locks' = Released(r)
  /\ writing' = writing \ {r}
  /\ UNCHANGED <<account, row, denied, tok, req, held, history>>

Step(r) ==
  \/ Gate(r) \/ LoginCheck(r) \/ LoginIssue(r) \/ Switch(r)
  \/ DenyAccess(r) \/ Rotate(r) \/ Revoke(r) \/ DenyRefresh(r)
  \/ PasswordCheck(r) \/ Reset(r) \/ LoadStatus(r) \/ LoadProfile(r) \/ Write(r)
  \/ Answer(r) \/ Commit(r)

Next == \E r \in Requests : Begin(r) \/ Step(r) \/ Die(r)

Spec == Init /\ [][Next]_vars

(* The event loop runs every request, and Redis and the database answer.   *)
FairSpec == Spec /\ \A r \in Requests : WF_vars(Step(r))

-----------------------------------------------------------------------------
(* Properties.                                                             *)
Steps == {"idle", "gate", "load", "issue", "denyaccess", "update", "denyrefresh",
          "write", "answer", "commit"}

(* Every variable has its type.                                            *)
TypeOK ==
  /\ status \in {"active", "locked"}
  /\ password \in Hashes
  /\ profile \in [Orgs -> Profiles \cup {Null}]
  /\ row \in [Pairs -> {"none", "active", "revoked"}]
  /\ deniedAccess \subseteq Pairs /\ deniedRefresh \subseteq Pairs
  /\ tok \in [Pairs -> [org : Orgs \cup {Null}, perms : Profiles \cup {Null}]]
  /\ req \in [Requests -> Inputs(Pairs) \cup {Idle}]
  /\ pc \in [Requests -> Steps \cup Ended]
  /\ locks \in [Requests -> Pairs \cup {Null}]
  /\ writing \subseteq Requests
  /\ held \subseteq Pairs
  /\ ended \subseteq Requests
  /\ late \in [Requests -> SUBSET Requests]
  /\ early \subseteq Requests

(* A session row is updated by one transaction at a time, which found it   *)
(* active (rotate_refresh, revoke_session).                                *)
OneHolder ==
  \A r \in Requests :
    locks[r] # Null => /\ row[locks[r]] = "active"
                       /\ locks[r] = req[r].cookie
                       /\ \A q \in Requests \ {r} : locks[q] # locks[r]

(* A refresh token is exchanged once: of the refreshes that were committed *)
(* no two had the same cookie, and the session of the cookie is over.      *)
Exchanged(r) == req[r].op = "refresh" /\ pc[r] = "done"
ExchangedOnce ==
  \A r \in Requests : Exchanged(r) =>
    /\ row[req[r].cookie] = "revoked"
    /\ \A q \in Requests \ {r} : Exchanged(q) => req[q].cookie # req[r].cookie

(* The permissions of an access token are those of a profile of the        *)
(* organization it is for, and so is the user's profile in each            *)
(* organization (patch_user, switch_org, rotate_refresh).                  *)
TenantPermissions ==
  /\ \A o \in Orgs : profile[o] # Null => OrgOf[profile[o]] = o
  /\ \A p \in Pairs : tok[p].perms # Null => OrgOf[tok[p].perms] = tok[p].org

(* Once a logout is answered, its tokens are refused: a request sent later *)
(* with one of them gets no further than the denylist, even if the logout  *)
(* is never committed (logout denies both tokens before it answers).       *)
UsesTokenOf(r, q) == IF req[r].op = "refresh"
                       THEN req[q].cookie = req[r].cookie
                       ELSE req[r].op \in Bearer /\ req[q].access = req[r].access
LogoutEnds ==
  \A r \in Requests : \A q \in late[r] :
    UsesTokenOf(r, q) => pc[r] \in {"gate", "unauthorized", "dead"}

(* A token is refused only if another request has used it up, or if the    *)
(* session of the cookie was not committed yet when it was sent: a client  *)
(* that sends one request at a time, each after the commit of the one      *)
(* before, is never refused (is_denied, rotate_refresh).                   *)
Revokes(q, r) ==
  /\ IF req[r].op = "refresh"
       THEN req[q].op \in {"refresh", "logout"} /\ req[q].cookie = req[r].cookie
       ELSE req[q].op \in {"switch", "logout"} /\ req[q].access = req[r].access
Admitted(q) == pc[q] \notin {"idle", "gate", "unauthorized"}
RefusedWithReason ==
  \A r \in Requests : pc[r] = "unauthorized" =>
    \/ r \in early
    \/ \E q \in Requests \ {r} : Revokes(q, r) /\ Admitted(q)

(* Why: which request is where, and what it has left behind.               *)
At(r, ops, labels) == req[r].op \in ops /\ pc[r] \in labels
WhereRequestsAre ==
  \A r \in Requests :
    /\ pc[r] = "idle" <=> req[r] = Idle
    /\ pc[r] = "issue" => req[r].op = "login"
    /\ pc[r] = "denyaccess" => req[r].op \in {"switch", "logout"}
    /\ pc[r] = "update" => req[r].op \in {"refresh", "logout"} /\ req[r].cookie # Null
    /\ pc[r] = "denyrefresh" => req[r].op = "logout" /\ req[r].cookie # Null
    /\ pc[r] = "write" => req[r].op \in Changing
    /\ r \in writing => At(r, Changing, {"answer", "commit"})
    /\ req[r].op = "profile" /\ pc[r] \in {"write", "answer", "commit"}
         => OrgOf[req[r].new] = req[r].arg
    /\ locks[r] # Null => At(r, {"refresh", "logout"}, {"denyrefresh", "answer", "commit"})
    /\ At(r, {"refresh"}, {"answer", "commit"}) => locks[r] = req[r].cookie
    /\ At(r, {"logout"}, {"update", "denyrefresh", "answer", "commit"})
         => req[r].access \in deniedAccess
    /\ At(r, {"logout"}, {"answer", "commit"}) /\ req[r].cookie # Null
         => req[r].cookie \in deniedRefresh
WhatRequestsLeave ==
  /\ \A r \in Requests : row[r] # "none" <=> Issues(r) /\ pc[r] = "done"
  /\ \A p \in Pairs : row[p] = "revoked" =>
       \E q \in Requests : At(q, {"refresh", "logout"}, {"done"}) /\ req[q].cookie = p
  /\ \A p \in deniedAccess :
       \E q \in Requests : req[q].op \in {"switch", "logout"} /\ req[q].access = p /\ Admitted(q)
  /\ \A p \in deniedRefresh :
       \E q \in Requests : req[q].op = "logout" /\ req[q].cookie = p /\ Admitted(q)
  /\ \A q \in ended : /\ req[q].op = "logout" /\ req[q].access \in deniedAccess
                      /\ req[q].cookie # Null => req[q].cookie \in deniedRefresh
  /\ \A r \in Requests : late[r] \subseteq ended
  /\ \A r \in Requests \ early : req[r].op = "refresh" => row[req[r].cookie] # "none"
IInv ==
  /\ TypeOK /\ OneHolder /\ ExchangedOnce /\ TenantPermissions
  /\ LogoutEnds /\ RefusedWithReason /\ WhereRequestsAre /\ WhatRequestsLeave

(* Every request ends: no two wait for each other's rows.                  *)
EveryRequestEnds == \A r \in Requests : pc[r] # "idle" ~> pc[r] \in Ended

(* The sessions table keeps the promise of SessionRegister.                *)
Continues(p) == p \in Requests /\ req[p].op = "refresh"
Register == INSTANCE SessionRegister WITH
  Ids <- Pairs,
  session <- [p \in Pairs |-> CASE row[p] = "none" -> "unknown"
                                [] row[p] = "active" -> "active"
                                [] OTHER -> "ended"],
  follows <- [p \in Pairs |-> IF row[p] # "none" /\ Continues(p) THEN req[p].cookie ELSE Null],
  Nobody <- Null
ImplementsRegister == Register!RegisterSpec

(* "perms derived from the profile": every access token a client holds     *)
(* carries the permissions of a profile (rotate_refresh, encode_jwt).      *)
AccessCarriesPermissions == \A p \in held : tok[p].perms # Null

(* A password change with the current password is not refused as one with  *)
(* a wrong password, if no other request changes the password              *)
(* (change_my_password).                                                   *)
PasswordChangeVerifies ==
  \A r \in Requests :
    /\ req[r].op = "password" /\ pc[r] = "wrong"
    /\ \A q \in Requests \ {r} : req[q].op \notin {"password", "reset"}
    => password # Hash(req[r].arg)
=============================================================================

------------------------------ MODULE Accounts ------------------------------
(***************************************************************************)
(* Users and invitations (users.py), second factors (mfa.py), profiles     *)
(* (profiles.py), organizations (organizations.py), API keys (api_keys.py) *)
(* and the rights of the data subject (gdpr.py), all under                 *)
(* backend/adhkar/api/v1: the handlers that write.                         *)
(*                                                                         *)
(* A user is a row of "user" whose name is the email; a membership is      *)
(* under its user and names a profile; an "mfa" row is under its user and  *)
(* names the enrolment that drew the seed.                                 *)
(***************************************************************************)
EXTENDS Tables

(* What can be asked, as the bodies and the paths of the requests say it.  *)
UserCalls ==
       [op : {"invite"}, org : Orgs, user : Callers, email : Names, profile : Ids, fits : BOOLEAN]
  \cup [op : {"patchUser"}, org : Orgs, id : Ids, profile : Ids \cup {Null}, fits : BOOLEAN]
  \cup [op : {"deleteUser"}, user : Callers, id : Ids]
  \cup [op : {"lock", "unlock", "resetMfa", "accept"}, id : Ids]
MfaCalls ==
       [op : {"enroll"}, user : Callers]
  \cup [op : {"confirm"}, user : Callers, proves : Requests]
  \cup [op : {"disable", "regenerate"}, user : Callers, proves : Requests, password : BOOLEAN]
ProfileCalls ==
       [op : {"createProfile"}, org : Orgs, name : Names, fits : BOOLEAN]
  \cup [op : {"patchProfile"}, org : Orgs, id : Ids, name : Names, permissions : BOOLEAN,
        fits : BOOLEAN]
  \cup [op : {"deleteProfile"}, org : Orgs, id : Ids]
OrgCalls ==
       [op : {"patchOrg"}, id : Ids, name : Names, fits : BOOLEAN]
  \cup [op : {"createSharing"}, org : Orgs, user : Callers, target : Ids]
  \cup [op : {"deleteSharing"}, org : Orgs, id : Ids]
KeyCalls ==
       [op : {"createKey"}, user : Callers, within : BOOLEAN, fits : BOOLEAN]
  \cup [op : {"revokeKey", "adminRevokeKey"}, user : Callers, id : Ids]
GdprCalls == [op : {"erase"}, user : Callers, id : Ids]

-----------------------------------------------------------------------------
(* Users.  Whether a row is of the organization of the caller is looked at *)
(* where a profile is given, and nowhere else.  The display name is left   *)
(* out: a patch of nothing else changes nothing here; one that does not    *)
(* fit is flushed by the next SELECT.                                      *)
Membership(rows, u, o) ==
  {m \in Ids : /\ rows[m] # Null /\ rows[m].table = "member"
               /\ rows[m].under = u /\ rows[m].org = o}

InviteUser(r) ==
  LET c == call[r]
  IN  /\ Of(r, "invite")
      /\ IF \E u \in Ids : Sees(r, u, "user") /\ seen[r][u].name = c.email
         THEN Refuse(r, "409")
         ELSE IF ~SeesOwn(r, c.profile, "profile") THEN Refuse(r, "400")
         ELSE Insert(r, [x \in {<<r, 1>>, <<r, 2>>} |->
                IF x = <<r, 1>> THEN Sole(r, "user", Null, Null, c.email, "pending_invite", Null)
                ELSE Sole(r, "member", c.org, <<r, 1>>, c.profile, "", Null)], "500")

PatchUser(r) ==
  LET c == call[r]
      mine == Membership(seen[r], c.id, c.org)
  IN  /\ Of(r, "patchUser")
      /\ IF ~Sees(r, c.id, "user") THEN Refuse(r, "404")
         ELSE IF seen[r][c.id].gone THEN Refuse(r, "404")
         ELSE IF ~Fits(c) THEN Refuse(r, "500")
         ELSE IF c.profile = Null THEN Commit(r, db)
         ELSE IF mine = {} THEN Refuse(r, "404")
         ELSE IF ~SeesOwn(r, c.profile, "profile") THEN Refuse(r, "400")
         ELSE \E m \in mine : Update(r, m, [name |-> c.profile])

OnUser(r, columns) ==
  IF Sees(r, call[r].id, "user") THEN Update(r, call[r].id, columns) ELSE Refuse(r, "404")
DeleteUser(r) ==
  /\ Of(r, "deleteUser")
  /\ IF call[r].id = call[r].user THEN Refuse(r, "400") ELSE OnUser(r, [gone |-> TRUE])
LockUser(r) == Of(r, "lock") /\ OnUser(r, [state |-> "locked"])
UnlockUser(r) == Of(r, "unlock") /\ OnUser(r, [state |-> "active"])

(* accept_invite: the only one that looks at the status it overwrites.     *)
MayAlways(r, u) == Sees(r, u, "user")
MayAccept(r, u) == Sees(r, u, "user") /\ seen[r][u].state = "pending_invite"
AcceptInvite(r) ==
  /\ Of(r, "accept")
  /\ IF MayAccept(r, call[r].id) THEN Update(r, call[r].id, [state |-> "active"])
                                 ELSE Refuse(r, "400")

-----------------------------------------------------------------------------
(* The second factor: the seed of an enrolment is confirmed by a code that *)
(* proves it; "at" is also when its backup codes were drawn.               *)
SecretOf(r, u) == {m \in Ids : Sees(r, m, "mfa") /\ seen[r][m].under = u}
Confirmed(r, u) == {m \in SecretOf(r, u) : seen[r][m].state = "confirmed"}

MfaEnroll(r) ==
  LET u == call[r].user
  IN  /\ Of(r, "enroll")
      /\ IF Confirmed(r, u) # {} THEN Refuse(r, "409")
         ELSE IF SecretOf(r, u) = {}
         THEN InsertOne(r, Sole(r, "mfa", Null, u, r, "enrolling", u), "500")
         ELSE \E m \in SecretOf(r, u) : Update(r, m, [name |-> r, state |-> "enrolling"])

MfaConfirm(r) ==
  LET u == call[r].user
  IN  /\ Of(r, "confirm")
      /\ IF Confirmed(r, u) # {} THEN Refuse(r, "409")
         ELSE IF \A m \in SecretOf(r, u) : seen[r][m].name # call[r].proves THEN Refuse(r, "400")
         ELSE \E m \in SecretOf(r, u) : Update(r, m, [state |-> "confirmed", at |-> began[r]])

(* disable and regenerate ask for the password and a code.                 *)
Refused(r) ==
  IF ~call[r].password THEN "401"
  ELSE IF \A m \in Confirmed(r, call[r].user) : seen[r][m].name # call[r].proves THEN "400"
  ELSE "none"
MfaDisable(r) ==
  /\ Of(r, "disable")
  /\ IF Refused(r) # "none" THEN Refuse(r, Refused(r))
     ELSE \E m \in Confirmed(r, call[r].user) : Delete(r, m)
MfaRegenerate(r) ==
  /\ Of(r, "regenerate")
  /\ IF Refused(r) # "none" THEN Refuse(r, Refused(r))
     ELSE \E m \in Confirmed(r, call[r].user) : Update(r, m, [at |-> began[r]])
AdminResetMfa(r) ==
  /\ Of(r, "resetMfa")
  /\ IF SecretOf(r, call[r].id) = {} THEN Commit(r, db)
     ELSE \E m \in SecretOf(r, call[r].id) : Delete(r, m)

-----------------------------------------------------------------------------
(* Profiles.  A name that is taken is an error nobody catches.             *)
CreateProfile(r) ==
  /\ Of(r, "createProfile")
  /\ InsertOne(r, Sole(r, "profile", call[r].org, Null, call[r].name, "", Null), "500")
PatchProfile(r) ==
  LET c == call[r]
  IN  /\ Of(r, "patchProfile")
      /\ IF ~SeesOwn(r, c.id, "profile") THEN Refuse(r, "404")
         ELSE IF seen[r][c.id].state = "org-admin" /\ c.permissions THEN Refuse(r, "400")
         ELSE Update(r, c.id, [name |-> c.name])

(* delete_profile: scalar_one_or_none raises when two members have it.     *)
Having(r, p) == {m \in Ids : Sees(r, m, "member") /\ seen[r][m].name = p}
Occupied(r, p) == Cardinality(Having(r, p))
DeleteProfile(r) ==
  LET c == call[r]
  IN  /\ Of(r, "deleteProfile")
      /\ IF ~SeesOwn(r, c.id, "profile") THEN Refuse(r, "404")
         ELSE IF seen[r][c.id].state # "" THEN Refuse(r, "400")
         ELSE IF Occupied(r, c.id) > 1 THEN Refuse(r, "500")
         ELSE IF Occupied(r, c.id) = 1 THEN Refuse(r, "409")
         ELSE Delete(r, c.id)

-----------------------------------------------------------------------------
(* Organizations and what they share.                                      *)
PatchOrg(r) ==
  /\ Of(r, "patchOrg")
  /\ IF Sees(r, call[r].id, "organization") THEN Update(r, call[r].id, [name |-> call[r].name])
                                            ELSE Refuse(r, "404")
CreateSharing(r) ==
  LET c == call[r]
  IN  /\ Of(r, "createSharing")
      /\ IF c.target = c.org THEN Refuse(r, "400")
         ELSE IF ~Sees(r, c.target, "organization") THEN Refuse(r, "404")
         ELSE InsertOne(r, Sole(r, "sharing", c.org, Null, c.target, "", c.user), "500")
DeleteSharing(r) ==
  /\ Of(r, "deleteSharing")
  /\ IF SeesOwn(r, call[r].id, "sharing") THEN Delete(r, call[r].id) ELSE Refuse(r, "404")

-----------------------------------------------------------------------------
(* API keys: the scope must be within the permissions of the caller; a key *)
(* is revoked once.                                                        *)
CreateMyKey(r) ==
  /\ Of(r, "createKey")
  /\ IF call[r].within
     THEN InsertOne(r, Sole(r, "api_key", Null, Null, r, "active", call[r].user), "500")
     ELSE Refuse(r, "400")
Revoke(r) ==
  IF Sees(r, call[r].id, "api_key") /\ seen[r][call[r].id].by = call[r].user
       /\ seen[r][call[r].id].state = "active"
  THEN Update(r, call[r].id, [state |-> "revoked"]) ELSE Refuse(r, "404")
RevokeMyKey(r) == Of(r, "revokeKey") /\ Revoke(r)
AdminRevokeKey(r) == Of(r, "adminRevokeKey") /\ Revoke(r)

-----------------------------------------------------------------------------
(* erase_user: the email and the status of the user, the contents of what  *)
(* they wrote as committed by then, and an audit record.                   *)
Authored(rows, u) ==
  {x \in Ids : /\ rows[x] # Null /\ rows[x].by = u
               /\ rows[x].table \in {"comment", "log", "ai_call"}}
EraseUser(r) ==
  LET u == call[r].id
      S == Authored(db, u)
      user == [name |-> u, state |-> "locked"]
  IN  /\ Of(r, "erase")
      /\ IF ~Sees(r, u, "user") THEN Refuse(r, "404")
         ELSE Insert(r, [x \in {u, <<r, 1>>} \cup S |->
                CASE x = u -> Updated(r, u, user)
                  [] x \in S -> [db[x] EXCEPT !.state = "erased", !.at = began[r]]
                  [] OTHER -> Sole(r, "audit", Null, u, Null, "gdpr_erased", call[r].user)], "500")
=============================================================================

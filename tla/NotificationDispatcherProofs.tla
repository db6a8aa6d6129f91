-------------------- MODULE NotificationDispatcherProofs --------------------
(***************************************************************************)
(* Proofs about NotificationDispatcher, for any events, rules, endpoints,  *)
(* organizations, lists and any number of dispatchers.                     *)
(***************************************************************************)
EXTENDS NotificationDispatcher, TLAPS, FiniteSetTheorems

LEMMA InitCore == Init => CoreInv
<1> SUFFICES ASSUME Init PROVE CoreInv
  OBVIOUS
<1>1. Posts = {} /\ log \in Seq(PostRecord)
  BY DEF Init, Posts
<1>2. TypeOK
  BY <1>1, BoundsAssumption DEF Init, TypeOK
<1>3. DeliveriesHaveParents /\ LostWithReason /\ TenantDelivery /\ MadeForCreated
  BY <1>1 DEF Init, DeliveriesHaveParents, LostWithReason, TenantDelivery, MadeForCreated
<1>4. \A d \in Dispatchers : AtWork(d)
  BY DEF Init, AtWork
<1> QED
  BY <1>2, <1>3, <1>4 DEF CoreInv

(* What the log says of a POST is in the types of the constants.           *)
LEMMA PostTypes ==
  ASSUME TypeOK, NEW i \in Posts
  PROVE  /\ i \in 1..Len(log) /\ log[i] \in PostRecord
         /\ log[i].endpoint \in Endpoints /\ log[i].rule \in Rules \cup {Null}
         /\ log[i].event \in Events \cup {Null}
<1>1. i \in 1..Len(log) /\ log[i] \in PostRecord
  BY DEF TypeOK, Posts
<1> QED
  BY <1>1 DEF PostRecord

(* The types of losses depend on the log only through its length.          *)
LEMMA SameLosses == ASSUME log' = log PROVE Posts' = Posts /\ LossRecord' = LossRecord
BY DEF Posts, LossRecord

(* Appending a POST changes nothing about the earlier ones.                *)
LEMMA LogGrows ==
  ASSUME TypeOK, NEW n \in PostRecord, log' = Append(log, n)
  PROVE  /\ Posts' = Posts \cup {Len(log) + 1} /\ Len(log) + 1 \notin Posts
         /\ \A i \in Posts : log'[i] = log[i]
         /\ log'[Len(log) + 1] = n
         /\ log' \in Seq(PostRecord)
         /\ Len(log) + 1 \in Nat \ {0}
BY DEF TypeOK, Posts

-----------------------------------------------------------------------------
(* Requests that write an endpoint or a rule.                              *)

(* Rules and endpoints that are created or patched stay insertable, and    *)
(* what was deleted stays deleted.                                         *)
LEMMA Revised ==
  ASSUME CoreInv, TypeOK', UNCHANGED <<deliveries, inbox, work, testing, log, excused>>,
         \A p \in Endpoints : endpoint'[p] = endpoint[p]
                              \/ (endpoint[p] # "deleted" /\ Exists(endpoint'[p])),
         \A r \in Rules : rule'[r] = rule[r]
                          \/ (rule[r] # "deleted" /\ Exists(rule'[r])),
         \A d \in Dispatchers : silent'[d] \subseteq silent[d],
         \A d \in Dispatchers : \A p \in Endpoints : endpoint'[p] = "on" => p \notin silent'[d]
  PROVE  CoreInv'
<1>1. Posts' = Posts
  BY DEF Posts
<1>2. \A i \in Posts : Insertable(i)' = Insertable(i)
  <2> SUFFICES ASSUME NEW i \in Posts PROVE Insertable(i)' = Insertable(i)
    OBVIOUS
  <2> USE PostTypes DEF CoreInv
  <2>1. endpoint[log[i].endpoint] # "none" /\ (log[i].rule # Null => rule[log[i].rule] # "none")
    BY DEF MadeForCreated
  <2>2. Exists(endpoint[log[i].endpoint])' = Exists(endpoint[log[i].endpoint])
    BY <2>1 DEF Exists, TypeOK
  <2>3. log[i].rule # Null => Exists(rule[log[i].rule])' = Exists(rule[log[i].rule])
    BY <2>1 DEF Exists, TypeOK
  <2> QED
    BY <2>2, <2>3 DEF Insertable
<1>3. DeliveriesHaveParents'
  BY <1>2 DEF CoreInv, DeliveriesHaveParents, TypeOK
<1>4. LostWithReason'
  <2>1. \A x \in excused : x.posts \subseteq Posts
    BY DEF CoreInv, TypeOK, LossRecord
  <2>2. \A d \in Dispatchers : Rows(d)' = Rows(d)
    BY DEF Rows, NewRow, work
  <2> QED
    BY ZenonT(60), <1>1, <1>2, <2>1, <2>2 DEF CoreInv, LostWithReason
<1>5. TenantDelivery'
  BY <1>1 DEF CoreInv, TenantDelivery
<1>6. MadeForCreated'
  BY ZenonT(60), <1>1, PostTypes DEF CoreInv, MadeForCreated, TypeOK, Exists
<1>7. ASSUME NEW d \in Dispatchers PROVE AtWork(d)'
  <2> USE DEF CoreInv, work
  <2>1. \A r : Ours(d, r) => Ours(d, r)'
    BY DEF Ours, Exists
  <2>2. \A p \in Endpoints : endpoint[p] # "none" => endpoint'[p] # "none"
    BY DEF Exists
  <2>3. pc[d] = "post" => Head(lane[d].endpoints) \in Endpoints
    BY DEF AtWork, TypeOK
  <2>4. \A i \in inserted[d] : Insertable(i)'
    BY <1>2 DEF AtWork, TypeOK
  <2> QED
    BY <2>1, <2>2, <2>3, <2>4 DEF AtWork
<1> QED
  BY <1>3, <1>4, <1>5, <1>6, <1>7 DEF CoreInv

(* Deleting what no row refers to breaks no reference.                     *)
LEMMA Removed ==
  ASSUME CoreInv, TypeOK', UNCHANGED <<deliveries, inbox, work, testing, log, excused>>,
         NEW x \in Rules \cup Endpoints, ~Locked(x), ~Used(x),
         \A p \in Endpoints : endpoint'[p] = endpoint[p] \/ (p = x /\ endpoint'[p] = "deleted"),
         \A r \in Rules : rule'[r] = rule[r] \/ (r = x /\ rule'[r] = "deleted"),
         \A d \in Dispatchers : silent'[d] \subseteq silent[d]
  PROVE  CoreInv'
<1>1. Posts' = Posts
  BY DEF Posts
<1>2. \A i \in Posts : Insertable(i)' => Insertable(i)
  BY PostTypes DEF CoreInv, Insertable, Exists, TypeOK
<1>3. \A i \in Posts : ~Refers(i, x) => Insertable(i)' = Insertable(i)
  BY PostTypes DEF CoreInv, Insertable, Refers, Exists, TypeOK
<1>4. DeliveriesHaveParents'
  BY <1>3 DEF CoreInv, DeliveriesHaveParents, TypeOK, Used
<1>5. LostWithReason'
  <2>1. \A y \in excused : y.posts \subseteq Posts
    BY DEF CoreInv, TypeOK, LossRecord
  <2>2. \A d \in Dispatchers : Rows(d)' = Rows(d)
    BY DEF Rows, NewRow, work
  <2> QED
    BY <1>1, <1>2, <2>1, <2>2 DEF CoreInv, LostWithReason
<1>6. TenantDelivery'
  BY <1>1 DEF CoreInv, TenantDelivery
<1>7. MadeForCreated'
  <2>1. \A q \in Endpoints : endpoint[q] # "none" => endpoint'[q] # "none"
    OBVIOUS
  <2>2. \A q \in Rules : rule[q] # "none" => rule'[q] # "none"
    OBVIOUS
  <2> QED
    BY <1>1, <2>1, <2>2, PostTypes DEF CoreInv, MadeForCreated, TypeOK
<1>8. ASSUME NEW d \in Dispatchers PROVE AtWork(d)'
  <2> USE DEF CoreInv, work
  <2>1. \A r : Ours(d, r) => Ours(d, r)'
    BY DEF Ours
  <2>2. pc[d] = "post" => Head(lane[d].endpoints) \in Endpoints
    BY DEF AtWork, TypeOK
  <2>3. \A i \in inserted[d] : Insertable(i)'
    BY <1>3 DEF AtWork, TypeOK, Locked
  <2> QED
    BY <2>1, <2>2, <2>3 DEF AtWork
<1> QED
  BY <1>4, <1>5, <1>6, <1>7, <1>8 DEF CoreInv

(* What a request does to the history of what has been off.                *)
LEMMA TurnedOff ==
  ASSUME CoreInv, NEW x \in Rules \cup Endpoints, NEW on \in BOOLEAN, silent' = Turned(x, on)
  PROVE  /\ silent' \in [Dispatchers -> SUBSET (Rules \cup Endpoints)]
         /\ \A d \in Dispatchers : /\ silent'[d] \subseteq silent[d]
                                   /\ on => x \notin silent'[d]
BY DEF CoreInv, TypeOK, Turned

LEMMA EndpointStep ==
  ASSUME CoreInv, NEW p \in Endpoints, NEW on \in BOOLEAN,
         NEW raises \in BOOLEAN,
         CreateEndpoint(p, on, raises) \/ PatchEndpoint(p, on, raises) \/ DeleteEndpoint(p)
  PROVE  CoreInv'
<1> USE DEF Edit, WriteEndpoint
<1>1. CASE CreateEndpoint(p, on, raises) \/ PatchEndpoint(p, on, raises)
  <2>1. /\ endpoint' = [endpoint EXCEPT ![p] = IF on THEN "on" ELSE "off"]
        /\ endpoint[p] # "deleted" /\ silent' = Turned(p, on)
        /\ UNCHANGED <<rule, filter, targets, testing, deliveries, inbox, work, copies,
                       failures, log, excused>>
        /\ edits' \in Nat /\ bad' \subseteq Endpoints
    BY <1>1 DEF CoreInv, TypeOK, CreateEndpoint, PatchEndpoint, Exists
  <2>2. TypeOK'
    BY <2>1, TurnedOff, SameLosses DEF CoreInv, TypeOK, work
  <2>3. \A q \in Endpoints : endpoint'[q] = endpoint[q]
                             \/ (endpoint[q] # "deleted" /\ Exists(endpoint'[q]))
    BY <2>1 DEF CoreInv, TypeOK, Exists
  <2>4. \A d \in Dispatchers : \A q \in Endpoints : endpoint'[q] = "on" => q \notin silent'[d]
    BY <2>1, TurnedOff DEF CoreInv, TypeOK, AtWork
  <2> QED
    BY <2>1, <2>2, <2>3, <2>4, TurnedOff, Revised
<1>2. CASE DeleteEndpoint(p)
  <2>1. TypeOK'
    BY <1>2, SameLosses DEF CoreInv, TypeOK, DeleteEndpoint, work
  <2> QED
    BY <1>2, <2>1, Removed DEF DeleteEndpoint, CoreInv, TypeOK
<1> QED
  BY <1>1, <1>2

LEMMA RuleStep ==
  ASSUME CoreInv, NEW r \in Rules, NEW f \in Filters, NEW list \in Lists, NEW on \in BOOLEAN,
         CreateRule(r, f, list, on) \/ PatchRule(r, f, list, on)
  PROVE  CoreInv'
<1> USE DEF Edit
<1>1. /\ WriteRule(r, f, list, on) /\ rule[r] # "deleted" /\ edits' \in Nat
      /\ UNCHANGED <<deliveries, inbox, work, copies, failures, log, excused>>
  BY DEF CoreInv, TypeOK, CreateRule, PatchRule, Exists
<1>2. list \in Seq(Endpoints)
  BY ListsAssumption
<1>3. TypeOK'
  <2>1. rule' \in [Rules -> {"none", "on", "off", "deleted"}]
        /\ filter' \in [Rules -> Filters \cup {Null}] /\ targets' \in [Rules -> Seq(Endpoints)]
    BY <1>1, <1>2 DEF CoreInv, TypeOK, WriteRule
  <2> QED
    BY <1>1, <2>1, TurnedOff, SameLosses DEF CoreInv, TypeOK, WriteRule, work
<1>4. \A q \in Rules : rule'[q] = rule[q] \/ (rule[q] # "deleted" /\ Exists(rule'[q]))
  BY <1>1 DEF CoreInv, TypeOK, WriteRule, Exists
<1>5. silent' = Turned(r, on) /\ UNCHANGED <<endpoint, bad, testing>>
  BY <1>1 DEF WriteRule
<1>6. \A d \in Dispatchers : \A q \in Endpoints : endpoint'[q] = "on" => q \notin silent'[d]
  BY <1>5, TurnedOff DEF CoreInv, AtWork
<1> QED
  BY <1>1, <1>3, <1>4, <1>5, <1>6, TurnedOff, Revised

LEMMA DeleteRuleStep == ASSUME CoreInv, NEW r \in Rules, DeleteRule(r) PROVE CoreInv'
<1>1. TypeOK'
  BY SameLosses DEF CoreInv, TypeOK, DeleteRule, Edit, work
<1> QED
  BY <1>1, Removed DEF DeleteRule, Edit, CoreInv, TypeOK

LEMMA StartTestStep == ASSUME CoreInv, NEW p \in Endpoints, StartTest(p) PROVE CoreInv'
<1> USE DEF StartTest, Edit, work
<1>1. TypeOK'
  BY SameLosses DEF CoreInv, TypeOK
<1>2. (DeliveriesHaveParents /\ LostWithReason /\ TenantDelivery)'
  BY DEF CoreInv, DeliveriesHaveParents, LostWithReason, TenantDelivery, Posts, Insertable,
         Rows, NewRow
<1>3. MadeForCreated'
  BY DEF CoreInv, MadeForCreated, Posts, Exists
<1>4. \A d \in Dispatchers : AtWork(d)'
  BY DEF CoreInv, AtWork, Ours, Insertable
<1> QED
  BY <1>1, <1>2, <1>3, <1>4 DEF CoreInv

LEMMA FinishTestStep ==
  ASSUME CoreInv, NEW p \in Endpoints, NEW ok \in BOOLEAN, FinishTest(p, ok) PROVE CoreInv'
<1>0. PICK n \in Nat : n = Len(log) + 1
  BY DEF CoreInv, TypeOK
<1> DEFINE post == PostOf(Null, Null, p, ok, Null)
<1> USE DEF CoreInv
<1>1. post \in PostRecord /\ post.rule = Null /\ post.event = Null /\ post.endpoint = p
  BY DEF PostOf, PostRecord
<1>2. /\ Posts' = Posts \cup {n} /\ n \notin Posts /\ n \in Nat \ {0}
      /\ \A i \in Posts : log'[i] = log[i]
      /\ log'[n] = post /\ log' \in Seq(PostRecord)
  BY <1>0, <1>1, LogGrows DEF FinishTest
<1> HIDE DEF post
<1>3. UNCHANGED <<endpoint, bad, rule, filter, targets, edits, inbox, pc, event, todo, lane, fresh,
                  inserted, copies, failures, silent>> /\ testing' = testing \ {p}
  BY DEF FinishTest, work
<1>4. \/ deliveries' = deliveries \cup {n} /\ excused' = excused /\ Exists(endpoint[p])
      \/ /\ deliveries' = deliveries /\ ~Exists(endpoint[p])
         /\ excused' = excused \cup {LossOf({n}, Null, Null, "foreign key")}
  BY <1>0 DEF FinishTest
<1>5. \A i \in Posts : Insertable(i)' = Insertable(i)
  BY <1>2, <1>3 DEF Insertable
<1>6. Insertable(n)' <=> Exists(endpoint[p])
  BY <1>1, <1>2, <1>3 DEF Insertable
<1>7. TypeOK'
  <2>1. LossRecord \subseteq LossRecord' /\ LossOf({n}, Null, Null, "foreign key") \in LossRecord'
    BY <1>2 DEF LossRecord, LossOf
  <2>2. excused' \subseteq LossRecord' /\ deliveries' \subseteq Posts'
    BY <1>2, <1>4, <2>1 DEF TypeOK
  <2> QED
    BY <1>2, <1>3, <2>2 DEF TypeOK
<1>8. DeliveriesHaveParents'
  BY <1>4, <1>5, <1>6 DEF DeliveriesHaveParents, TypeOK
<1>9. LostWithReason'
  <2> SUFFICES ASSUME NEW i \in Posts'
               PROVE  \/ i \in deliveries'
                      \/ \E d \in Dispatchers : i \in Rows(d)'
                      \/ \E x \in excused' :
                           /\ i \in x.posts
                           /\ x.why # "foreign key" \/ \E j \in x.posts : ~Insertable(j)'
    BY DEF LostWithReason
  <2>1. CASE i \in Posts
    <3>1. \A x \in excused : x \in excused' /\ x.posts \subseteq Posts
      BY <1>4 DEF TypeOK, LossRecord
    <3>2. \A d \in Dispatchers : Rows(d)' = Rows(d)
      BY <1>3 DEF Rows, NewRow
    <3> QED
      BY <1>4, <1>5, <2>1, <3>1, <3>2 DEF LostWithReason
  <2>2. CASE i = n
    <3>1. CASE n \in deliveries'
      BY <2>2, <3>1
    <3>2. CASE n \notin deliveries'
      <4> DEFINE x == LossOf({n}, Null, Null, "foreign key")
      <4>1. x \in excused' /\ ~Insertable(n)'
        BY <1>4, <1>6, <3>2
      <4>2. n \in x.posts
        BY DEF LossOf
      <4> QED
        BY <2>2, <4>1, <4>2
    <3> QED BY <3>1, <3>2
  <2> QED BY <1>2, <2>1, <2>2
<1>10. TenantDelivery'
  BY <1>1, <1>2 DEF TenantDelivery
<1>11. MadeForCreated'
  <2>1. endpoint[p] # "none"
    BY DEF FinishTest, MadeForCreated
  <2> QED
    BY <1>1, <1>2, <1>3, <2>1 DEF MadeForCreated
<1>12. ASSUME NEW d \in Dispatchers PROVE AtWork(d)'
  BY <1>3, <1>5 DEF AtWork, Ours, TypeOK
<1> QED
  BY <1>7, <1>8, <1>9, <1>10, <1>11, <1>12

-----------------------------------------------------------------------------
(* Steps of the dispatchers.                                               *)

(* A step that POSTs nothing keeps the invariant when the rows it takes    *)
(* from a dispatcher are recorded or excused.                              *)
LEMMA WorkStep ==
  ASSUME CoreInv, TypeOK', UNCHANGED <<log, endpoint, rule, testing>>,
         deliveries \subseteq deliveries', excused \subseteq excused',
         \A i \in deliveries' : Insertable(i),
         \A d \in Dispatchers : \A i \in Rows(d) :
            \/ i \in deliveries' \cup Rows(d)'
            \/ \E x \in excused' : /\ i \in x.posts
                                   /\ x.why # "foreign key" \/ \E j \in x.posts : ~Insertable(j),
         \A d \in Dispatchers : AtWork(d)'
  PROVE  CoreInv'
<1>1. Posts' = Posts /\ \A i : Insertable(i)' = Insertable(i)
  BY DEF Posts, Insertable
<1>2. DeliveriesHaveParents'
  BY <1>1 DEF DeliveriesHaveParents
<1>3. LostWithReason'
  <2> SUFFICES ASSUME NEW i \in Posts
               PROVE  \/ i \in deliveries'
                      \/ \E d \in Dispatchers : i \in Rows(d)'
                      \/ \E x \in excused' :
                           /\ i \in x.posts
                           /\ x.why # "foreign key" \/ \E j \in x.posts : ~Insertable(j)
    BY <1>1 DEF LostWithReason
  <2>1. CASE \E d \in Dispatchers : i \in Rows(d)
    BY <2>1
  <2>2. CASE ~\E d \in Dispatchers : i \in Rows(d)
    BY <2>2 DEF CoreInv, LostWithReason
  <2> QED BY <2>1, <2>2
<1>4. TenantDelivery' /\ MadeForCreated'
  BY <1>1 DEF CoreInv, TenantDelivery, MadeForCreated
<1> QED
  BY <1>2, <1>3, <1>4 DEF CoreInv

(* A dispatcher that does not move stays at work.                          *)
LEMMA Idle ==
  ASSUME CoreInv, NEW d \in Dispatchers, UNCHANGED <<log, endpoint, rule>>,
         pc'[d] = pc[d], event'[d] = event[d], todo'[d] = todo[d], lane'[d] = lane[d],
         fresh'[d] = fresh[d], inserted'[d] = inserted[d], silent'[d] \subseteq silent[d]
  PROVE  AtWork(d)' /\ Rows(d)' = Rows(d)
BY DEF CoreInv, AtWork, Ours, Insertable, Rows, NewRow

LEMMA PublishStep == ASSUME CoreInv, NEW m \in Events, Publish(m) PROVE CoreInv'
<1> USE DEF Publish, admin, work
<1>1. TypeOK'
  <2>1. inbox' \in [Dispatchers -> Seq(Events)] /\ copies' \in [Events -> Nat]
    BY DEF CoreInv, TypeOK
  <2> QED
    BY <2>1, SameLosses DEF CoreInv, TypeOK
<1>2. \A d \in Dispatchers : AtWork(d)' /\ Rows(d)' = Rows(d)
  BY Idle
<1> QED
  BY <1>1, <1>2, WorkStep DEF CoreInv, DeliveriesHaveParents

LEMMA TakeStep == ASSUME CoreInv, NEW d \in Dispatchers, Take(d) PROVE CoreInv'
<1> DEFINE m == Head(inbox[d])
<1> USE DEF CoreInv
<1>1. /\ pc[d] = "listen" /\ m \in Events
      /\ UNCHANGED <<admin, deliveries, copies, failures, log, excused>>
      /\ inbox' \in [Dispatchers -> Seq(Events)]
  BY DEF Take, Taken, TypeOK
<1>2. CASE UNCHANGED <<work, silent>>
  <2>1. TypeOK'
    BY <1>1, <1>2, SameLosses DEF TypeOK, work, admin
  <2>2. \A e \in Dispatchers : AtWork(e)' /\ Rows(e)' = Rows(e)
    BY <1>1, <1>2, Idle DEF work, admin
  <2> QED
    BY <1>1, <2>1, <2>2, WorkStep DEF DeliveriesHaveParents, admin
<1>3. CASE
        /\ OrgOf[m] # Null
        /\ pc' = [pc EXCEPT ![d] = "lookup"]
        /\ event' = [event EXCEPT ![d] = m]
        /\ todo' = [todo EXCEPT ![d] =
             {[rule |-> r, endpoints |-> targets[r]] : r \in SelectedRules(m)}]
        /\ silent' = [silent EXCEPT ![d] = AllOff]
        /\ UNCHANGED <<lane, fresh, inserted>>
  <2> HIDE DEF m
  <2>1. TypeOK'
    <3>1. todo' \in [Dispatchers -> SUBSET [rule : Rules, endpoints : Seq(Endpoints)]]
      BY <1>3 DEF TypeOK, SelectedRules
    <3>2. silent' \in [Dispatchers -> SUBSET (Rules \cup Endpoints)]
      BY <1>3 DEF TypeOK, AllOff
    <3> QED
      BY <1>1, <1>3, <3>1, <3>2, SameLosses DEF TypeOK, admin
  <2>2. \A e \in Dispatchers : AtWork(e)' /\ Rows(e)' = Rows(e)
    <3> SUFFICES ASSUME NEW e \in Dispatchers PROVE AtWork(e)' /\ Rows(e)' = Rows(e)
      OBVIOUS
    <3>1. CASE e # d
      BY <1>1, <1>3, <3>1, Idle DEF TypeOK, admin
    <3>2. CASE e = d
      <4>1. pc'[d] = "lookup" /\ event'[d] = m /\ rule' = rule
            /\ lane'[d] = lane[d] /\ fresh'[d] = 0 /\ inserted'[d] = {}
        BY <1>1, <1>3 DEF TypeOK, AtWork, admin
      <4>2. lane[d].endpoints = <<>>
        BY <1>1 DEF AtWork
      <4>3. \A t \in todo'[d] : Ours(d, t.rule)'
        BY <1>3, <4>1, IdsAssumption DEF Ours, SelectedRules, InOrg, TypeOK, AllOff
      <4> QED
        BY <1>1, <1>3, <3>2, <4>1, <4>2, <4>3, IdsAssumption
        DEF AtWork, Rows, NewRow, AllOff, TypeOK, admin
    <3> QED BY <3>1, <3>2
  <2> QED
    BY <1>1, <1>3, <2>1, <2>2, WorkStep DEF DeliveriesHaveParents, admin
<1> QED
  BY <1>1, <1>2, <1>3 DEF Take

LEMMA NextRuleStep == ASSUME CoreInv, NEW d \in Dispatchers, NextRule(d) PROVE CoreInv'
<1> USE DEF CoreInv
<1>1. PICK t \in todo[d] : /\ lane' = [lane EXCEPT ![d] = t]
                           /\ todo' = [todo EXCEPT ![d] = @ \ {t}]
  BY DEF NextRule
<1>2. /\ pc[d] = "lookup"
      /\ UNCHANGED <<admin, deliveries, inbox, pc, event, fresh, inserted, copies,
                     failures, log, silent, excused>>
  BY DEF NextRule
<1>3. TypeOK'
  BY <1>1, <1>2, SameLosses DEF TypeOK, admin
<1>4. ASSUME NEW e \in Dispatchers PROVE AtWork(e)' /\ Rows(e)' = Rows(e)
  <2>1. CASE e # d
    BY <1>1, <1>2, <2>1, Idle DEF TypeOK, admin
  <2>2. CASE e = d
    <3>1. lane'[d] = t /\ todo'[d] = todo[d] \ {t} /\ Ours(d, t.rule)
      BY <1>1, <1>2 DEF TypeOK, AtWork
    <3> QED
      BY <1>2, <2>2, <3>1 DEF AtWork, Ours, Insertable, Rows, NewRow, admin
  <2> QED BY <2>1, <2>2
<1> QED
  BY <1>2, <1>3, <1>4, WorkStep DEF DeliveriesHaveParents, admin

LEMMA LookupStep == ASSUME CoreInv, NEW d \in Dispatchers, Lookup(d) PROVE CoreInv'
<1> USE DEF CoreInv
<1>1. /\ pc[d] = "lookup" /\ lane[d].endpoints # <<>>
      /\ \A i \in NewRow(d) : Insertable(i)
      /\ inserted' = [inserted EXCEPT ![d] = Rows(d)]
      /\ fresh' = [fresh EXCEPT ![d] = 0]
      /\ UNCHANGED <<admin, deliveries, inbox, event, todo, copies, failures, log, silent,
                     excused>>
  BY DEF Lookup
<1>2. \/ /\ Reachable(event[d], Head(lane[d].endpoints))
         /\ pc' = [pc EXCEPT ![d] = "post"] /\ UNCHANGED lane
      \/ lane' = [lane EXCEPT ![d].endpoints = Tail(@)] /\ UNCHANGED pc
  BY DEF Lookup
<1>3. Rows(d) \in SUBSET Posts /\ \A i \in Rows(d) : Insertable(i)
  BY <1>1 DEF TypeOK, Rows, NewRow, AtWork
<1>4. /\ lane[d].endpoints \in Seq(Endpoints) /\ Tail(lane[d].endpoints) \in Seq(Endpoints)
      /\ Head(lane[d].endpoints) \in Endpoints
  BY <1>1 DEF TypeOK
<1>5. /\ pc' \in [Dispatchers -> {"listen", "lookup", "post", "down"}]
      /\ lane' \in [Dispatchers -> [rule : Rules \cup {Null}, endpoints : Seq(Endpoints)]]
  <2>1. lane[d] \in [rule : Rules \cup {Null}, endpoints : Seq(Endpoints)]
    BY DEF TypeOK
  <2>2. [lane[d] EXCEPT !.endpoints = Tail(@)]
          \in [rule : Rules \cup {Null}, endpoints : Seq(Endpoints)]
    BY <1>4, <2>1
  <2>3. CASE pc' = [pc EXCEPT ![d] = "post"] /\ UNCHANGED lane
    BY <2>3 DEF TypeOK
  <2>4. CASE lane' = [lane EXCEPT ![d].endpoints = Tail(@)] /\ UNCHANGED pc
    BY <2>2, <2>4 DEF TypeOK
  <2> QED
    BY <1>2, <2>3, <2>4
<1>6. TypeOK'
  BY <1>1, <1>3, <1>5, SameLosses DEF TypeOK, admin
<1>7. ASSUME NEW e \in Dispatchers PROVE AtWork(e)' /\ Rows(e)' = Rows(e)
  <2>1. CASE e # d
    BY <1>1, <1>2, <2>1, Idle DEF TypeOK, admin
  <2>2. CASE e = d
    <3>1. inserted'[d] = Rows(d) /\ fresh'[d] = 0
      BY <1>1 DEF TypeOK
    <3>2. Rows(d)' = Rows(d)
      BY <3>1 DEF Rows, NewRow
    <3>3. \A i \in inserted'[d] : Insertable(i)'
      BY <1>1, <1>3, <3>1 DEF Insertable, admin
    <3>4. \A r : Ours(d, r) => Ours(d, r)'
      BY <1>1 DEF Ours, admin
    <3>5. CASE pc'[d] = "lookup"
      <4>1. lane'[d].rule = lane[d].rule
        BY <1>2, <3>5 DEF TypeOK
      <4> QED
        BY <1>1, <2>2, <3>1, <3>2, <3>3, <3>4, <3>5, <4>1 DEF AtWork, admin
    <3>6. CASE pc'[d] = "post"
      <4>1. Reachable(event[d], Head(lane[d].endpoints)) /\ lane' = lane
        BY <1>1, <1>2, <3>6 DEF TypeOK
      <4>2. Head(lane[d].endpoints) \notin silent[d]
        BY <1>1, <1>4, <4>1 DEF AtWork, Reachable
      <4> QED
        BY <1>1, <2>2, <3>1, <3>2, <3>3, <3>4, <3>6, <4>1, <4>2
        DEF AtWork, Reachable, InOrg, admin
    <3> QED
      BY <1>1, <1>2, <3>5, <3>6 DEF TypeOK
  <2> QED BY <2>1, <2>2
<1> QED
  BY <1>1, <1>6, <1>7, WorkStep DEF DeliveriesHaveParents, admin

LEMMA EmptyLane == <<>> \in Seq(Endpoints)
OBVIOUS

(* The three ways an event ends: committed, given up, or with the process. *)
LEMMA EndStep ==
  ASSUME CoreInv, NEW d \in Dispatchers, NEW label \in {"listen", "down"}, EndEvent(d, label),
         UNCHANGED <<admin, copies, log, silent>>, failures' \in Nat,
         inbox' \in [Dispatchers -> Seq(Events)],
         \/ /\ deliveries' = deliveries \cup Rows(d) /\ excused' = excused
            /\ \A i \in NewRow(d) : Insertable(i)
         \/ /\ deliveries' = deliveries
            /\ \E why \in {"failure", "bad config"} :
                 excused' = excused \cup {LossOf(Rows(d), event[d], d, why)}
         \/ /\ deliveries' = deliveries
            /\ excused' = excused \cup {LossOf(Rows(d), event[d], d, "foreign key")}
            /\ \E i \in NewRow(d) : ~Insertable(i)
  PROVE  CoreInv'
<1> USE DEF CoreInv
<1>1. Rows(d) \subseteq Posts /\ \A i \in inserted[d] : Insertable(i)
  BY DEF TypeOK, Rows, NewRow, AtWork
<1>2. TypeOK'
  <2>1. \A why \in {"failure", "bad config", "foreign key"} :
                LossOf(Rows(d), event[d], d, why) \in LossRecord
    BY <1>1 DEF LossOf, LossRecord, TypeOK
  <2>2. excused' \subseteq LossRecord /\ deliveries' \subseteq Posts
    BY <1>1, <2>1 DEF TypeOK
  <2> QED
    <3>1. /\ pc' \in [Dispatchers -> {"listen", "lookup", "post", "down"}]
          /\ event' \in [Dispatchers -> Events \cup {Null}]
          /\ todo' \in [Dispatchers -> SUBSET [rule : Rules, endpoints : Seq(Endpoints)]]
      BY DEF TypeOK, EndEvent
    <3>2. lane' \in [Dispatchers -> [rule : Rules \cup {Null}, endpoints : Seq(Endpoints)]]
      <4>1. <<>> \in Seq(Endpoints)
        BY EmptyLane
      <4>2. [rule |-> Null, endpoints |-> <<>>]
              \in [rule : Rules \cup {Null}, endpoints : Seq(Endpoints)]
        BY <4>1
      <4> QED
        BY <4>2 DEF TypeOK, EndEvent
    <3>3. /\ fresh' \in [Dispatchers -> Posts \cup {0}]
          /\ inserted' \in [Dispatchers -> SUBSET Posts]
      BY DEF TypeOK, EndEvent
    <3> QED
      BY <2>2, <3>1, <3>2, <3>3, SameLosses DEF TypeOK, admin
<1>3. ASSUME NEW e \in Dispatchers, e # d PROVE AtWork(e)' /\ Rows(e)' = Rows(e)
  BY <1>3, Idle DEF TypeOK, EndEvent, admin
<1>4. AtWork(d)'
  BY DEF AtWork, EndEvent, TypeOK, admin
<1>5. \A i \in Rows(d) :
         \/ i \in deliveries'
         \/ \E x \in excused' : /\ i \in x.posts
                                /\ x.why # "foreign key" \/ \E j \in x.posts : ~Insertable(j)
  BY DEF LossOf, Rows
<1>6. \A i \in deliveries' : Insertable(i)
  BY <1>1 DEF DeliveriesHaveParents, Rows
<1> QED
  BY <1>2, <1>3, <1>4, <1>5, <1>6, WorkStep DEF admin

LEMMA AbortEventStep == ASSUME CoreInv, NEW d \in Dispatchers, AbortEvent(d) PROVE CoreInv'
BY EndStep DEF AbortEvent, GiveUp, CoreInv, TypeOK

LEMMA PostRaisesStep == ASSUME CoreInv, NEW d \in Dispatchers, PostRaises(d) PROVE CoreInv'
BY EndStep DEF PostRaises, GiveUp, CoreInv, TypeOK

LEMMA CommitStep == ASSUME CoreInv, NEW d \in Dispatchers, Commit(d) PROVE CoreInv'
BY EndStep DEF Commit, Kept, CoreInv, TypeOK

LEMMA DieStep == ASSUME CoreInv, NEW d \in Dispatchers, Die(d) PROVE CoreInv'
<1>1. failures' \in Nat /\ inbox' \in [Dispatchers -> Seq(Events)]
  BY DEF Die, CoreInv, TypeOK
<1> QED
  BY <1>1, EndStep DEF Die

LEMMA RestartStep == ASSUME CoreInv, NEW d \in Dispatchers, Restart(d) PROVE CoreInv'
<1> USE DEF CoreInv, Restart
<1>1. TypeOK'
  BY SameLosses DEF TypeOK, admin
<1>2. ASSUME NEW e \in Dispatchers PROVE AtWork(e)' /\ Rows(e)' = Rows(e)
  <2>1. CASE e # d
    BY <2>1, Idle DEF TypeOK, admin
  <2>2. CASE e = d
    BY <2>2 DEF AtWork, TypeOK, Rows, NewRow, admin
  <2> QED BY <2>1, <2>2
<1> QED
  BY <1>1, <1>2, WorkStep DEF DeliveriesHaveParents, admin

(* The step that writes to the log.                                        *)
LEMMA PostStep ==
  ASSUME CoreInv, NEW d \in Dispatchers, NEW ok \in BOOLEAN, Post(d, ok)
  PROVE  /\ CoreInv'
         /\ \E post \in PostRecord :
              /\ log' = Append(log, post) /\ post.by = d
              /\ {post.rule, post.endpoint} \cap silent[d] = {}
<1> USE DEF CoreInv
<1>0. PICK n \in Nat : n = Len(log) + 1
  BY DEF TypeOK
<1> DEFINE p == Head(lane[d].endpoints)
<1> DEFINE post == PostOf(event[d], lane[d].rule, p, ok, d)
<1>1. /\ pc[d] = "post"
      /\ log' = Append(log, post)
      /\ fresh' = [fresh EXCEPT ![d] = n]
      /\ lane' = [lane EXCEPT ![d].endpoints = Tail(@)]
      /\ pc' = [pc EXCEPT ![d] = "lookup"]
      /\ UNCHANGED <<admin, deliveries, inbox, event, todo, inserted, copies, failures,
                     silent, excused>>
  BY <1>0 DEF Post, Remaining
<1>2. /\ Ours(d, lane[d].rule) /\ lane[d].endpoints \in Seq(Endpoints) \ {<<>>}
      /\ p \in Endpoints /\ Tail(lane[d].endpoints) \in Seq(Endpoints)
      /\ endpoint[p] # "none" /\ p \notin silent[d] /\ OrgOf[p] = OrgOf[event[d]]
      /\ event[d] \in Events /\ fresh[d] = 0
  BY <1>1 DEF AtWork, TypeOK
<1>3. /\ post \in PostRecord /\ post.rule = lane[d].rule /\ post.endpoint = p
      /\ post.event = event[d] /\ post.by = d
  BY <1>2 DEF PostOf, PostRecord, Ours
<1> HIDE DEF p, post
<1>4. /\ Posts' = Posts \cup {n} /\ n \notin Posts /\ n \in Nat \ {0}
      /\ \A i \in Posts : log'[i] = log[i]
      /\ log'[n] = post /\ log' \in Seq(PostRecord)
  BY <1>0, <1>1, <1>3, LogGrows
<1>5. \A i \in Posts : Insertable(i)' = Insertable(i)
  BY <1>1, <1>4 DEF Insertable, admin
<1>6. TypeOK'
  <2>1. LossRecord \subseteq LossRecord'
    BY <1>4 DEF LossRecord
  <2>2. fresh' \in [Dispatchers -> Posts' \cup {0}]
    BY <1>1, <1>4 DEF TypeOK
  <2>3. lane' \in [Dispatchers -> [rule : Rules \cup {Null}, endpoints : Seq(Endpoints)]]
    <3>1. lane[d] \in [rule : Rules \cup {Null}, endpoints : Seq(Endpoints)]
      BY DEF TypeOK
    <3>2. [lane[d] EXCEPT !.endpoints = Tail(@)]
            \in [rule : Rules \cup {Null}, endpoints : Seq(Endpoints)]
      BY <1>2, <3>1
    <3> QED
      BY <1>1, <3>2 DEF TypeOK
  <2>4. /\ deliveries' \subseteq Posts' /\ inserted' \in [Dispatchers -> SUBSET Posts']
        /\ excused' \subseteq LossRecord' /\ pc' \in [Dispatchers -> {"listen", "lookup", "post", "down"}]
    BY <1>1, <1>4, <2>1 DEF TypeOK
  <2> QED
    BY <1>1, <1>4, <2>2, <2>3, <2>4 DEF TypeOK, admin
<1>7. DeliveriesHaveParents'
  BY <1>1, <1>5 DEF DeliveriesHaveParents, TypeOK
<1>8. \A e \in Dispatchers : Rows(e) \subseteq Rows(e)'
  <2>1. \A e \in Dispatchers : e # d => fresh'[e] = fresh[e]
    BY <1>1 DEF TypeOK
  <2> QED
    BY <1>1, <1>2, <2>1 DEF Rows, NewRow
<1>9. n \in Rows(d)'
  <2>1. fresh'[d] = n
    BY <1>1 DEF TypeOK
  <2> QED
    BY <1>4, <2>1 DEF Rows, NewRow
<1>10. LostWithReason'
  <2> SUFFICES ASSUME NEW i \in Posts'
               PROVE  \/ i \in deliveries'
                      \/ \E e \in Dispatchers : i \in Rows(e)'
                      \/ \E x \in excused' :
                           /\ i \in x.posts
                           /\ x.why # "foreign key" \/ \E j \in x.posts : ~Insertable(j)'
    BY DEF LostWithReason
  <2>1. CASE i = n
    BY <1>9, <2>1
  <2>2. CASE i \in Posts
    <3>1. \A x \in excused : x.posts \subseteq Posts
      BY DEF TypeOK, LossRecord
    <3> QED
      BY <1>1, <1>5, <1>8, <2>2, <3>1 DEF LostWithReason
  <2> QED BY <1>4, <2>1, <2>2
<1>11. TenantDelivery'
  <2>1. OrgOf[post.endpoint] = OrgOf[post.event] /\ OrgOf[post.rule] = OrgOf[post.event]
    BY <1>2, <1>3 DEF Ours
  <2> QED
    BY <1>4, <2>1 DEF TenantDelivery
<1>12. MadeForCreated'
  <2>1. endpoint[post.endpoint] # "none" /\ rule[post.rule] # "none" /\ post.rule # Null
    BY <1>2, <1>3, NullAssumption DEF Ours
  <2> QED
    BY <1>1, <1>4, <2>1 DEF MadeForCreated, admin
<1>13. ASSUME NEW e \in Dispatchers PROVE AtWork(e)'
  <2>1. \A i \in inserted[e] : Insertable(i)'
    BY <1>5 DEF AtWork, TypeOK
  <2>2. CASE e # d
    BY <1>1, <2>1, <2>2 DEF AtWork, Ours, TypeOK, admin
  <2>3. CASE e = d
    <3>1. pc'[d] = "lookup" /\ lane'[d].rule = lane[d].rule
      BY <1>1 DEF TypeOK
    <3>2. \A r : Ours(d, r) => Ours(d, r)'
      BY <1>1 DEF Ours, admin
    <3> QED
      BY <1>1, <1>2, <2>1, <2>3, <3>1, <3>2 DEF AtWork, TypeOK, admin
  <2> QED BY <2>2, <2>3
<1>14. {post.rule, post.endpoint} \cap silent[d] = {}
  BY <1>2, <1>3 DEF Ours
<1>15. CoreInv'
  BY <1>6, <1>7, <1>10, <1>11, <1>12, <1>13
<1> QED
  BY <1>1, <1>3, <1>14, <1>15

-----------------------------------------------------------------------------
LEMMA NextCore == CoreInv /\ [Next]_vars => CoreInv'
<1> SUFFICES ASSUME CoreInv, [Next]_vars PROVE CoreInv'
  OBVIOUS
<1>1. CASE UNCHANGED vars
  <2>1. TypeOK'
    BY <1>1, SameLosses DEF vars, CoreInv, TypeOK
  <2>2. \A d \in Dispatchers : AtWork(d)' /\ Rows(d)' = Rows(d)
    BY <1>1, Idle DEF vars
  <2> QED
    BY <1>1, <2>1, <2>2, WorkStep DEF vars, CoreInv, DeliveriesHaveParents
<1>2. CASE \E p \in Endpoints :
             \/ \E on, raises \in BOOLEAN :
                  CreateEndpoint(p, on, raises) \/ PatchEndpoint(p, on, raises)
             \/ DeleteEndpoint(p)
  BY <1>2, EndpointStep
<1>3. CASE \E p \in Endpoints : StartTest(p) \/ \E ok \in BOOLEAN : FinishTest(p, ok)
  BY <1>3, StartTestStep, FinishTestStep
<1>4. CASE \E r \in Rules :
             \/ \E f \in Filters, list \in Lists, on \in BOOLEAN :
                  CreateRule(r, f, list, on) \/ PatchRule(r, f, list, on)
             \/ DeleteRule(r)
  BY <1>4, RuleStep, DeleteRuleStep
<1>5. CASE \E m \in Events : Publish(m)
  BY <1>5, PublishStep
<1>6. ASSUME NEW d \in Dispatchers,
             \/ Take(d) \/ NextRule(d) \/ AbortEvent(d) \/ PostRaises(d) \/ Lookup(d)
             \/ \E ok \in BOOLEAN : Post(d, ok)
             \/ Commit(d) \/ Die(d) \/ Restart(d)
      PROVE  CoreInv'
  BY <1>6, TakeStep, NextRuleStep, AbortEventStep, PostRaisesStep, LookupStep, PostStep, CommitStep, DieStep,
     RestartStep
<1> QED
  BY <1>1, <1>2, <1>3, <1>4, <1>5, <1>6 DEF Next

-----------------------------------------------------------------------------
(* How often something is in a sequence.                                   *)
LEMMA FinitePlaces ==
  ASSUME NEW T, NEW s \in Seq(T), NEW K \in SUBSET DOMAIN s
  PROVE  IsFiniteSet(K) /\ Cardinality(K) \in Nat
<1>1. Len(s) \in Nat /\ DOMAIN s = 1..Len(s)
  OBVIOUS
<1>2. IsFiniteSet(DOMAIN s)
  BY <1>1, FS_Interval
<1> QED
  BY <1>2, FS_Subset, FS_CardinalityType

LEMMA PlacesAppended ==
  ASSUME NEW T, NEW s \in Seq(T), NEW x \in T, NEW m
  PROVE  Cardinality(Places(Append(s, x), m)) <= Cardinality(Places(s, m)) + (IF x = m THEN 1 ELSE 0)
<1>1. Len(s) \in Nat /\ Append(s, x) \in Seq(T) /\ DOMAIN Append(s, x) = 1..Len(s) + 1
      /\ DOMAIN s = 1..Len(s) /\ Append(s, x)[Len(s) + 1] = x
      /\ \A k \in 1..Len(s) : Append(s, x)[k] = s[k]
  OBVIOUS
<1>2. IsFiniteSet(Places(s, m)) /\ Cardinality(Places(s, m)) \in Nat
  BY FinitePlaces DEF Places
<1>3. CASE x = m
  <2>1. Places(Append(s, x), m) = Places(s, m) \cup {Len(s) + 1}
    BY <1>1, <1>3 DEF Places
  <2>2. Len(s) + 1 \notin Places(s, m)
    BY <1>1 DEF Places
  <2>3. Cardinality(Places(s, m) \cup {Len(s) + 1}) = Cardinality(Places(s, m)) + 1
    BY <1>2, <2>2, FS_AddElement
  <2> QED
    BY <1>2, <1>3, <2>1, <2>3
<1>4. CASE x # m
  <2>1. Places(Append(s, x), m) = Places(s, m)
    BY <1>1, <1>4 DEF Places
  <2> QED
    BY <1>2, <1>4, <2>1
<1> QED
  BY <1>3, <1>4

LEMMA PlacesInTail ==
  ASSUME NEW T, NEW s \in Seq(T), s # <<>>, NEW m
  PROVE  Cardinality(Places(Tail(s), m)) + (IF Head(s) = m THEN 1 ELSE 0) <= Cardinality(Places(s, m))
<1> DEFINE A == Places(Tail(s), m)
           B == Places(s, m)
           f == [k \in A |-> k + 1]
<1>1. /\ Len(s) \in Nat /\ Len(s) # 0 /\ DOMAIN s = 1..Len(s) /\ Head(s) = s[1]
      /\ DOMAIN Tail(s) = 1..Len(s) - 1 /\ Tail(s) \in Seq(T)
      /\ \A k \in 1..Len(s) - 1 : Tail(s)[k] = s[k + 1]
  OBVIOUS
<1>2. IsFiniteSet(A) /\ Cardinality(A) \in Nat /\ IsFiniteSet(B) /\ Cardinality(B) \in Nat
  BY <1>1, FinitePlaces DEF Places
<1>3. A \subseteq Nat /\ \A k \in A : k + 1 \in B \ {1}
  BY <1>1 DEF Places
<1>4. f \in Injection(A, B \ {1})
  BY <1>3 DEF Injection, IsInjective
<1>5. IsFiniteSet(B \ {1}) /\ Cardinality(B \ {1}) = IF 1 \in B THEN Cardinality(B) - 1 ELSE Cardinality(B)
  BY <1>2, FS_RemoveElement
<1>6. Cardinality(A) <= Cardinality(B \ {1})
  BY <1>4, <1>5, FS_Injection
<1>7. 1 \in B <=> Head(s) = m
  BY <1>1 DEF Places
<1> QED
  BY <1>2, <1>5, <1>6, <1>7

LEMMA OnceInTail ==
  ASSUME NEW T, NEW s \in Seq(T), s # <<>>, NEW p, OnceIn(s, p)
  PROVE  /\ OnceIn(Tail(s), p)
         /\ Head(s) = p => Places(Tail(s), p) = {}
         /\ Places(Tail(s), p) # {} => Places(s, p) # {}
<1>1. /\ Len(s) \in Nat /\ Len(s) # 0 /\ DOMAIN s = 1..Len(s) /\ Head(s) = s[1]
      /\ DOMAIN Tail(s) = 1..Len(s) - 1
      /\ \A k \in 1..Len(s) - 1 : Tail(s)[k] = s[k + 1]
  OBVIOUS
<1>2. \A k \in DOMAIN Tail(s) : k + 1 \in DOMAIN s /\ k + 1 # 1 /\ k \in Nat /\ Tail(s)[k] = s[k + 1]
  BY <1>1
<1>3. OnceIn(Tail(s), p)
  BY <1>2 DEF OnceIn
<1>4. ASSUME Head(s) = p, NEW k \in Places(Tail(s), p) PROVE FALSE
  BY <1>1, <1>2, <1>4 DEF OnceIn, Places
<1>5. Places(Tail(s), p) # {} => Places(s, p) # {}
  BY <1>2 DEF Places
<1> QED
  BY <1>3, <1>4, <1>5

-----------------------------------------------------------------------------
(* What is left to POST.                                                   *)
LEMMA Numbers ==
  ASSUME TypeOK, NEW d \in Dispatchers, NEW m \in Events, NEW r, NEW p
  PROVE  /\ IsFiniteSet(PostsOf(d, m, r, p)) /\ Cardinality(PostsOf(d, m, r, p)) \in Nat
         /\ Cardinality(Places(inbox[d], m)) \in Nat /\ copies[m] \in Nat
<1>1. log \in Seq(PostRecord) /\ PostsOf(d, m, r, p) \in SUBSET DOMAIN log
  BY DEF TypeOK, PostsOf, Posts
<1>2. inbox[d] \in Seq(Events) /\ Places(inbox[d], m) \in SUBSET DOMAIN inbox[d]
  BY DEF TypeOK, Places
<1> QED
  BY <1>1, <1>2, FinitePlaces DEF TypeOK

(* A step that POSTs nothing, hands over nothing and takes up nothing.     *)
LEMMA Unhurried ==
  ASSUME TypeOK, Counted, UNCHANGED <<log, copies>>,
         \A d \in Dispatchers : inbox'[d] = inbox[d] \/ inbox'[d] = <<>>,
         \A d \in Dispatchers, m \in Events, r \in Rules, p \in Endpoints :
           Once(p) /\ Due(d, m, r, p)' => Due(d, m, r, p)
  PROVE  Counted'
<1> SUFFICES ASSUME NEW d \in Dispatchers, NEW m \in Events, NEW r \in Rules, NEW p \in Endpoints,
                    Once(p)
             PROVE  Cardinality(PostsOf(d, m, r, p)') + Cardinality(Places(inbox'[d], m))
                      + (IF Due(d, m, r, p)' THEN 1 ELSE 0) <= copies'[m]
  BY DEF Counted
<1>1. PostsOf(d, m, r, p)' = PostsOf(d, m, r, p)
  BY DEF PostsOf, Posts
<1>2. Cardinality(PostsOf(d, m, r, p)) + Cardinality(Places(inbox[d], m))
        + (IF Due(d, m, r, p) THEN 1 ELSE 0) <= copies[m]
  BY DEF Counted
<1>3. Places(<<>>, m) = {} /\ Cardinality({}) = 0
  BY FS_EmptySet DEF Places
<1>4. /\ Cardinality(PostsOf(d, m, r, p)) \in Nat /\ Cardinality(Places(inbox[d], m)) \in Nat
      /\ copies[m] \in Nat /\ copies'[m] = copies[m]
  BY Numbers
<1>5. Cardinality(Places(inbox'[d], m)) \in Nat
      /\ Cardinality(Places(inbox'[d], m)) <= Cardinality(Places(inbox[d], m))
  <2>1. CASE inbox'[d] = inbox[d]
    BY <1>4, <2>1
  <2>2. CASE inbox'[d] = <<>>
    <3>1. Cardinality(Places(inbox'[d], m)) = 0
      BY <1>3, <2>2
    <3> QED
      BY <1>4, <3>1
  <2> QED
    BY <2>1, <2>2
<1>6. Due(d, m, r, p)' => Due(d, m, r, p)
  OBVIOUS
<1>7. (IF Due(d, m, r, p)' THEN 1 ELSE 0) <= (IF Due(d, m, r, p) THEN 1 ELSE 0)
  BY <1>6
<1> QED
  BY <1>1, <1>2, <1>4, <1>5, <1>7

(* Requests do not disturb what a dispatcher has taken.                    *)
LEMMA RequestKeeps ==
  ASSUME TypeOK, NamedOnce, Counted, UNCHANGED <<work, inbox, copies, log>>,
         \A r \in Rules : targets'[r] = targets[r] \/ targets'[r] \in Lists
  PROVE  (NamedOnce /\ Counted)'
<1>1. \A d \in Dispatchers : TakenOnce(d)'
  BY DEF NamedOnce, TakenOnce, work
<1>2. \A r \in Rules, p \in Endpoints : Once(p) => OnceIn(targets'[r], p)
  BY DEF NamedOnce, Once
<1>3. \A d \in Dispatchers, m \in Events, r \in Rules, p \in Endpoints :
        Due(d, m, r, p)' => Due(d, m, r, p)
  BY DEF Due, work
<1> QED
  BY <1>1, <1>2, <1>3, Unhurried DEF NamedOnce

LEMMA TestKeeps ==
  ASSUME TypeOK, NamedOnce, Counted, NEW q \in Endpoints, NEW ok \in BOOLEAN, FinishTest(q, ok)
  PROVE  (NamedOnce /\ Counted)'
<1>1. UNCHANGED <<targets, inbox, work, copies>>
  BY DEF FinishTest
<1>2. NamedOnce'
  BY <1>1 DEF NamedOnce, TakenOnce, work
<1>3. ASSUME NEW d \in Dispatchers, NEW m \in Events, NEW r, NEW p
      PROVE  PostsOf(d, m, r, p)' = PostsOf(d, m, r, p) /\ (Due(d, m, r, p)' <=> Due(d, m, r, p))
  <2> DEFINE post == PostOf(Null, Null, q, ok, Null)
  <2>1. post \in PostRecord /\ post.event = Null /\ log' = Append(log, post)
    BY DEF PostOf, PostRecord, FinishTest
  <2> HIDE DEF post
  <2>2. /\ Posts' = Posts \cup {Len(log) + 1} /\ \A i \in Posts : log'[i] = log[i]
        /\ log'[Len(log) + 1] = post
    BY <2>1, LogGrows
  <2>3. m # Null
    BY NullAssumption
  <2>4. PostsOf(d, m, r, p)' = PostsOf(d, m, r, p)
    BY <2>1, <2>2, <2>3 DEF PostsOf
  <2>5. Due(d, m, r, p)' <=> Due(d, m, r, p)
    BY <1>1 DEF Due, work
  <2> QED
    BY <2>4, <2>5
<1>4. Counted'
  BY <1>1, <1>3 DEF Counted
<1> QED
  BY <1>2, <1>4

LEMMA PublishKeeps ==
  ASSUME TypeOK, NamedOnce, Counted, NEW x \in Events, Publish(x) PROVE (NamedOnce /\ Counted)'
<1>1. UNCHANGED <<targets, work, log>>
  BY DEF Publish, admin
<1>2. NamedOnce'
  BY <1>1 DEF NamedOnce, TakenOnce, work
<1>3. ASSUME NEW d \in Dispatchers, NEW m \in Events, NEW r \in Rules, NEW p \in Endpoints, Once(p)
      PROVE  Cardinality(PostsOf(d, m, r, p)') + Cardinality(Places(inbox'[d], m))
               + (IF Due(d, m, r, p)' THEN 1 ELSE 0) <= copies'[m]
  <2>1. PostsOf(d, m, r, p)' = PostsOf(d, m, r, p) /\ (Due(d, m, r, p)' <=> Due(d, m, r, p))
    BY <1>1 DEF PostsOf, Posts, Due, work
  <2>2. Cardinality(PostsOf(d, m, r, p)) + Cardinality(Places(inbox[d], m))
          + (IF Due(d, m, r, p) THEN 1 ELSE 0) <= copies[m]
    BY <1>3 DEF Counted
  <2>3. copies'[m] = copies[m] + (IF x = m THEN 1 ELSE 0)
    BY DEF Publish, TypeOK
  <2>4. Cardinality(Places(inbox'[d], m))
          <= Cardinality(Places(inbox[d], m)) + (IF x = m THEN 1 ELSE 0)
    <3>1. CASE inbox'[d] = <<>>
      <4>1. Places(<<>>, m) = {} /\ Cardinality({}) = 0
        BY FS_EmptySet DEF Places
      <4>2. Cardinality(Places(inbox'[d], m)) = 0
        BY <3>1, <4>1
      <4>3. Cardinality(Places(inbox[d], m)) \in Nat
        BY Numbers
      <4> QED
        BY <4>2, <4>3
    <3>2. CASE inbox'[d] = Append(inbox[d], x)
      BY <3>2, PlacesAppended DEF TypeOK
    <3> QED
      BY <3>1, <3>2 DEF Publish
  <2>5. Cardinality(Places(inbox'[d], m)) \in Nat
    <3>1. inbox'[d] \in Seq(Events)
      BY DEF Publish, TypeOK
    <3> QED
      BY <3>1, FinitePlaces DEF Places
  <2> QED
    BY <2>1, <2>2, <2>3, <2>4, <2>5, Numbers
<1> QED
  BY <1>2, <1>3 DEF Counted

LEMMA TakeKeeps ==
  ASSUME CoreInv, NamedOnce, Counted, NEW e \in Dispatchers, Take(e) PROVE (NamedOnce /\ Counted)'
<1> USE DEF CoreInv
<1> DEFINE x == Head(inbox[e])
<1>1. /\ UNCHANGED <<targets, copies, log, lane>> /\ pc[e] = "listen" /\ inbox[e] # <<>>
      /\ inbox' = [inbox EXCEPT ![e] = Tail(@)] /\ lane[e].endpoints = <<>>
      /\ inbox[e] \in Seq(Events) /\ x \in Events
  BY DEF Take, Taken, admin, work, AtWork, TypeOK
<1>2. \/ UNCHANGED <<event, todo>>
      \/ /\ event' = [event EXCEPT ![e] = x]
         /\ todo' = [todo EXCEPT ![e] =
              {[rule |-> r, endpoints |-> targets[r]] : r \in SelectedRules(x)}]
  BY DEF Take, work
<1> HIDE DEF x
<1>3. ASSUME NEW d \in Dispatchers PROVE TakenOnce(d)'
  <2>1. CASE event'[d] = event[d] /\ todo'[d] = todo[d]
    BY <1>1, <2>1 DEF NamedOnce, TakenOnce
  <2>2. CASE /\ d = e
             /\ todo'[d] = {[rule |-> r, endpoints |-> targets[r]] : r \in SelectedRules(x)}
    <3>1. SelectedRules(x) \subseteq Rules
      BY DEF SelectedRules
    <3>2. ASSUME NEW p \in Endpoints, Once(p) PROVE OnceIn(lane'[d].endpoints, p)
      BY <1>1, <2>2 DEF OnceIn
    <3> QED
      BY <1>1, <2>2, <3>1, <3>2 DEF NamedOnce, TakenOnce
  <2> QED
    BY <1>2, <2>1, <2>2 DEF TypeOK
<1>4. NamedOnce'
  BY <1>1, <1>3 DEF NamedOnce
<1>5. ASSUME NEW d \in Dispatchers, NEW m \in Events, NEW r \in Rules, NEW p \in Endpoints, Once(p)
      PROVE  Cardinality(PostsOf(d, m, r, p)') + Cardinality(Places(inbox'[d], m))
               + (IF Due(d, m, r, p)' THEN 1 ELSE 0) <= copies'[m]
  <2>1. PostsOf(d, m, r, p)' = PostsOf(d, m, r, p)
    BY <1>1 DEF PostsOf, Posts
  <2>2. Cardinality(PostsOf(d, m, r, p)) + Cardinality(Places(inbox[d], m))
          + (IF Due(d, m, r, p) THEN 1 ELSE 0) <= copies[m]
    BY <1>5 DEF Counted
  <2>3. CASE d # e
    <3>1. inbox'[d] = inbox[d] /\ event'[d] = event[d] /\ todo'[d] = todo[d]
      BY <1>1, <1>2, <2>3 DEF TypeOK
    <3>2. Due(d, m, r, p)' <=> Due(d, m, r, p)
      BY <1>1, <3>1 DEF Due
    <3> QED
      BY <1>1, <2>1, <2>2, <3>1, <3>2
  <2>4. CASE d = e
    <3>1. inbox'[d] = Tail(inbox[d]) /\ Tail(inbox[d]) \in Seq(Events)
      BY <1>1, <2>4 DEF TypeOK
    <3>2. Cardinality(Places(Tail(inbox[d]), m)) + (IF x = m THEN 1 ELSE 0)
            <= Cardinality(Places(inbox[d], m))
      BY <1>1, <2>4, PlacesInTail DEF x
    <3>3. Due(d, m, r, p)' => Due(d, m, r, p) \/ x = m
      BY <1>1, <1>2, <2>4 DEF Due, TypeOK
    <3>4. Cardinality(Places(Tail(inbox[d]), m)) \in Nat
      BY <3>1, FinitePlaces DEF Places
    <3> QED
      BY <1>1, <2>1, <2>2, <3>1, <3>2, <3>3, <3>4, Numbers
  <2> QED
    BY <2>3, <2>4
<1> QED
  BY <1>4, <1>5 DEF Counted

LEMMA NextRuleKeeps ==
  ASSUME TypeOK, NamedOnce, Counted, NEW e \in Dispatchers, NextRule(e) PROVE (NamedOnce /\ Counted)'
<1>1. /\ UNCHANGED <<targets, inbox, event, copies, log>>
      /\ \E t \in todo[e] : /\ lane' = [lane EXCEPT ![e] = t]
                            /\ todo' = [todo EXCEPT ![e] = @ \ {t}]
  BY DEF NextRule, admin
<1>2. PICK t \in todo[e] : /\ lane' = [lane EXCEPT ![e] = t]
                           /\ todo' = [todo EXCEPT ![e] = @ \ {t}]
  BY <1>1
<1>3. ASSUME NEW d \in Dispatchers
      PROVE  TakenOnce(d)' /\ \A m, r, p : Due(d, m, r, p)' => Due(d, m, r, p)
  <2>1. CASE d # e
    <3>1. lane'[d] = lane[d] /\ todo'[d] = todo[d]
      BY <1>2, <2>1 DEF TypeOK
    <3> QED
      BY <1>1, <3>1 DEF NamedOnce, TakenOnce, Due
  <2>2. CASE d = e
    <3>1. lane'[d] = t /\ todo'[d] = todo[d] \ {t}
      BY <1>2, <2>2 DEF TypeOK
    <3> QED
      BY <1>1, <2>2, <3>1 DEF NamedOnce, TakenOnce, Due
  <2> QED
    BY <2>1, <2>2
<1> QED
  BY <1>1, <1>3, Unhurried DEF NamedOnce

LEMMA LookupKeeps ==
  ASSUME TypeOK, NamedOnce, Counted, NEW e \in Dispatchers, Lookup(e) PROVE (NamedOnce /\ Counted)'
<1>1. /\ UNCHANGED <<targets, inbox, event, todo, copies, log>> /\ lane[e].endpoints # <<>>
      /\ lane' = lane \/ lane' = [lane EXCEPT ![e].endpoints = Tail(@)]
      /\ lane[e].endpoints \in Seq(Endpoints)
  BY DEF Lookup, admin, TypeOK
<1>2. ASSUME NEW d \in Dispatchers
      PROVE  /\ TakenOnce(d)'
             /\ \A m, r : \A p \in Endpoints : Once(p) /\ Due(d, m, r, p)' => Due(d, m, r, p)
  <2>1. CASE lane'[d] = lane[d]
    BY <1>1, <2>1 DEF NamedOnce, TakenOnce, Due
  <2>2. CASE d = e /\ lane'[d].rule = lane[d].rule /\ lane'[d].endpoints = Tail(lane[d].endpoints)
    <3>1. \A p \in Endpoints : Once(p) =>
            /\ OnceIn(Tail(lane[d].endpoints), p)
            /\ Places(Tail(lane[d].endpoints), p) # {} => Places(lane[d].endpoints, p) # {}
      BY <1>1, <2>2, OnceInTail DEF NamedOnce, TakenOnce
    <3> QED
      BY <1>1, <2>2, <3>1 DEF NamedOnce, TakenOnce, Due
  <2>3. lane[d] \in [rule : Rules \cup {Null}, endpoints : Seq(Endpoints)]
    BY DEF TypeOK
  <2>4. CASE lane' = lane
    BY <2>1, <2>4
  <2>5. CASE lane' = [lane EXCEPT ![e].endpoints = Tail(@)]
    <3>1. CASE d # e
      <4>1. lane'[d] = lane[d]
        BY <2>5, <3>1 DEF TypeOK
      <4> QED
        BY <2>1, <4>1
    <3>2. CASE d = e
      <4>1. lane'[d] = [lane[d] EXCEPT !.endpoints = Tail(@)]
        BY <2>5, <3>2 DEF TypeOK
      <4>2. lane'[d].rule = lane[d].rule /\ lane'[d].endpoints = Tail(lane[d].endpoints)
        BY <2>3, <4>1
      <4> QED
        BY <2>2, <3>2, <4>2
    <3> QED
      BY <3>1, <3>2
  <2> QED
    BY <1>1, <2>4, <2>5
<1> QED
  BY <1>1, <1>2, Unhurried DEF NamedOnce

(* However an event ends, nothing of it is left to POST.                   *)
LEMMA EndKeeps ==
  ASSUME TypeOK, NamedOnce, Counted, NEW e \in Dispatchers, NEW label, EndEvent(e, label),
         UNCHANGED <<targets, copies, log>>,
         \A d \in Dispatchers : inbox'[d] = inbox[d] \/ inbox'[d] = <<>>
  PROVE  (NamedOnce /\ Counted)'
<1>1. ASSUME NEW d \in Dispatchers
      PROVE  TakenOnce(d)' /\ \A m, r, p : Due(d, m, r, p)' => Due(d, m, r, p)
  <2>1. CASE d # e
    <3>1. lane'[d] = lane[d] /\ todo'[d] = todo[d] /\ event'[d] = event[d]
      BY <2>1 DEF TypeOK, EndEvent
    <3> QED
      BY <3>1 DEF NamedOnce, TakenOnce, Due
  <2>2. CASE d = e
    <3>1. lane'[d].endpoints = <<>> /\ todo'[d] = {}
      BY <2>2 DEF TypeOK, EndEvent
    <3>2. \A p : OnceIn(<<>>, p) /\ Places(<<>>, p) = {}
      BY DEF OnceIn, Places
    <3> QED
      BY <3>1, <3>2 DEF TakenOnce, Due
  <2> QED
    BY <2>1, <2>2
<1> QED
  BY <1>1, Unhurried DEF NamedOnce

(* The POST that was due.                                                  *)
LEMMA PostKeeps ==
  ASSUME CoreInv, NamedOnce, Counted, NEW e \in Dispatchers, NEW ok \in BOOLEAN, Post(e, ok)
  PROVE  (NamedOnce /\ Counted)'
<1> USE DEF CoreInv
<1> DEFINE q == Head(lane[e].endpoints)
           post == PostOf(event[e], lane[e].rule, q, ok, e)
<1>1. /\ UNCHANGED <<targets, inbox, event, todo, copies>> /\ log' = Append(log, post)
      /\ lane' = [lane EXCEPT ![e].endpoints = Tail(@)]
      /\ lane[e].endpoints # <<>> /\ lane[e].endpoints \in Seq(Endpoints)
      /\ q \in Endpoints /\ event[e] \in Events /\ lane[e].rule \in Rules
  BY DEF Post, Remaining, admin, AtWork, Ours, TypeOK
<1>2. /\ post \in PostRecord /\ post.by = e /\ post.event = event[e]
      /\ post.rule = lane[e].rule /\ post.endpoint = q
  BY <1>1 DEF PostOf, PostRecord
<1> HIDE DEF post
<1>3. /\ Posts' = Posts \cup {Len(log) + 1} /\ Len(log) + 1 \notin Posts
      /\ \A i \in Posts : log'[i] = log[i]
      /\ log'[Len(log) + 1] = post
  BY <1>1, <1>2, LogGrows
<1>4. \A p \in Endpoints : Once(p) =>
        /\ OnceIn(Tail(lane[e].endpoints), p)
        /\ q = p => Places(Tail(lane[e].endpoints), p) = {}
        /\ Places(Tail(lane[e].endpoints), p) # {} => Places(lane[e].endpoints, p) # {}
  BY <1>1, OnceInTail DEF NamedOnce, TakenOnce
<1>5. 1 \in Places(lane[e].endpoints, q)
  BY <1>1 DEF Places
<1>6. /\ lane'[e].rule = lane[e].rule /\ lane'[e].endpoints = Tail(lane[e].endpoints)
      /\ \A d \in Dispatchers : d # e => lane'[d] = lane[d]
  BY <1>1 DEF TypeOK
<1> HIDE DEF q
<1>7. ASSUME NEW d \in Dispatchers PROVE TakenOnce(d)'
  BY <1>1, <1>4, <1>6 DEF NamedOnce, TakenOnce
<1>8. NamedOnce'
  BY <1>1, <1>7 DEF NamedOnce
<1>9. ASSUME NEW d \in Dispatchers, NEW m \in Events, NEW r \in Rules, NEW p \in Endpoints, Once(p)
      PROVE  Cardinality(PostsOf(d, m, r, p)') + Cardinality(Places(inbox'[d], m))
               + (IF Due(d, m, r, p)' THEN 1 ELSE 0) <= copies'[m]
  <2>1. Cardinality(PostsOf(d, m, r, p)) + Cardinality(Places(inbox[d], m))
          + (IF Due(d, m, r, p) THEN 1 ELSE 0) <= copies[m]
    BY <1>9 DEF Counted
  <2>2. Due(d, m, r, p)' => Due(d, m, r, p)
    BY <1>1, <1>4, <1>6, <1>9 DEF Due
  <2>3. CASE d = e /\ m = event[e] /\ r = lane[e].rule /\ p = q
    <3>1. Due(d, m, r, p)
      BY <1>5, <2>3 DEF Due
    <3>2. ~Due(d, m, r, p)'
      BY <1>1, <1>4, <1>6, <1>9, <2>3 DEF Due, NamedOnce, TakenOnce
    <3>3. PostsOf(d, m, r, p)' = PostsOf(d, m, r, p) \cup {Len(log) + 1}
      BY <1>2, <1>3, <2>3 DEF PostsOf
    <3>4. Len(log) + 1 \notin PostsOf(d, m, r, p)
      BY <1>3 DEF PostsOf
    <3>5. Cardinality(PostsOf(d, m, r, p)') = Cardinality(PostsOf(d, m, r, p)) + 1
      BY <3>3, <3>4, FS_AddElement, Numbers
    <3> QED
      BY <1>1, <2>1, <3>1, <3>2, <3>5, Numbers
  <2>4. CASE ~(d = e /\ m = event[e] /\ r = lane[e].rule /\ p = q)
    <3>1. PostsOf(d, m, r, p)' = PostsOf(d, m, r, p)
      BY <1>2, <1>3, <2>4 DEF PostsOf
    <3> QED
      BY <1>1, <2>1, <2>2, <3>1, Numbers
  <2> QED
    BY <2>3, <2>4
<1> QED
  BY <1>8, <1>9 DEF Counted

-----------------------------------------------------------------------------
LEMMA InitIInv == Init => IInv
<1> SUFFICES ASSUME Init PROVE IInv
  OBVIOUS
<1>1. CoreInv
  BY InitCore
<1>2. \A p : OnceIn(<<>>, p) /\ Places(<<>>, p) = {}
  BY DEF OnceIn, Places
<1>3. NamedOnce
  BY <1>2 DEF Init, NamedOnce, TakenOnce
<1>4. ASSUME NEW d \in Dispatchers, NEW m \in Events, NEW r \in Rules, NEW p \in Endpoints
      PROVE  PostsOf(d, m, r, p) = {} /\ Places(inbox[d], m) = {} /\ ~Due(d, m, r, p) /\ copies[m] = 0
  <2>1. Posts = {} /\ inbox[d] = <<>> /\ todo[d] = {} /\ lane[d].endpoints = <<>> /\ copies[m] = 0
    BY DEF Init, Posts
  <2> QED
    BY <1>2, <2>1 DEF PostsOf, Due
<1>5. Counted
  BY <1>4, FS_EmptySet DEF Counted
<1> QED
  BY <1>1, <1>3, <1>5 DEF IInv

LEMMA NextIInv == IInv /\ [Next]_vars => IInv'
<1> SUFFICES ASSUME IInv, [Next]_vars PROVE (NamedOnce /\ Counted)'
  BY NextCore DEF IInv
<1>0. CoreInv /\ TypeOK /\ NamedOnce /\ Counted
  BY DEF IInv, CoreInv
<1>1. CASE UNCHANGED vars
  BY <1>0, <1>1, RequestKeeps DEF vars, work
<1>2. ASSUME NEW p \in Endpoints,
             \/ \E on, raises \in BOOLEAN :
                  CreateEndpoint(p, on, raises) \/ PatchEndpoint(p, on, raises)
             \/ DeleteEndpoint(p) \/ StartTest(p)
      PROVE  (NamedOnce /\ Counted)'
  <2>1. UNCHANGED <<work, inbox, copies, log, targets>>
    BY <1>2 DEF CreateEndpoint, PatchEndpoint, DeleteEndpoint, StartTest, Edit, WriteEndpoint
  <2> QED
    BY <1>0, <2>1, RequestKeeps
<1>3. ASSUME NEW r \in Rules,
             \/ \E f \in Filters, list \in Lists, on \in BOOLEAN :
                  CreateRule(r, f, list, on) \/ PatchRule(r, f, list, on)
             \/ DeleteRule(r)
      PROVE  (NamedOnce /\ Counted)'
  <2>1. UNCHANGED <<work, inbox, copies, log>>
    BY <1>3 DEF CreateRule, PatchRule, DeleteRule, Edit
  <2>2. targets' = targets \/ \E list \in Lists : targets' = [targets EXCEPT ![r] = list]
    BY <1>3 DEF CreateRule, PatchRule, DeleteRule, WriteRule
  <2>3. \A q \in Rules : targets'[q] = targets[q] \/ targets'[q] \in Lists
    BY <1>0, <2>2 DEF TypeOK
  <2> QED
    BY <1>0, <2>1, <2>3, RequestKeeps
<1>4. ASSUME NEW d \in Dispatchers, NEW label, EndEvent(d, label), UNCHANGED <<admin, copies, log>>,
             \A q \in Dispatchers : inbox'[q] = inbox[q] \/ inbox'[q] = <<>>
      PROVE  (NamedOnce /\ Counted)'
  BY <1>0, <1>4, EndKeeps DEF admin
<1>5. ASSUME NEW d \in Dispatchers, AbortEvent(d) \/ PostRaises(d) \/ Commit(d) \/ Die(d)
      PROVE  (NamedOnce /\ Counted)'
  <2>1. CASE AbortEvent(d) \/ PostRaises(d) \/ Commit(d)
    BY <1>4, <2>1 DEF AbortEvent, PostRaises, GiveUp, Commit
  <2>2. CASE Die(d)
    <3>1. \A q \in Dispatchers : inbox'[q] = inbox[q] \/ inbox'[q] = <<>>
      BY <1>0, <2>2 DEF Die, TypeOK
    <3> QED
      BY <1>4, <2>2, <3>1 DEF Die
  <2> QED
    BY <1>5, <2>1, <2>2
<1>6. ASSUME NEW d \in Dispatchers, Restart(d) PROVE (NamedOnce /\ Counted)'
  <2>1. UNCHANGED <<targets, inbox, event, todo, lane, copies, log>>
    BY <1>6 DEF Restart, admin
  <2>2. NamedOnce'
    BY <1>0, <2>1 DEF NamedOnce, TakenOnce
  <2>3. \A q \in Dispatchers, m \in Events, r \in Rules, p \in Endpoints :
          Due(q, m, r, p)' => Due(q, m, r, p)
    BY <2>1 DEF Due
  <2> QED
    BY <1>0, <2>1, <2>2, <2>3, Unhurried
<1> QED
  BY <1>0, <1>1, <1>2, <1>3, <1>5, <1>6, TestKeeps, PublishKeeps, TakeKeeps, NextRuleKeeps,
     LookupKeeps, PostKeeps DEF Next

(* The inductive invariant holds in every reachable state.                 *)
THEOREM Invariance == Spec => []IInv
BY InitIInv, NextIInv, PTL DEF Spec

(* Every variable has its type.                                            *)
THEOREM TypeCorrect == Spec => []TypeOK
<1>1. IInv => TypeOK BY DEF IInv, CoreInv
<1> QED BY <1>1, Invariance, PTL

(* Deletes never take the rule or the endpoint of a recorded delivery.     *)
THEOREM HistoryKept == Spec => []DeliveriesHaveParents
<1>1. IInv => DeliveriesHaveParents BY DEF IInv, CoreInv
<1> QED BY <1>1, Invariance, PTL

(* The record of a POST is lost by a failure of the process or a delete    *)
(* only.                                                                   *)
THEOREM LossesHaveReasons == Spec => []LostWithReason
<1>1. IInv => LostWithReason BY DEF IInv, CoreInv
<1> QED BY <1>1, Invariance, PTL

(* No event leaves its organization.                                       *)
THEOREM EventsStayInTenant == Spec => []TenantDelivery
<1>1. IInv => TenantDelivery BY DEF IInv, CoreInv
<1> QED BY <1>1, Invariance, PTL

(* What is off when a message is taken, and stays off, is not notified.    *)
THEOREM OffIsSilent == Spec => OffStaysSilent
<1> DEFINE Quiet == Len(log') > Len(log) =>
                      LET n == log'[Len(log')]
                      IN  n.by # Null => {n.rule, n.endpoint} \cap silent[n.by] = {}
<1>1. ASSUME CoreInv, [Next]_vars PROVE [Quiet]_vars
  <2>1. CASE UNCHANGED log
    BY <2>1 DEF CoreInv, TypeOK
  <2>2. CASE \E d \in Dispatchers, ok \in BOOLEAN : Post(d, ok)
    <3>1. PICK d \in Dispatchers, ok \in BOOLEAN : Post(d, ok)
      BY <2>2
    <3>2. PICK post \in PostRecord : /\ log' = Append(log, post) /\ post.by = d
                                     /\ {post.rule, post.endpoint} \cap silent[d] = {}
      BY <1>1, <3>1, PostStep
    <3>3. log'[Len(log')] = post
      BY <3>2 DEF CoreInv, TypeOK
    <3> QED
      BY <3>2, <3>3
  <2>3. CASE \E p \in Endpoints, ok \in BOOLEAN : FinishTest(p, ok)
    <3>1. PICK p \in Endpoints, ok \in BOOLEAN : FinishTest(p, ok)
      BY <2>3
    <3>2. log' = Append(log, PostOf(Null, Null, p, ok, Null))
      BY <3>1 DEF FinishTest
    <3>3. PostOf(Null, Null, p, ok, Null) \in PostRecord
          /\ PostOf(Null, Null, p, ok, Null).by = Null
      BY DEF PostOf, PostRecord
    <3>4. log'[Len(log')] = PostOf(Null, Null, p, ok, Null)
      BY <3>2, <3>3 DEF CoreInv, TypeOK
    <3> QED
      BY <3>3, <3>4
  <2> QED
    BY <1>1, <2>1, <2>2, <2>3
    DEF Next, vars, Edit, WriteEndpoint, GiveUp, PostRaises, CreateEndpoint, PatchEndpoint, DeleteEndpoint, CreateRule, PatchRule,
        DeleteRule, StartTest, Publish, Take, NextRule, AbortEvent, Lookup, Commit, Die, Restart
<1>2. IInv => CoreInv
  BY DEF IInv
<1> QED
  BY <1>1, <1>2, Invariance, PTL DEF Spec, OffStaysSilent

(* For any lists, rules and number of dispatchers: a process POSTs a       *)
(* publication at most once for a rule and an endpoint, so that the        *)
(* duplicates an endpoint sees come from the publisher or from several     *)
(* processes (_dispatch_event, the rules selected once per message).       *)
THEOREM PostsAreNotRepeated == Spec => []NeverRepeated
<1>1. IInv => NeverRepeated
  <2> SUFFICES ASSUME IInv, NEW d \in Dispatchers, NEW m \in Events, NEW r \in Rules,
                      NEW p \in Endpoints, Once(p)
               PROVE  Cardinality(PostsOf(d, m, r, p)) <= copies[m]
    BY DEF NeverRepeated
  <2>1. Cardinality(PostsOf(d, m, r, p)) + Cardinality(Places(inbox[d], m))
          + (IF Due(d, m, r, p) THEN 1 ELSE 0) <= copies[m]
    BY DEF IInv, Counted
  <2> QED
    BY <2>1, Numbers DEF IInv, CoreInv
<1> QED
  BY <1>1, Invariance, PTL
=============================================================================

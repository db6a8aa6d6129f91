----------------------- MODULE NotificationDispatcher -----------------------
(***************************************************************************)
(* Notifications: the dispatcher (backend/adhkar/notifications/            *)
(* dispatcher.py) and the endpoints and rules administrators keep          *)
(* (backend/adhkar/api/v1/notifications.py).                               *)
(*                                                                         *)
(* The dispatcher of each server process listens to the messages of all    *)
(* organizations.  For a message it selects the enabled rules once, then,  *)
(* for each endpoint of each matching rule, selects the endpoint, POSTs    *)
(* and adds a delivery row; one commit ends the event.  A row is inserted  *)
(* by the autoflush of the next select (or by the commit), and only then   *)
(* are its foreign keys checked and its rule and endpoint locked.          *)
(*                                                                         *)
(* The names (409 when taken) are left out, what a POST comes to is        *)
(* nondeterministic, and of the config of an endpoint remains whether      *)
(* httpx raises on it anything but an HTTPError (InvalidURL, TypeError):   *)
(* _post_webhook catches only that.                                        *)
(***************************************************************************)
EXTENDS Naturals, Sequences, FiniteSets

CONSTANTS Events,       \* the events that are published
          Rules,        \* ids of notification rules
          Endpoints,    \* ids of notification endpoints
          Orgs,         \* organizations
          OrgOf,        \* of an event, a rule or an endpoint; Null for global
          Fields,       \* the JSON members of an event, by key
          Filters,      \* event filters: a set of accepted values per key
          Lists,        \* values of endpoint_ids
          Dispatchers,  \* server processes, a dispatcher in each
          MaxCopies,    \* bound: publications of an event, resends included
          MaxEdits,     \* bound: requests of administrators
          MaxFailures,  \* bound: lost Redis connections and crashes
          Null

ASSUME NullAssumption == Null \notin Orgs \cup Rules \cup Endpoints \cup Events
ASSUME IdsAssumption == Rules \cap Endpoints = {}
ASSUME OrgOfAssumption ==
  /\ OrgOf \in [Events \cup Rules \cup Endpoints -> Orgs \cup {Null}]
  /\ \A x \in Rules \cup Endpoints : OrgOf[x] \in Orgs
ASSUME ListsAssumption == Lists \subseteq Seq(Endpoints)
ASSUME BoundsAssumption == MaxCopies \in Nat /\ MaxEdits \in Nat /\ MaxFailures \in Nat

VARIABLES endpoint,   \* endpoint[p]: none, on, off or deleted
          bad,        \* endpoints with a config that makes _post_webhook raise
          rule,       \* rule[r]: none, on, off or deleted
          filter,     \* event_filter of a rule
          targets,    \* endpoint_ids of a rule
          deliveries, \* committed delivery rows, named by their POST
          inbox,      \* messages a dispatcher has not taken
          pc,         \* listen, lookup, post or down
          event,      \* the event at hand
          todo,       \* rules selected and not yet started
          lane,       \* the rule at hand and its endpoints left
          fresh,      \* a row added and not yet inserted, 0 for none
          inserted,   \* rows inserted and not committed
          testing,    \* endpoints whose test request is running
          copies,     \* publications of an event so far
          edits, failures,
          log,        \* history: the POSTs so far
          silent,     \* history: rules and endpoints off since the event was taken
          excused     \* history: POSTs whose transaction was lost, and why

admin == <<endpoint, bad, rule, filter, targets, testing, edits>>
work == <<pc, event, todo, lane, fresh, inserted>>
vars == <<endpoint, bad, rule, filter, targets, deliveries, inbox, pc, event, todo,
          lane, fresh, inserted, testing, copies, edits, failures, log, silent, excused>>

Exists(x) == x \in {"on", "off"}
AllOff == {r \in Rules : rule[r] # "on"} \cup {p \in Endpoints : endpoint[p] # "on"}
Turned(x, on) == [d \in Dispatchers |-> IF on THEN silent[d] \ {x} ELSE silent[d]]

(* A row can be inserted when its rule and endpoint still exist.           *)
Insertable(i) ==
  /\ log[i].rule = Null \/ Exists(rule[log[i].rule])
  /\ Exists(endpoint[log[i].endpoint])
Refers(i, x) == log[i].rule = x \/ log[i].endpoint = x

(* A DELETE of x waits for transactions that inserted a row referring to   *)
(* it and then fails if one such row is committed.                         *)
Locked(x) == \E d \in Dispatchers : \E i \in inserted[d] : Refers(i, x)
Used(x) == \E i \in deliveries : Refers(i, x)

Init ==
  /\ endpoint = [p \in Endpoints |-> "none"]
  /\ bad = {}
  /\ rule = [r \in Rules |-> "none"]
  /\ filter = [r \in Rules |-> Null]
  /\ targets = [r \in Rules |-> <<>>]
  /\ deliveries = {}
  /\ inbox = [d \in Dispatchers |-> <<>>]
  /\ pc = [d \in Dispatchers |-> "listen"]
  /\ event = [d \in Dispatchers |-> Null]
  /\ todo = [d \in Dispatchers |-> {}]
  /\ lane = [d \in Dispatchers |-> [rule |-> Null, endpoints |-> <<>>]]
  /\ fresh = [d \in Dispatchers |-> 0]
  /\ inserted = [d \in Dispatchers |-> {}]
  /\ testing = {}
  /\ copies = [m \in Events |-> 0]
  /\ edits = 0 /\ failures = 0
  /\ log = <<>>
  /\ silent = [d \in Dispatchers |-> {}]
  /\ excused = {}

-----------------------------------------------------------------------------
(* Requests of administrators (manageConfig).                              *)
Edit ==
  /\ edits < MaxEdits
  /\ edits' = edits + 1
  /\ UNCHANGED <<deliveries, inbox, work, copies, failures, log, excused>>

WriteEndpoint(p, on, raises) ==
  /\ endpoint' = [endpoint EXCEPT ![p] = IF on THEN "on" ELSE "off"]
  /\ bad' = IF raises THEN bad \cup {p} ELSE bad \ {p}
  /\ silent' = Turned(p, on)
  /\ UNCHANGED <<rule, filter, targets, testing>>

CreateEndpoint(p, on, raises) ==
  Edit /\ endpoint[p] = "none" /\ WriteEndpoint(p, on, raises)

PatchEndpoint(p, on, raises) ==
  Edit /\ Exists(endpoint[p]) /\ WriteEndpoint(p, on, raises)

DeleteEndpoint(p) ==
  /\ Edit /\ Exists(endpoint[p])
  /\ ~Locked(p) /\ ~Used(p)
  /\ endpoint' = [endpoint EXCEPT ![p] = "deleted"]
  /\ UNCHANGED <<bad, rule, filter, targets, testing, silent>>

(* _verify_endpoints: the endpoints exist in the organization of the rule. *)
VerifyEndpoints(r, list) ==
  \A k \in DOMAIN list : Exists(endpoint[list[k]]) /\ OrgOf[list[k]] = OrgOf[r]

WriteRule(r, f, list, on) ==
  /\ rule' = [rule EXCEPT ![r] = IF on THEN "on" ELSE "off"]
  /\ filter' = [filter EXCEPT ![r] = f]
  /\ targets' = [targets EXCEPT ![r] = list]
  /\ silent' = Turned(r, on)
  /\ UNCHANGED <<endpoint, bad, testing>>

CreateRule(r, f, list, on) ==
  /\ Edit /\ rule[r] = "none"
  /\ VerifyEndpoints(r, list)
  /\ WriteRule(r, f, list, on)

(* A list that is not in the patch is kept, and then not verified again.   *)
PatchRule(r, f, list, on) ==
  /\ Edit /\ Exists(rule[r])
  /\ list = targets[r] \/ VerifyEndpoints(r, list)
  /\ WriteRule(r, f, list, on)

DeleteRule(r) ==
  /\ Edit /\ Exists(rule[r])
  /\ ~Locked(r) /\ ~Used(r)
  /\ rule' = [rule EXCEPT ![r] = "deleted"]
  /\ UNCHANGED <<endpoint, bad, filter, targets, testing, silent>>

(* The test button: select the endpoint, POST, add a row.  The endpoint    *)
(* may be off, and may be deleted before the row is inserted (500).  With  *)
(* a bad config the request ends there (500).                              *)
StartTest(p) ==
  /\ Edit /\ Exists(endpoint[p]) /\ p \notin bad
  /\ p \notin testing
  /\ testing' = testing \cup {p}
  /\ UNCHANGED <<endpoint, bad, rule, filter, targets, silent>>

LossOf(posts, m, d, why) == [posts |-> posts, event |-> m, by |-> d, why |-> why]
PostOf(m, r, p, ok, d) == [event |-> m, rule |-> r, endpoint |-> p, ok |-> ok, by |-> d]

FinishTest(p, ok) ==
  /\ p \in testing
  /\ testing' = testing \ {p}
  /\ log' = Append(log, PostOf(Null, Null, p, ok, Null))
  /\ IF Exists(endpoint[p])
       THEN deliveries' = deliveries \cup {Len(log) + 1} /\ UNCHANGED excused
       ELSE /\ excused' = excused \cup {LossOf({Len(log) + 1}, Null, Null, "foreign key")}
            /\ UNCHANGED deliveries
  /\ UNCHANGED <<endpoint, bad, rule, filter, targets, edits, inbox, work, copies,
                 failures, silent>>

-----------------------------------------------------------------------------
(* Redis hands a publication to the dispatchers subscribed at the moment.  *)
Publish(m) ==
  /\ copies[m] < MaxCopies
  /\ copies' = [copies EXCEPT ![m] = @ + 1]
  /\ inbox' = [d \in Dispatchers |-> IF pc[d] = "down" THEN <<>> ELSE Append(inbox[d], m)]
  /\ UNCHANGED <<admin, deliveries, work, failures, log, silent, excused>>

(* _matches: a key the event does not have counts as None.                 *)
Get(m, k) == IF k \in DOMAIN Fields[m] THEN Fields[m][k] ELSE Null
Matches(f, m) == \A k \in DOMAIN f : Get(m, k) \in f[k]

(* Both selects are scoped to the organization of the channel.             *)
AnyOrg(x, m) == TRUE
InOrg(x, m) == OrgOf[x] = OrgOf[m]

OffRulesToo(m) ==
  {r \in Rules : Exists(rule[r]) /\ InOrg(r, m) /\ Matches(filter[r], m)}
SelectedRules(m) ==
  {r \in Rules : rule[r] = "on" /\ InOrg(r, m) /\ Matches(filter[r], m)}

Requeued(d) == inbox[d]
Taken(d) == Tail(inbox[d])

(* The loop of the dispatcher takes a message: the one of the global       *)
(* channel is skipped, for the others the rules are selected.              *)
Take(d) ==
  /\ pc[d] = "listen" /\ inbox[d] # <<>>
  /\ inbox' = [inbox EXCEPT ![d] = Taken(d)]
  /\ LET m == Head(inbox[d]) IN
       IF OrgOf[m] = Null
         THEN UNCHANGED <<work, silent>>
         ELSE /\ pc' = [pc EXCEPT ![d] = "lookup"]
              /\ event' = [event EXCEPT ![d] = m]
              /\ todo' = [todo EXCEPT ![d] =
                   {[rule |-> r, endpoints |-> targets[r]] : r \in SelectedRules(m)}]
              /\ silent' = [silent EXCEPT ![d] = AllOff]
              /\ UNCHANGED <<lane, fresh, inserted>>
  /\ UNCHANGED <<admin, deliveries, copies, failures, log, excused>>

NextRule(d) ==
  /\ pc[d] = "lookup" /\ lane[d].endpoints = <<>>
  /\ \E t \in todo[d] :
       /\ lane' = [lane EXCEPT ![d] = t]
       /\ todo' = [todo EXCEPT ![d] = @ \ {t}]
  /\ UNCHANGED <<admin, deliveries, inbox, pc, event, fresh, inserted, copies, failures,
                 log, silent, excused>>

(* The rows of the event, and the end of its transaction.                  *)
NewRow(d) == IF fresh[d] = 0 THEN {} ELSE {fresh[d]}
Rows(d) == inserted[d] \cup NewRow(d)

EndEvent(d, label) ==
  /\ pc' = [pc EXCEPT ![d] = label]
  /\ event' = [event EXCEPT ![d] = Null]
  /\ todo' = [todo EXCEPT ![d] = {}]
  /\ lane' = [lane EXCEPT ![d] = [rule |-> Null, endpoints |-> <<>>]]
  /\ fresh' = [fresh EXCEPT ![d] = 0]
  /\ inserted' = [inserted EXCEPT ![d] = {}]

Reachable(m, p) == endpoint[p] = "on" /\ InOrg(p, m)
Raises(d) == Reachable(event[d], Head(lane[d].endpoints)) /\ Head(lane[d].endpoints) \in bad

(* An exception leaves _dispatch_event: the transaction is rolled back,    *)
(* the loop logs it and goes on with the next message.                     *)
GiveUp(d, why) ==
  /\ EndEvent(d, "listen")
  /\ excused' = excused \cup {LossOf(Rows(d), event[d], d, why)}
  /\ UNCHANGED <<admin, deliveries, inbox, copies, failures, log, silent>>

(* A flush that fails.                                                     *)
AbortEvent(d) ==
  /\ pc[d] = "lookup"
  /\ lane[d].endpoints # <<>> \/ todo[d] = {}
  /\ \E i \in NewRow(d) : ~Insertable(i)
  /\ GiveUp(d, "foreign key")

(* The config of the endpoint selected makes _post_webhook raise.          *)
PostRaises(d) ==
  /\ pc[d] = "lookup" /\ lane[d].endpoints # <<>>
  /\ \A i \in NewRow(d) : Insertable(i)
  /\ Raises(d)
  /\ GiveUp(d, "bad config")

(* The select of an endpoint, which first flushes the row added last.      *)
Lookup(d) ==
  /\ pc[d] = "lookup" /\ lane[d].endpoints # <<>>
  /\ \A i \in NewRow(d) : Insertable(i)
  /\ ~Raises(d)
  /\ inserted' = [inserted EXCEPT ![d] = Rows(d)]
  /\ fresh' = [fresh EXCEPT ![d] = 0]
  /\ IF Reachable(event[d], Head(lane[d].endpoints))
       THEN pc' = [pc EXCEPT ![d] = "post"] /\ UNCHANGED lane
       ELSE lane' = [lane EXCEPT ![d].endpoints = Tail(@)] /\ UNCHANGED pc
  /\ UNCHANGED <<admin, deliveries, inbox, event, todo, copies, failures, log, silent,
                 excused>>

(* _post_webhook and db.add: a failed POST is a row as well.               *)
FirstFailureEnds(ok, rest) == IF ok THEN rest ELSE <<>>
Remaining(ok, rest) == rest

Post(d, ok) ==
  /\ pc[d] = "post"
  /\ log' = Append(log, PostOf(event[d], lane[d].rule, Head(lane[d].endpoints), ok, d))
  /\ fresh' = [fresh EXCEPT ![d] = Len(log) + 1]
  /\ lane' = [lane EXCEPT ![d].endpoints = Remaining(ok, Tail(@))]
  /\ pc' = [pc EXCEPT ![d] = "lookup"]
  /\ UNCHANGED <<admin, deliveries, inbox, event, todo, inserted, copies, failures,
                 silent, excused>>

InsertedOnly(d) == inserted[d]
Kept(d) == Rows(d)

Commit(d) ==
  /\ pc[d] = "lookup" /\ lane[d].endpoints = <<>> /\ todo[d] = {}
  /\ \A i \in NewRow(d) : Insertable(i)
  /\ deliveries' = deliveries \cup Kept(d)
  /\ EndEvent(d, "listen")
  /\ UNCHANGED <<admin, inbox, copies, failures, log, silent, excused>>

(* The Redis connection is lost or the process dies: the exception ends    *)
(* the task, the database rolls back, and the messages are gone.  Only a   *)
(* restart of the process starts a dispatcher again.                       *)
Die(d) ==
  /\ pc[d] # "down"
  /\ failures < MaxFailures
  /\ failures' = failures + 1
  /\ EndEvent(d, "down")
  /\ inbox' = [inbox EXCEPT ![d] = <<>>]
  /\ excused' = excused \cup {LossOf(Rows(d), event[d], d, "failure")}
  /\ UNCHANGED <<admin, deliveries, copies, log, silent>>

Restart(d) ==
  /\ pc[d] = "down"
  /\ pc' = [pc EXCEPT ![d] = "listen"]
  /\ UNCHANGED <<admin, deliveries, inbox, event, todo, lane, fresh, inserted, copies,
                 failures, log, silent, excused>>

Next ==
  \/ \E p \in Endpoints :
       \/ \E on, raises \in BOOLEAN :
            CreateEndpoint(p, on, raises) \/ PatchEndpoint(p, on, raises)
       \/ DeleteEndpoint(p)
       \/ StartTest(p)
       \/ \E ok \in BOOLEAN : FinishTest(p, ok)
  \/ \E r \in Rules :
       \/ \E f \in Filters, list \in Lists, on \in BOOLEAN :
            CreateRule(r, f, list, on) \/ PatchRule(r, f, list, on)
       \/ DeleteRule(r)
  \/ \E m \in Events : Publish(m)
  \/ \E d \in Dispatchers :
       \/ Take(d)
       \/ NextRule(d)
       \/ AbortEvent(d)
       \/ PostRaises(d)
       \/ Lookup(d)
       \/ \E ok \in BOOLEAN : Post(d, ok)
       \/ Commit(d)
       \/ Die(d)
       \/ Restart(d)

Spec == Init /\ [][Next]_vars

(* A task that can take a step takes it: a POST times out after 10 s, a    *)
(* flush or a commit ends, and a process that died is started again.       *)
Fairness ==
  \A d \in Dispatchers :
    /\ WF_vars(Take(d)) /\ WF_vars(NextRule(d)) /\ WF_vars(AbortEvent(d))
    /\ WF_vars(PostRaises(d)) /\ WF_vars(Lookup(d))
    /\ WF_vars(\E ok \in BOOLEAN : Post(d, ok)) /\ WF_vars(Commit(d))
    /\ WF_vars(Restart(d))

FairSpec == Spec /\ Fairness

-----------------------------------------------------------------------------
(* Properties.                                                             *)

Posts == DOMAIN log
PostRecord == [event : Events \cup {Null}, rule : Rules \cup {Null},
               endpoint : Endpoints, ok : BOOLEAN, by : Dispatchers \cup {Null}]
LossRecord == [posts : SUBSET Posts, event : Events \cup {Null},
               by : Dispatchers \cup {Null}, why : {"foreign key", "bad config", "failure"}]

(* Every variable has its type.                                            *)
TypeOK ==
  /\ endpoint \in [Endpoints -> {"none", "on", "off", "deleted"}]
  /\ bad \subseteq Endpoints
  /\ rule \in [Rules -> {"none", "on", "off", "deleted"}]
  /\ filter \in [Rules -> Filters \cup {Null}]
  /\ targets \in [Rules -> Seq(Endpoints)]
  /\ log \in Seq(PostRecord)
  /\ deliveries \subseteq Posts
  /\ inbox \in [Dispatchers -> Seq(Events)]
  /\ pc \in [Dispatchers -> {"listen", "lookup", "post", "down"}]
  /\ event \in [Dispatchers -> Events \cup {Null}]
  /\ todo \in [Dispatchers -> SUBSET [rule : Rules, endpoints : Seq(Endpoints)]]
  /\ lane \in [Dispatchers -> [rule : Rules \cup {Null}, endpoints : Seq(Endpoints)]]
  /\ fresh \in [Dispatchers -> Posts \cup {0}]
  /\ inserted \in [Dispatchers -> SUBSET Posts]
  /\ testing \subseteq Endpoints
  /\ copies \in [Events -> Nat] /\ edits \in Nat /\ failures \in Nat
  /\ silent \in [Dispatchers -> SUBSET (Rules \cup Endpoints)]
  /\ excused \subseteq LossRecord

(* A recorded delivery keeps the rule and the endpoint it was made for:    *)
(* neither a delete racing with a dispatch nor a later one takes them away *)
(* (delete_endpoint, delete_rule, the foreign keys of migration 0010).     *)
DeliveriesHaveParents == \A i \in deliveries : Insertable(i)

(* The record of a POST is lost only with the transaction of its event,    *)
(* and that only if the process failed, the config of an endpoint was bad, *)
(* or a rule or an endpoint of one of its POSTs was deleted meanwhile      *)
(* (_dispatch_event, test_endpoint).                                       *)
LostWithReason ==
  \A i \in Posts :
    \/ i \in deliveries
    \/ \E d \in Dispatchers : i \in Rows(d)
    \/ \E x \in excused :
         /\ i \in x.posts
         /\ x.why # "foreign key" \/ \E j \in x.posts : ~Insertable(j)

(* An event of one organization is never sent to an endpoint of another,   *)
(* nor on behalf of a rule of another (_dispatch_event, _verify_endpoints).*)
TenantDelivery ==
  \A i \in Posts :
    log[i].event # Null =>
      /\ OrgOf[log[i].endpoint] = OrgOf[log[i].event]
      /\ OrgOf[log[i].rule] = OrgOf[log[i].event]

(* Why: what a dispatcher is at work on belongs to the organization of its *)
(* event, was created before, and has been on since the event was taken;   *)
(* rows that are inserted are locked.                                      *)
Ours(d, r) == /\ r \in Rules /\ rule[r] # "none" /\ OrgOf[r] = OrgOf[event[d]]
              /\ r \notin silent[d]
AtWork(d) ==
  /\ pc[d] \in {"listen", "down"} =>
       fresh[d] = 0 /\ inserted[d] = {} /\ lane[d].endpoints = <<>>
  /\ pc[d] \in {"lookup", "post"} => event[d] \in Events /\ OrgOf[event[d]] # Null
  /\ pc[d] \in {"lookup", "post"} => \A t \in todo[d] : Ours(d, t.rule)
  /\ pc[d] = "lookup" /\ lane[d].endpoints # <<>> => Ours(d, lane[d].rule)
  /\ pc[d] = "post" =>
       /\ Ours(d, lane[d].rule) /\ lane[d].endpoints # <<>>
       /\ endpoint[Head(lane[d].endpoints)] # "none"
       /\ Head(lane[d].endpoints) \notin silent[d]
       /\ OrgOf[Head(lane[d].endpoints)] = OrgOf[event[d]]
  /\ pc[d] = "post" => fresh[d] = 0
  /\ \A i \in inserted[d] : Insertable(i)
  /\ \A p \in silent[d] \cap Endpoints : endpoint[p] # "on"
MadeForCreated ==
  /\ \A i \in Posts : /\ endpoint[log[i].endpoint] # "none"
                      /\ log[i].rule # Null => rule[log[i].rule] # "none"
                      /\ log[i].event # Null => log[i].rule # Null
  /\ \A p \in testing : endpoint[p] # "none"
CoreInv ==
  /\ TypeOK /\ DeliveriesHaveParents /\ LostWithReason /\ TenantDelivery
  /\ MadeForCreated /\ \A d \in Dispatchers : AtWork(d)

(* One publication is POSTed at most once for a rule and an endpoint by    *)
(* each process: duplicates only come from the publisher.  (Of endpoints   *)
(* that no list names twice.)                                              *)
OnceIn(list, p) == \A j, k \in DOMAIN list : list[j] = p /\ list[k] = p => j = k
Once(p) == \A list \in Lists : OnceIn(list, p)
PostsOf(d, m, r, p) ==
  {i \in Posts : log[i].by = d /\ log[i].event = m /\ log[i].rule = r /\ log[i].endpoint = p}
NeverRepeated ==
  \A d \in Dispatchers, m \in Events, r \in Rules, p \in Endpoints :
    Once(p) => Cardinality(PostsOf(d, m, r, p)) <= copies[m]

(* Why: each publication that a process was handed is in its inbox, is the *)
(* event at hand and may still come to one POST for the rule and the       *)
(* endpoint, or has had that POST; no rule is selected twice.              *)
Places(s, m) == {k \in DOMAIN s : s[k] = m}
Due(d, m, r, p) ==
  /\ event[d] = m
  /\ \/ \E t \in todo[d] : t.rule = r
     \/ lane[d].rule = r /\ Places(lane[d].endpoints, p) # {}
Counted ==
  \A d \in Dispatchers, m \in Events, r \in Rules, p \in Endpoints :
    Once(p) => Cardinality(PostsOf(d, m, r, p)) + Cardinality(Places(inbox[d], m))
                 + (IF Due(d, m, r, p) THEN 1 ELSE 0) <= copies[m]
TakenOnce(d) ==
  /\ \A t, u \in todo[d] : t.rule = u.rule => t = u
  /\ lane[d].endpoints # <<>> => \A t \in todo[d] : t.rule # lane[d].rule
  /\ \A p \in Endpoints : Once(p) =>
       OnceIn(lane[d].endpoints, p) /\ \A t \in todo[d] : OnceIn(t.endpoints, p)
NamedOnce ==
  /\ \A r \in Rules, p \in Endpoints : Once(p) => OnceIn(targets[r], p)
  /\ \A d \in Dispatchers : TakenOnce(d)
IInv == CoreInv /\ NamedOnce /\ Counted

(* A rule or an endpoint that has been off, deleted or missing ever since  *)
(* before a message was taken hears nothing of it, though rules are read   *)
(* once and endpoints while the event is under way (_dispatch_event).      *)
OffStaysSilent ==
  [][Len(log') > Len(log) =>
       LET n == log'[Len(log')]
       IN  n.by # Null => {n.rule, n.endpoint} \cap silent[n.by] = {}]_vars

Wanted(m, r, p) ==
  /\ rule[r] = "on" /\ InOrg(r, m) /\ Matches(filter[r], m)
  /\ endpoint[p] = "on" /\ \E k \in DOMAIN targets[r] : targets[r][k] = p
Arrived(d, m) == \E k \in DOMAIN inbox[d] : inbox[d][k] = m
Posted(m, r, p) ==
  \E i \in Posts : log[i].event = m /\ log[i].rule = r /\ log[i].endpoint = p
Given(d, m) == \E x \in excused : x.by = d /\ (x.event = m \/ x.why = "failure")

(* A message that reached a dispatcher is POSTed to each endpoint that a   *)
(* matching rule names, as long as both stay as they are: a refused or     *)
(* slow endpoint, or other rules, do not keep it from the others.  The     *)
(* excuse is Given: the dispatcher failed, at any time, or it rolled the   *)
(* event of this message back (a config that raises, a deleted parent).    *)
Notified ==
  \A d \in Dispatchers, m \in Events, r \in Rules, p \in Endpoints :
    Arrived(d, m) /\ OrgOf[m] # Null /\ Wanted(m, r, p)
      ~> Posted(m, r, p) \/ ~Wanted(m, r, p) \/ Given(d, m)

-----------------------------------------------------------------------------
(* What a comment promises.                                                *)

(* "For each matched (rule, endpoint) pair we record a                     *)
(* NotificationDelivery row" (the module comment of dispatcher.py): when a *)
(* dispatcher that never failed is back in its loop, its POSTs are         *)
(* recorded.                                                               *)
EachPairRecorded ==
  \A i \in Posts :
    /\ log[i].by # Null /\ pc[log[i].by] = "listen"
    /\ \A x \in excused : x.by = log[i].by => x.why # "failure"
    => i \in deliveries
=============================================================================

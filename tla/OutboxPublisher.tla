--------------------------- MODULE OutboxPublisher ---------------------------
(***************************************************************************)
(* The outbox publisher (backend/adhkar/workers/outbox_publisher.py) and   *)
(* the live feed (backend/adhkar/api/v1/live.py).                          *)
(*                                                                         *)
(* Requests write outbox rows in their own transaction.  Each server       *)
(* process runs one publisher: in one transaction it selects the oldest    *)
(* unpublished rows, publishes each to Redis, then commits published_at.   *)
(* An exception or a crash rolls that back, after messages have left.      *)
(* Redis delivers a message to the subscribers of the moment.              *)
(*                                                                         *)
(* created_at is now() of PostgreSQL: the start of the transaction.  Two   *)
(* transactions do not start in the same microsecond.                      *)
(***************************************************************************)
EXTENDS Naturals, FiniteSets

CONSTANTS Events,       \* outbox rows
          Orgs,         \* organizations
          OrgOf,        \* the organization of a row, Null for a global one
          Processes,    \* server processes, a publisher in each
          Clients,      \* websocket clients of the live feed
          BatchSize,    \* BATCH_SIZE
          MaxFailures,  \* bound: failed iterations, crashes and lost clients
          Null

ASSUME NullAssumption == Null \notin Orgs
ASSUME BatchAssumption == BatchSize \in Nat \ {0}
ASSUME OrgOfAssumption == OrgOf \in [Events -> Orgs \cup {Null}]
ASSUME FailuresAssumption == MaxFailures \in Nat

VARIABLES row,       \* row[e]: none, open, pending, published or rolledBack
          created,   \* created_at, 0 before
          now,       \* transactions started so far
          pc,        \* where a publisher is: down, poll, send or commit
          todo,      \* rows selected by an iteration, not yet sent
          done,      \* rows sent by an iteration
          conn,      \* the organization a client is subscribed to, or Null
          queued,    \* messages on their way to a client
          heard,     \* messages a client got since it connected
          failures,  \* failures so far
          earlier,   \* history: rows committed when a row's transaction began
          sent,      \* history: how often a process has sent a row
          lost       \* history: how often that was in a failed iteration

bus == <<conn, queued, heard>>
work == <<pc, todo, done>>
history == <<sent, lost>>
vars == <<row, created, now, pc, todo, done, conn, queued, heard, failures,
          earlier, sent, lost>>

Pending == {e \in Events : row[e] = "pending"}
Committed == {e \in Events : row[e] \in {"pending", "published"}}

Init ==
  /\ row = [e \in Events |-> "none"]
  /\ created = [e \in Events |-> 0]
  /\ now = 0
  /\ pc = [p \in Processes |-> "poll"]
  /\ todo = [p \in Processes |-> {}]
  /\ done = [p \in Processes |-> {}]
  /\ conn = [c \in Clients |-> Null]
  /\ queued = [c \in Clients |-> {}]
  /\ heard = [c \in Clients |-> {}]
  /\ failures = 0
  /\ earlier = [e \in Events |-> {}]
  /\ sent = [p \in Processes |-> [e \in Events |-> 0]]
  /\ lost = [p \in Processes |-> [e \in Events |-> 0]]

-----------------------------------------------------------------------------
(* Requests: a mutation's transaction starts, then commits or rolls back.  *)
BeginMutation(e) ==
  /\ row[e] = "none"
  /\ row' = [row EXCEPT ![e] = "open"]
  /\ now' = now + 1
  /\ created' = [created EXCEPT ![e] = now + 1]
  /\ earlier' = [earlier EXCEPT ![e] = Committed]
  /\ UNCHANGED <<work, bus, failures, history>>

EndMutation(e) ==
  /\ row[e] = "open"
  /\ \E end \in {"pending", "rolledBack"} : row' = [row EXCEPT ![e] = end]
  /\ UNCHANGED <<created, now, work, bus, failures, earlier, history>>

-----------------------------------------------------------------------------
(* The publisher.                                                          *)

(* Rows visible to the select: committed and published_at is null.         *)
UncommittedToo == {e \in Events : row[e] \in {"open", "pending"}}
Selectable == Pending

(* order_by(created_at).limit(BATCH_SIZE)                                  *)
AnyBatch(batch) == batch # {} /\ batch \subseteq Selectable
OldestBatch(batch) ==
  /\ batch \subseteq Selectable
  /\ \A e \in batch, d \in Selectable \ batch : created[e] < created[d]
  /\ \/ Cardinality(batch) = BatchSize
     \/ Cardinality(batch) <= BatchSize /\ batch = Selectable

(* The start of an iteration of _publish_pending that finds rows.          *)
Poll(p) ==
  /\ pc[p] = "poll"
  /\ \E batch \in SUBSET Selectable \ {{}} :
       /\ OldestBatch(batch)
       /\ todo' = [todo EXCEPT ![p] = batch]
  /\ pc' = [pc EXCEPT ![p] = "send"]
  /\ UNCHANGED <<row, created, now, done, bus, failures, earlier, history>>

(* redis.publish on _channel(org): the subscribers of the channel get it.  *)
Subscribers(e) == {c \in Clients : conn[c] # Null /\ conn[c] = OrgOf[e]}

Publish(p, e) ==
  /\ pc[p] = "send" /\ e \in todo[p]
  /\ \A d \in todo[p] : created[e] <= created[d]
  /\ todo' = [todo EXCEPT ![p] = @ \ {e}]
  /\ done' = [done EXCEPT ![p] = @ \cup {e}]
  /\ pc' = [pc EXCEPT ![p] = IF todo[p] = {e} THEN "commit" ELSE "send"]
  /\ queued' = [c \in Clients |-> IF c \in Subscribers(e) THEN queued[c] \cup {e}
                                                          ELSE queued[c]]
  /\ sent' = [sent EXCEPT ![p][e] = @ + 1]
  /\ UNCHANGED <<row, created, now, conn, heard, failures, earlier, lost>>

(* What the commit marks: the rows that were sent.                         *)
NoneMarked(p) == {}
Marked(p) == done[p]

CommitBatch(p) ==
  /\ pc[p] = "commit"
  /\ row' = [e \in Events |-> IF e \in Marked(p) THEN "published" ELSE row[e]]
  /\ pc' = [pc EXCEPT ![p] = "poll"]
  /\ done' = [done EXCEPT ![p] = {}]
  /\ UNCHANGED <<created, now, todo, bus, failures, earlier, history>>

(* The iteration is given up and its transaction rolled back: after an     *)
(* error of Redis or PostgreSQL the loop goes on, after a crash or a       *)
(* shutdown the process is down.                                           *)
KeepMarks(p) ==
  row' = [e \in Events |-> IF e \in todo[p] \cup done[p] THEN "published" ELSE row[e]]
MarkFailed(p) ==
  row' = [e \in Events |-> IF e \in todo[p] \cup done[p] THEN "failed" ELSE row[e]]
RollBack(p) == UNCHANGED row

GiveUp(p, label) ==
  /\ failures < MaxFailures
  /\ failures' = failures + 1
  /\ pc' = [pc EXCEPT ![p] = label]
  /\ todo' = [todo EXCEPT ![p] = {}]
  /\ done' = [done EXCEPT ![p] = {}]
  /\ lost' = [lost EXCEPT ![p] = [e \in Events |-> IF e \in done[p] THEN @[e] + 1 ELSE @[e]]]
  /\ RollBack(p)
  /\ UNCHANGED <<created, now, bus, earlier, sent>>

FailBatch(p) == pc[p] \in {"send", "commit"} /\ GiveUp(p, "poll")
Crash(p) == pc[p] # "down" /\ GiveUp(p, "down")

Restart(p) ==
  /\ pc[p] = "down"
  /\ pc' = [pc EXCEPT ![p] = "poll"]
  /\ UNCHANGED <<row, created, now, todo, done, bus, failures, earlier, history>>

-----------------------------------------------------------------------------
(* The live feed: a client connects with a token, hears the channel of the *)
(* token's organization, and is lost.                                      *)
Accepted(typ, o) == typ = "access" /\ o # Null

Connect(c, typ, o) ==
  /\ conn[c] = Null /\ Accepted(typ, o)
  /\ conn' = [conn EXCEPT ![c] = o]
  /\ UNCHANGED <<row, created, now, work, queued, heard, failures, earlier, history>>

Forward(c, e) ==
  /\ e \in queued[c]
  /\ queued' = [queued EXCEPT ![c] = @ \ {e}]
  /\ heard' = [heard EXCEPT ![c] = @ \cup {e}]
  /\ UNCHANGED <<row, created, now, work, conn, failures, earlier, history>>

Disconnect(c) ==
  /\ conn[c] # Null
  /\ failures < MaxFailures
  /\ failures' = failures + 1
  /\ conn' = [conn EXCEPT ![c] = Null]
  /\ queued' = [queued EXCEPT ![c] = {}]
  /\ heard' = [heard EXCEPT ![c] = {}]
  /\ UNCHANGED <<row, created, now, work, earlier, history>>

Next ==
  \/ \E e \in Events : BeginMutation(e) \/ EndMutation(e)
  \/ \E p \in Processes :
       \/ Poll(p)
       \/ \E e \in Events : Publish(p, e)
       \/ CommitBatch(p)
       \/ FailBatch(p)
       \/ Crash(p)
       \/ Restart(p)
  \/ \E c \in Clients :
       \/ \E typ \in {"access", "refresh"}, o \in Orgs \cup {Null} : Connect(c, typ, o)
       \/ \E e \in Events : Forward(c, e)
       \/ Disconnect(c)

Spec == Init /\ [][Next]_vars

(* A request ends, the loop never stops for good while the process lives,  *)
(* the process is restarted, and a websocket task that has a message runs. *)
Fairness ==
  /\ \A e \in Events : WF_vars(EndMutation(e))
  /\ \A p \in Processes :
       /\ WF_vars(Poll(p)) /\ WF_vars(CommitBatch(p)) /\ WF_vars(Restart(p))
       /\ WF_vars(\E e \in Events : Publish(p, e))
  /\ \A c \in Clients : \A e \in Events : WF_vars(Forward(c, e))

FairSpec == Spec /\ Fairness

-----------------------------------------------------------------------------
(* Properties.                                                             *)

(* Every variable has its type.                                            *)
TypeOK ==
  /\ row \in [Events -> {"none", "open", "pending", "published", "rolledBack"}]
  /\ created \in [Events -> Nat] /\ now \in Nat
  /\ pc \in [Processes -> {"down", "poll", "send", "commit"}]
  /\ todo \in [Processes -> SUBSET Events] /\ done \in [Processes -> SUBSET Events]
  /\ conn \in [Clients -> Orgs \cup {Null}]
  /\ queued \in [Clients -> SUBSET Events] /\ heard \in [Clients -> SUBSET Events]
  /\ failures \in 0..MaxFailures
  /\ earlier \in [Events -> SUBSET Events]
  /\ sent \in [Processes -> [Events -> Nat]]
  /\ lost \in [Processes -> [Events -> Nat]]

WasSent(e) == \E p \in Processes : sent[p][e] > 0

(* A row is marked published only after it was sent to Redis: a crash or   *)
(* an error between the two never loses an event (_publish_pending).       *)
PublishedWasSent == \A e \in Events : row[e] = "published" => WasSent(e)

(* No event leaves whose mutation is not committed, even if it is rolled   *)
(* back later (audit_and_emit joins the mutation's transaction).           *)
NoPhantom == \A e \in Events : WasSent(e) => row[e] \in {"pending", "published"}

(* A process sends a row again only if an iteration in which it had sent   *)
(* it was lost: duplicates come from failures and from several processes,  *)
(* never from a publisher that runs undisturbed.                           *)
ResentOnlyIfLost ==
  \A p \in Processes, e \in Events : sent[p][e] <= lost[p][e] + 1

(* Real-time order: when the mutation of e had committed before the one of *)
(* d began, d is not sent before e, whatever the batches, failures and     *)
(* publishers (order_by created_at).                                       *)
RealTimeOrder ==
  \A d, e \in Events : WasSent(d) /\ e \in earlier[d] => WasSent(e)

(* Why: an iteration holds committed rows only, and with a row all the     *)
(* rows committed before it that were never sent; what it has done is      *)
(* counted once more than what was lost.                                   *)
Holding(p) ==
  /\ pc[p] # "send" => todo[p] = {}
  /\ pc[p] \in {"poll", "down"} => done[p] = {}
  /\ todo[p] \cup done[p] \subseteq Committed
  /\ \A e \in done[p] : sent[p][e] > 0
  /\ \A d \in todo[p] : \A e \in earlier[d] : e \in todo[p] \/ WasSent(e)
Counted(p) ==
  \A e \in Events :
    /\ sent[p][e] <= lost[p][e] + 1
    /\ e \in todo[p] \/ (row[e] # "published" /\ e \notin done[p]) =>
         sent[p][e] <= lost[p][e]
Ordered ==
  \A e \in Events :
    /\ created[e] <= now
    /\ row[e] = "none" => earlier[e] = {}
    /\ earlier[e] \subseteq Committed
    /\ \A d \in earlier[e] : created[d] < created[e]
IInv ==
  /\ TypeOK /\ PublishedWasSent /\ NoPhantom /\ RealTimeOrder /\ Ordered
  /\ \A p \in Processes : Holding(p) /\ Counted(p)

(* A client that was connected before the mutation committed hears of it,  *)
(* unless it is disconnected first.                                        *)
ConnectedClientHears ==
  \A c \in Clients, e \in Events :
    row[e] = "open" /\ conn[c] # Null /\ conn[c] = OrgOf[e] ~>
      e \in heard[c] \/ conn[c] # OrgOf[e] \/ row[e] = "rolledBack"

(* The outbox implements the abstract feed: every committed event is sent  *)
(* and closed in the end, since a batch limit, an error or a crash delays  *)
(* a row but never starves it, and no other event is.                      *)
Feed == INSTANCE EventFeed WITH
  recorded <- Committed,
  sent <- {e \in Events : WasSent(e)},
  closed <- {e \in Events : row[e] = "published"}
ImplementsFeed == Feed!FeedSpec
FeedSafety == Feed!FeedInit /\ [][Feed!FeedNext]_(Feed!feedVars)
=============================================================================

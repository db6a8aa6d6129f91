------------------------ MODULE OutboxPublisherProofs ------------------------
(***************************************************************************)
(* Proofs about OutboxPublisher, for any rows, processes, clients and any  *)
(* batch size.  Which of the oldest rows a batch holds matters, how many   *)
(* does not: no fact about cardinalities is used.                          *)
(***************************************************************************)
EXTENDS OutboxPublisher, TLAPS

(* The initial state satisfies the invariant: no row was written.          *)
LEMMA InitIInv == Init => IInv
<1> SUFFICES ASSUME Init PROVE IInv
  OBVIOUS
<1>1. TypeOK
  BY FailuresAssumption DEF Init, TypeOK
<1>2. PublishedWasSent /\ NoPhantom /\ RealTimeOrder /\ Ordered
  BY DEF Init, PublishedWasSent, NoPhantom, RealTimeOrder, Ordered, WasSent
<1>3. \A p \in Processes : Holding(p) /\ Counted(p)
  BY DEF Init, Holding, Counted
<1> QED
  BY <1>1, <1>2, <1>3 DEF IInv

(* Steps that neither write a row nor send one keep everything but the     *)
(* types.                                                                  *)
LEMMA QuietStep ==
  ASSUME IInv, TypeOK', UNCHANGED <<row, created, now, pc, todo, done, earlier, sent, lost>>
  PROVE  IInv'
BY DEF IInv, PublishedWasSent, NoPhantom, RealTimeOrder, Ordered, WasSent, Holding,
       Counted, Committed

LEMMA BeginMutationStep ==
  ASSUME IInv, NEW e \in Events, BeginMutation(e) PROVE IInv'
<1> USE DEF BeginMutation, work, bus, history
<1>1. Committed' = Committed /\ \A d \in Events : WasSent(d)' = WasSent(d)
  BY DEF IInv, TypeOK, Committed, WasSent
<1>2. TypeOK'
  BY DEF IInv, TypeOK, Committed
<1>3. PublishedWasSent' /\ NoPhantom'
  BY <1>1 DEF IInv, TypeOK, PublishedWasSent, NoPhantom
<1>4. ~WasSent(e)
  BY DEF IInv, NoPhantom
<1>5. RealTimeOrder'
  BY <1>1, <1>4 DEF IInv, TypeOK, RealTimeOrder
<1>6. Ordered'
  BY <1>1 DEF IInv, TypeOK, Ordered, Committed
<1>7. ASSUME NEW p \in Processes PROVE (Holding(p) /\ Counted(p))'
  BY <1>1 DEF IInv, TypeOK, Holding, Counted, Committed
<1> QED
  BY <1>2, <1>3, <1>5, <1>6, <1>7 DEF IInv

LEMMA EndMutationStep ==
  ASSUME IInv, NEW e \in Events, EndMutation(e) PROVE IInv'
<1> USE DEF EndMutation, work, bus, history
<1>1. Committed \subseteq Committed' /\ \A d \in Events : WasSent(d)' = WasSent(d)
  BY DEF IInv, TypeOK, Committed, WasSent
<1>2. TypeOK'
  BY DEF IInv, TypeOK
<1>3. PublishedWasSent' /\ NoPhantom'
  BY <1>1 DEF IInv, TypeOK, PublishedWasSent, NoPhantom
<1>4. RealTimeOrder'
  BY <1>1 DEF IInv, RealTimeOrder
<1>5. Ordered'
  BY <1>1 DEF IInv, TypeOK, Ordered
<1>6. ASSUME NEW p \in Processes PROVE (Holding(p) /\ Counted(p))'
  <2>1. Holding(p)'
    BY <1>1 DEF IInv, TypeOK, Holding
  <2>2. Counted(p)'
    BY DEF IInv, TypeOK, Counted
  <2> QED BY <2>1, <2>2
<1> QED
  BY <1>2, <1>3, <1>4, <1>5, <1>6 DEF IInv

(* A batch takes with a row all the older ones that are unsent.            *)
LEMMA PollStep == ASSUME IInv, NEW p \in Processes, Poll(p) PROVE IInv'
<1> USE DEF Poll, bus, history
<1>1. PICK batch \in SUBSET Selectable \ {{}} :
        OldestBatch(batch) /\ todo' = [todo EXCEPT ![p] = batch]
  OBVIOUS
<1>2. batch \subseteq Events /\ \A e \in batch : row[e] = "pending"
  BY <1>1 DEF Selectable, Pending
<1>3. Committed' = Committed /\ \A d : WasSent(d)' = WasSent(d)
  BY DEF Committed, WasSent
<1>4. TypeOK'
  BY <1>1, <1>2 DEF IInv, TypeOK
<1>5. (PublishedWasSent /\ NoPhantom /\ RealTimeOrder /\ Ordered)'
  BY <1>3 DEF IInv, PublishedWasSent, NoPhantom, RealTimeOrder, Ordered
<1>6. \A d \in batch : \A e \in earlier[d] : e \in batch \/ WasSent(e)
  <2> SUFFICES ASSUME NEW d \in batch, NEW e \in earlier[d], e \notin batch
               PROVE  WasSent(e)
    OBVIOUS
  <2>1. e \in Committed /\ created[e] < created[d] /\ e \in Events
    BY <1>2 DEF IInv, Ordered, Committed
  <2>2. e \notin Selectable
    BY <1>1, <1>2, <2>1 DEF OldestBatch, IInv, TypeOK
  <2>3. row[e] = "published"
    BY <2>1, <2>2 DEF Selectable, Pending, Committed
  <2> QED
    BY <2>1, <2>3 DEF IInv, PublishedWasSent
<1>7. ASSUME NEW q \in Processes PROVE (Holding(q) /\ Counted(q))'
  <2>1. CASE q = p
    <3>1. done[p] = {}
      BY DEF IInv, Holding
    <3>2. Holding(p)'
      BY <1>1, <1>2, <1>3, <1>6, <3>1 DEF IInv, TypeOK, Committed, Holding
    <3>3. Counted(p)'
      BY <1>1, <1>2, <3>1 DEF IInv, TypeOK, Counted
    <3> QED BY <2>1, <3>2, <3>3
  <2>2. CASE q # p
    BY <1>1, <1>3, <2>2 DEF IInv, TypeOK, Holding, Counted
  <2> QED BY <2>1, <2>2
<1> QED
  BY <1>4, <1>5, <1>7 DEF IInv

LEMMA PublishStep ==
  ASSUME IInv, NEW p \in Processes, NEW e \in Events, Publish(p, e) PROVE IInv'
<1> USE DEF Publish
<1>1. Committed' = Committed /\ e \in Committed
  BY DEF IInv, Holding, Committed
<1>2. sent'[p][e] = sent[p][e] + 1
      /\ \A q \in Processes, d \in Events : q # p \/ d # e => sent'[q][d] = sent[q][d]
  BY DEF IInv, TypeOK
<1>3. /\ WasSent(e)'
      /\ \A d \in Events : d # e => WasSent(d)' = WasSent(d)
  BY <1>2 DEF WasSent, IInv, TypeOK
<1>4. TypeOK'
  <2>1. sent' \in [Processes -> [Events -> Nat]]
    BY DEF IInv, TypeOK
  <2>2. queued' \in [Clients -> SUBSET Events]
    BY DEF IInv, TypeOK
  <2> QED
    BY <2>1, <2>2 DEF IInv, TypeOK
<1>5. PublishedWasSent' /\ NoPhantom'
  BY <1>1, <1>3 DEF IInv, PublishedWasSent, NoPhantom, Committed
<1>6. RealTimeOrder'
  <2> SUFFICES ASSUME NEW d \in Events, NEW f \in Events, WasSent(d)', f \in earlier[d]
               PROVE  WasSent(f)'
    BY DEF RealTimeOrder
  <2>1. CASE d = e
    <3>1. f \in todo[p] \/ WasSent(f)
      BY <2>1 DEF IInv, Holding
    <3>2. created[f] < created[e] /\ created[f] \in Nat /\ created[e] \in Nat
      BY <2>1 DEF IInv, Ordered, TypeOK
    <3> QED
      BY <1>3, <3>1, <3>2
  <2>2. CASE d # e
    BY <1>3, <2>2 DEF IInv, RealTimeOrder
  <2> QED BY <2>1, <2>2
<1>7. Ordered'
  BY <1>1 DEF IInv, Ordered
<1>8. ASSUME NEW q \in Processes PROVE (Holding(q) /\ Counted(q))'
  <2>1. CASE q = p
    <3>1. /\ todo'[p] = todo[p] \ {e} /\ done'[p] = done[p] \cup {e}
          /\ pc'[p] \in {"commit", "send"}
      BY DEF IInv, TypeOK
    <3>2. Holding(p)'
      BY <1>1, <1>2, <1>3, <3>1 DEF IInv, TypeOK, Holding, Committed
    <3>3. Counted(p)'
      <4>1. sent[p][e] <= lost[p][e]
        BY DEF IInv, Counted
      <4>2. sent'[p][e] <= lost[p][e] + 1 /\ e \notin todo'[p] /\ e \in done'[p]
        BY <1>2, <3>1, <4>1 DEF IInv, TypeOK
      <4> QED
        BY <1>2, <3>1, <4>2 DEF IInv, Counted
    <3> QED BY <2>1, <3>2, <3>3
  <2>2. CASE q # p
    <3>1. todo'[q] = todo[q] /\ done'[q] = done[q] /\ pc'[q] = pc[q]
      BY <2>2 DEF IInv, TypeOK
    <3>2. Holding(q)'
      <4>1. \A d \in done'[q] : sent'[q][d] > 0
        BY <1>2, <2>2, <3>1 DEF IInv, TypeOK, Holding
      <4>2. \A d \in todo'[q] : \A f \in earlier'[d] : f \in todo'[q] \/ WasSent(f)'
        BY <1>3, <3>1 DEF IInv, TypeOK, Holding
      <4> QED
        BY <1>1, <3>1, <4>1, <4>2 DEF IInv, Holding
    <3>3. Counted(q)'
      BY <1>2, <2>2, <3>1 DEF IInv, Counted
    <3> QED BY <3>2, <3>3
  <2> QED BY <2>1, <2>2
<1> QED
  BY <1>4, <1>5, <1>6, <1>7, <1>8 DEF IInv

LEMMA CommitBatchStep == ASSUME IInv, NEW p \in Processes, CommitBatch(p) PROVE IInv'
<1> USE DEF CommitBatch, Marked, bus, history
<1>1. \A e \in done[p] : e \in Events /\ row[e] \in {"pending", "published"} /\ WasSent(e)
  BY DEF IInv, Holding, Committed, WasSent
<1>2. Committed' = Committed /\ \A e \in Events : WasSent(e)' = WasSent(e)
  BY <1>1 DEF IInv, TypeOK, Committed, WasSent
<1>3. TypeOK'
  BY DEF IInv, TypeOK
<1>4. PublishedWasSent' /\ NoPhantom'
  BY <1>1, <1>2 DEF IInv, TypeOK, PublishedWasSent, NoPhantom
<1>5. RealTimeOrder' /\ Ordered'
  BY <1>1, <1>2 DEF IInv, TypeOK, RealTimeOrder, Ordered
<1>6. ASSUME NEW q \in Processes PROVE (Holding(q) /\ Counted(q))'
  <2>1. CASE q = p
    <3>1. Holding(p)'
      BY <1>2 DEF IInv, TypeOK, Holding
    <3>2. Counted(p)'
      BY DEF IInv, TypeOK, Counted
    <3> QED BY <2>1, <3>1, <3>2
  <2>2. CASE q # p
    <3>1. Holding(q)'
      BY <1>2, <2>2 DEF IInv, TypeOK, Holding
    <3>2. Counted(q)'
      BY <2>2 DEF IInv, TypeOK, Counted
    <3> QED BY <3>1, <3>2
  <2> QED BY <2>1, <2>2
<1> QED
  BY <1>3, <1>4, <1>5, <1>6 DEF IInv

LEMMA GiveUpStep ==
  ASSUME IInv, NEW p \in Processes, NEW label \in {"poll", "down"}, GiveUp(p, label)
  PROVE  IInv'
<1> USE DEF GiveUp, RollBack, bus
<1>1. Committed' = Committed /\ \A e \in Events : WasSent(e)' = WasSent(e)
  BY DEF Committed, WasSent
<1>2. /\ \A q \in Processes \ {p} : /\ lost'[q] = lost[q] /\ todo'[q] = todo[q]
                                    /\ done'[q] = done[q] /\ pc'[q] = pc[q]
      /\ todo'[p] = {} /\ done'[p] = {}
      /\ \A e \in Events : lost'[p][e] = IF e \in done[p] THEN lost[p][e] + 1 ELSE lost[p][e]
  BY DEF IInv, TypeOK
<1>3. TypeOK'
  <2>1. lost' \in [Processes -> [Events -> Nat]]
    BY DEF IInv, TypeOK
  <2>2. failures' \in 0..MaxFailures
    BY FailuresAssumption DEF IInv, TypeOK
  <2> QED
    BY <2>1, <2>2 DEF IInv, TypeOK
<1>4. (PublishedWasSent /\ NoPhantom /\ RealTimeOrder /\ Ordered)'
  BY <1>1 DEF IInv, TypeOK, PublishedWasSent, NoPhantom, RealTimeOrder, Ordered
<1>5. ASSUME NEW q \in Processes PROVE (Holding(q) /\ Counted(q))'
  <2>1. CASE q = p
    <3>1. Holding(p)'
      BY <1>2 DEF Holding
    <3>2. Counted(p)'
      BY <1>2 DEF IInv, TypeOK, Counted
    <3> QED BY <2>1, <3>1, <3>2
  <2>2. CASE q # p
    BY <1>1, <1>2, <2>2 DEF IInv, TypeOK, Holding, Counted
  <2> QED BY <2>1, <2>2
<1> QED
  BY <1>3, <1>4, <1>5 DEF IInv

LEMMA RestartStep == ASSUME IInv, NEW p \in Processes, Restart(p) PROVE IInv'
<1> USE DEF Restart, bus, history
<1>1. Committed' = Committed /\ \A e \in Events : WasSent(e)' = WasSent(e)
  BY DEF Committed, WasSent
<1>2. TypeOK'
  BY DEF IInv, TypeOK
<1>3. (PublishedWasSent /\ NoPhantom /\ RealTimeOrder /\ Ordered)'
  BY <1>1 DEF IInv, TypeOK, PublishedWasSent, NoPhantom, RealTimeOrder, Ordered
<1>4. ASSUME NEW q \in Processes PROVE (Holding(q) /\ Counted(q))'
  BY <1>1 DEF IInv, TypeOK, Holding, Counted
<1> QED
  BY <1>2, <1>3, <1>4 DEF IInv

LEMMA FeedStep ==
  ASSUME IInv, NEW c \in Clients,
         \/ \E typ \in {"access", "refresh"}, o \in Orgs \cup {Null} : Connect(c, typ, o)
         \/ \E e \in Events : Forward(c, e)
         \/ Disconnect(c)
  PROVE  IInv'
<1> USE DEF work, history
<1>1. ASSUME NEW typ, NEW o \in Orgs \cup {Null}, Connect(c, typ, o) PROVE IInv'
  <2>1. TypeOK'
    BY <1>1 DEF Connect, IInv, TypeOK
  <2> QED BY <1>1, <2>1, QuietStep DEF Connect
<1>2. ASSUME NEW e \in Events, Forward(c, e) PROVE IInv'
  <2>1. TypeOK'
    BY <1>2 DEF Forward, IInv, TypeOK
  <2> QED BY <1>2, <2>1, QuietStep DEF Forward
<1>3. CASE Disconnect(c)
  <2>1. TypeOK'
    BY <1>3, FailuresAssumption DEF Disconnect, IInv, TypeOK
  <2> QED BY <1>3, <2>1, QuietStep DEF Disconnect
<1> QED
  BY <1>1, <1>2, <1>3

-----------------------------------------------------------------------------
(* The invariant is inductive.                                             *)
LEMMA NextIInv == IInv /\ [Next]_vars => IInv'
<1> SUFFICES ASSUME IInv, [Next]_vars PROVE IInv'
  OBVIOUS
<1>1. CASE UNCHANGED vars
  <2>1. TypeOK'
    BY <1>1 DEF vars, IInv, TypeOK
  <2> QED BY <1>1, <2>1, QuietStep DEF vars
<1>2. ASSUME NEW p \in Processes, FailBatch(p) \/ Crash(p) PROVE IInv'
  BY <1>2, GiveUpStep DEF FailBatch, Crash
<1> QED
  BY <1>1, <1>2, BeginMutationStep, EndMutationStep, PollStep, PublishStep,
     CommitBatchStep, RestartStep, FeedStep
  DEF Next

(* The invariant holds in every reachable state.                           *)
THEOREM Invariance == Spec => []IInv
<1>1. Init => IInv
  BY InitIInv
<1>2. IInv /\ [Next]_vars => IInv'
  BY NextIInv
<1> QED
  BY <1>1, <1>2, PTL DEF Spec

(* No crash or error makes the publisher mark a row it has not sent, and   *)
(* no rolled back mutation is ever announced.                              *)
THEOREM NothingLostNothingInvented == Spec => [](PublishedWasSent /\ NoPhantom)
<1>1. IInv => PublishedWasSent /\ NoPhantom
  BY DEF IInv
<1> QED
  BY <1>1, Invariance, PTL

(* Whatever the number of publishers and failures, events leave in the     *)
(* real-time order of their mutations.                                     *)
THEOREM OrderIsKept == Spec => []RealTimeOrder
<1>1. IInv => RealTimeOrder
  BY DEF IInv
<1> QED
  BY <1>1, Invariance, PTL

(* A process resends a row only after it lost an iteration that sent it.   *)
THEOREM DuplicatesAreBounded == Spec => []ResentOnlyIfLost
<1>1. IInv => ResentOnlyIfLost
  BY DEF IInv, Counted, ResentOnlyIfLost
<1> QED
  BY <1>1, Invariance, PTL

-----------------------------------------------------------------------------
(* The outbox implements the abstract feed (its liveness aside).           *)

SentEvents == {e \in Events : WasSent(e)}
PublishedEvents == {e \in Events : row[e] = "published"}

LEMMA QuietFeed ==
  ASSUME Committed' = Committed, SentEvents' = SentEvents, PublishedEvents' = PublishedEvents
  PROVE  UNCHANGED Feed!feedVars
BY DEF Feed!feedVars, SentEvents, PublishedEvents

LEMMA FeedSimulation == IInv /\ [Next]_vars => [Feed!FeedNext]_(Feed!feedVars)
<1> SUFFICES ASSUME IInv, [Next]_vars PROVE [Feed!FeedNext]_(Feed!feedVars)
  OBVIOUS
<1>1. CASE UNCHANGED <<row, sent>>
  BY <1>1, QuietFeed DEF Committed, SentEvents, PublishedEvents, WasSent
<1>2. ASSUME NEW e \in Events, BeginMutation(e) PROVE UNCHANGED Feed!feedVars
  <2>1. Committed' = Committed
    BY <1>2 DEF BeginMutation, Committed, IInv, TypeOK
  <2>2. SentEvents' = SentEvents /\ PublishedEvents' = PublishedEvents
    BY <1>2 DEF BeginMutation, SentEvents, PublishedEvents, WasSent, history, IInv, TypeOK
  <2> QED BY <2>1, <2>2, QuietFeed
<1>3. ASSUME NEW e \in Events, EndMutation(e) PROVE [Feed!FeedNext]_(Feed!feedVars)
  <2>1. SentEvents' = SentEvents /\ PublishedEvents' = PublishedEvents
    BY <1>3 DEF EndMutation, SentEvents, PublishedEvents, WasSent, history, IInv, TypeOK
  <2>2. CASE row' = [row EXCEPT ![e] = "pending"]
    <3>1. Committed' = Committed \cup {e}
      BY <1>3, <2>2 DEF EndMutation, Committed, IInv, TypeOK
    <3>2. Feed!Record(e)
      BY <2>1, <3>1 DEF Feed!Record, SentEvents, PublishedEvents
    <3> QED BY <3>2 DEF Feed!FeedNext
  <2>3. CASE row' = [row EXCEPT ![e] = "rolledBack"]
    <3>1. Committed' = Committed
      BY <1>3, <2>3 DEF EndMutation, Committed, IInv, TypeOK
    <3> QED BY <2>1, <3>1, QuietFeed
  <2> QED BY <1>3, <2>2, <2>3 DEF EndMutation
<1>4. ASSUME NEW p \in Processes, NEW e \in Events, Publish(p, e) PROVE Feed!FeedNext
  <2>1. Committed' = Committed /\ PublishedEvents' = PublishedEvents
    BY <1>4 DEF Publish, Committed, PublishedEvents
  <2>2. e \in Committed
    BY <1>4 DEF Publish, IInv, Holding
  <2>3. sent'[p][e] = sent[p][e] + 1
        /\ \A q \in Processes, d \in Events : q # p \/ d # e => sent'[q][d] = sent[q][d]
    BY <1>4 DEF Publish, IInv, TypeOK
  <2>4. SentEvents' = SentEvents \cup {e}
    <3>1. sent[p][e] \in Nat
      BY DEF IInv, TypeOK
    <3>2. WasSent(e)'
      BY <2>3, <3>1 DEF WasSent
    <3>3. \A d \in Events : d # e => WasSent(d)' = WasSent(d)
      BY <2>3 DEF WasSent
    <3> QED BY <3>2, <3>3 DEF SentEvents
  <2>5. Feed!Send(e)
    BY <2>1, <2>2, <2>4 DEF Feed!Send, SentEvents, PublishedEvents
  <2> QED BY <2>5 DEF Feed!FeedNext
<1>5. ASSUME NEW p \in Processes, CommitBatch(p) PROVE Feed!FeedNext
  <2>1. \A e \in done[p] : e \in Events /\ row[e] \in {"pending", "published"} /\ WasSent(e)
    BY DEF IInv, Holding, Committed, WasSent
  <2>2. Committed' = Committed /\ SentEvents' = SentEvents
    BY <1>5, <2>1 DEF CommitBatch, Marked, Committed, SentEvents, WasSent, history, IInv, TypeOK
  <2>3. PublishedEvents' = PublishedEvents \cup done[p]
    BY <1>5, <2>1 DEF CommitBatch, Marked, PublishedEvents, IInv, TypeOK
  <2>4. done[p] \subseteq SentEvents
    BY <2>1 DEF SentEvents
  <2> DEFINE batch == done[p]
  <2>5. batch \in SUBSET Events
    BY <2>1
  <2> HIDE DEF batch
  <2>6. Feed!Close(batch)
    BY <2>2, <2>3, <2>4 DEF Feed!Close, SentEvents, PublishedEvents, batch
  <2> QED BY <2>5, <2>6 DEF Feed!FeedNext, Feed!Close
<1> QED
  BY <1>1, <1>2, <1>3, <1>4, <1>5
  DEF Next, vars, Poll, FailBatch, Crash, GiveUp, RollBack, Restart, Connect, Forward,
      Disconnect, history

(* Every step of the publisher is a step of the abstract at-least-once     *)
(* feed: record, send what is recorded, close what was sent.               *)
THEOREM OutboxImplementsFeed == Spec => FeedSafety
<1>1. Init => Feed!FeedInit
  BY DEF Init, Feed!FeedInit, Committed, WasSent
<1>2. IInv /\ [Next]_vars => [Feed!FeedNext]_(Feed!feedVars)
  BY FeedSimulation
<1> QED
  BY <1>1, <1>2, Invariance, PTL DEF Spec, FeedSafety
=============================================================================

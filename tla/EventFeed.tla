------------------------------ MODULE EventFeed ------------------------------
(***************************************************************************)
(* What the transactional outbox promises: an event that was recorded with *)
(* its mutation is sent at least once, no event is sent that was not       *)
(* recorded, and an event is closed only after it was sent.                *)
(***************************************************************************)
CONSTANT Events

VARIABLES recorded,  \* events committed with their mutation
          sent,      \* events sent to the bus at least once
          closed     \* events that need not be sent any more

feedVars == <<recorded, sent, closed>>

FeedInit == recorded = {} /\ sent = {} /\ closed = {}

Record(e) ==
  /\ recorded' = recorded \cup {e}
  /\ UNCHANGED <<sent, closed>>

Send(e) ==
  /\ e \in recorded
  /\ sent' = sent \cup {e}
  /\ UNCHANGED <<recorded, closed>>

Close(batch) ==
  /\ batch \subseteq sent
  /\ closed' = closed \cup batch
  /\ UNCHANGED <<recorded, sent>>

FeedNext ==
  \/ \E e \in Events : Record(e) \/ Send(e)
  \/ \E batch \in SUBSET Events : Close(batch)

FeedSpec ==
  /\ FeedInit /\ [][FeedNext]_feedVars
  /\ \A e \in Events : (e \in recorded) ~> (e \in closed)
=============================================================================

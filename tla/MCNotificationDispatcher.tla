----------------------- MODULE MCNotificationDispatcher -----------------------
(* Small instances of NotificationDispatcher for TLC.                      *)
EXTENDS NotificationDispatcher, TLC

CONSTANTS m1, m2, r1, p1, p2, o1, o2

(* The rule and the endpoints are of the first organization.               *)
MCOrgOf == (m1 :> o1) @@ (m2 :> o2) @@ (r1 :> o1) @@ (p1 :> o1) @@ (p2 :> o1)

(* The publisher sends the keys id, organization_id, event_type, payload   *)
(* and created_at; a filter on another one matches nothing.                *)
MCFields == [m \in Events |-> [event_type |-> "case.created"]]
MCFilters == {[event_type |-> {"case.created", "case.deleted"}], [entity |-> {"case"}]}
CreateOnly == {[event_type |-> {"case.created"}]}
MCLists == {<<p1, p2>>}
=============================================================================

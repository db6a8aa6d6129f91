-------------------------- MODULE MCOutboxPublisher --------------------------
(* A small instance of OutboxPublisher for TLC.                            *)
EXTENDS OutboxPublisher, TLC

CONSTANTS e1, e2, o1, o2

MCOrgOf == (e1 :> o1) @@ (e2 :> o2)
=============================================================================

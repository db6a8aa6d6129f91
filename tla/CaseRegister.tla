---------------------------- MODULE CaseRegister ----------------------------
(***************************************************************************)
(* What the case table promises its readers, whatever the concurrency:     *)
(* every organization numbers its cases 1, 2, 3, ... with no gap and no    *)
(* number used twice, and a number once given is never taken back.         *)
(***************************************************************************)
EXTENDS Naturals

CONSTANTS Orgs,     \* the organizations
          CaseIds,  \* identities a case can get
          Null      \* "no such case"

VARIABLE register   \* register[c]: the organization and number of case c

Entry == [org : Orgs, number : Nat \ {0}]

Taken(o) == {register[c].number : c \in {d \in CaseIds :
                                          register[d] # Null /\ register[d].org = o}}

RegisterInit == register = [c \in CaseIds |-> Null]

(* Case c is entered as e: its number is the first of e.org that is free.  *)
Assign(c, e) ==
  /\ register[c] = Null
  /\ e \in Entry
  /\ e.number \notin Taken(e.org)
  /\ 1..(e.number - 1) \subseteq Taken(e.org)
  /\ register' = [register EXCEPT ![c] = e]

RegisterNext == \E c \in CaseIds : Assign(c, register'[c])

RegisterSpec == RegisterInit /\ [][RegisterNext]_register
=============================================================================

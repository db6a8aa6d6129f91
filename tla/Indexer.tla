------------------------------ MODULE Indexer -------------------------------
(***************************************************************************)
(* The embedding indexer (backend/adhkar/workers/embedding_indexer.py),    *)
(* which gives closed cases an embedding, and the search for similar cases *)
(* (backend/adhkar/api/v1/similarity.py), which needs it.                  *)
(*                                                                         *)
(* Every process of the API may run an indexer.  A case has at most one    *)
(* embedding (case_embeddings.case_id is unique).                          *)
(***************************************************************************)
EXTENDS Views

CONSTANTS Workers,      \* processes that run the indexer
          Window,       \* _BATCH * 4: closed cases that a round looks at
          Batch,        \* _BATCH: cases that a round embeds
          MaxLost       \* bound: rounds that are lost
ASSUME IndexerAssumption ==
  Window \in Nat \ {0} /\ Batch \in Nat \ {0} /\ MaxLost \in Nat

VARIABLES embedded,     \* cases that have an embedding
          vectors,      \* those that have it in the vector column too;
                        \* Null: migration 0014 has not made that column
          todo,         \* what the round of a process embeds
          lost          \* rounds that were lost
indexerVars == <<embedded, vectors, todo, lost>>

IndexerInit ==
  embedded = {} /\ vectors \in {{}, Null} /\ todo = [w \in Workers |-> {}] /\ lost = 0

(* The cases closed and changed last, of all organizations, embedded ones  *)
(* among them.                                                             *)
ClosedCases ==
  {c \in Ids : db[c] # Null /\ db[c].table = "case" /\ db[c].state = "closed" /\ ~db[c].gone}
QueryNewest(w) ==
  /\ todo[w] = {}
  /\ \E rows \in Newest(ClosedCases, Changed, Batch) :
       todo' = [todo EXCEPT ![w] = rows \ embedded]
  /\ UNCHANGED <<tableVars, embedded, vectors, lost>>
Query(w) ==
  /\ todo[w] = {}
  /\ \E rows \in Newest(ClosedCases, Changed, Window) :
       \E first \in Newest(rows \ embedded, Changed, Batch) : todo' = [todo EXCEPT ![w] = first]
  /\ UNCHANGED <<tableVars, embedded, vectors, lost>>

(* One transaction for the batch: an embedding that is there undoes it.    *)
Index(w) ==
  /\ todo[w] # {}
  /\ embedded' = IF todo[w] \cap embedded = {} THEN embedded \cup todo[w] ELSE embedded
  /\ todo' = [todo EXCEPT ![w] = {}]
  /\ UNCHANGED <<tableVars, vectors, lost>>

(* The process is stopped, or cannot reach the database: the round is lost *)
(* and the next starts afresh.                                             *)
LoseRound(w) ==
  /\ todo[w] # {} /\ lost < MaxLost
  /\ todo' = [todo EXCEPT ![w] = {}] /\ lost' = lost + 1
  /\ UNCHANGED <<tableVars, embedded, vectors>>

(* The script that migration 0014 leaves to the operator, run once.        *)
Backfill ==
  /\ vectors = {}
  /\ vectors' = embedded
  /\ UNCHANGED <<tableVars, embedded, todo, lost>>

-----------------------------------------------------------------------------
(* search_similar_cases: the vector column, and only if nothing is there   *)
(* the embeddings.  Where the tables do not have the column the first      *)
(* statement fails, and the one that should take its place is sent in the  *)
(* transaction which that error has aborted.                               *)
Similar(r, S) == {c \in S \cap call[r].match : db[c].org = call[r].org /\ ~db[c].gone}
SearchSimilarCases(r) ==
  LET first == Some(Similar(r, vectors), call[r].limit)
      second == Some(Similar(r, embedded), call[r].limit)
  IN  /\ UNCHANGED indexerVars
      /\ IF vectors = Null THEN Asks(r, "similarCases") /\ Refuse(r, "500")
         ELSE Answer(r, "similarCases", IF pc[r] = "read" /\ Similar(r, vectors) # {}
                                        THEN <<first>> ELSE <<first, second>>)
=============================================================================

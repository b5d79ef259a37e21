------------------------------ MODULE MBuffer ------------------------------
(***************************************************************************)
(* The class template mBuffer<T> of Buffer.h: a map from timestamps to     *)
(* vectors of results (_messages), and a map from detector threads to      *)
(* their readiness (_data_ready).  Each operator is one lock section; the  *)
(* eviction loop of send, which reads the size without the lock, is put    *)
(* together by the module that owns the buffer.                            *)
(***************************************************************************)
EXTENDS Naturals, Sequences, FiniteSets

EmptyMap == [t \in {} |-> << >>]

ResultsSize(m) == Cardinality(DOMAIN m)

\* pop(at): the results stored under a timestamp, which leave the map.
ResultsAt(m, at) == IF at \in DOMAIN m THEN m[at] ELSE << >>

Erase(m, at) == [t \in DOMAIN m \ {at} |-> m[t]]

\* The lock section of send(at, msg): append to the vector, or insert it.
Store(m, at, msg) ==
  [t \in DOMAIN m \union {at} |->
     IF t = at THEN Append(ResultsAt(m, at), msg) ELSE m[t]]

\* Mutant: an insert, which keeps the status of a known thread.
InsertDataReady(r, id, status) ==
  [k \in DOMAIN r \union {id} |-> IF k \in DOMAIN r THEN r[k] ELSE status]

SetDataReady(r, id, status) ==
  [k \in DOMAIN r \union {id} |-> IF k = id THEN status ELSE r[k]]

\* As many non-zero entries as entries: true of the empty map too.
GetDataReady(r) == \A k \in DOMAIN r : r[k] # 0
=============================================================================

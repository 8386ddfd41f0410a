------------------------------ MODULE ConnectionPool ------------------------------
(***************************************************************************)
(* The pool of database connections under the tills.  complete, voidSale   *)
(* and returnItem run in a transaction, which has a connection of its own, *)
(* and inside it call helpers that do not use the transaction but the service's*)
(* client (canUseRegister, branches, assertBranch in                       *)
(* src/src/modules/pos/pos.service.ts and src/src/common/branch-scope.ts): *)
(* each of their queries takes a second connection while the first is held.*)
(* The pool serves in the order of asking, the database grants the tills'  *)
(* advisory lock in the order of waiting; both are external, as are their  *)
(* time limits.                                                            *)
(***************************************************************************)
EXTENDS Integers, Sequences, FiniteSets

CONSTANTS
  Workers,    \* requests that can be in flight together
  Conns,      \* connections of the pool
  None,
  MaxAsks     \* bound on the queries beside one transaction

(* No request is None.                                                     *)
PoolAssumption == None \notin Workers \X {"tx", "query"}

VARIABLES
  pc,         \* how far a request has come
  asked,      \* asked[w]: queries asked for beside the transaction
  owner,      \* owner[c]: None, or the request and what it has c for
  waiting,    \* requests that wait for a connection, in order
  queue       \* requests that wait for the advisory lock; the first has it

vars == <<pc, asked, owner, waiting, queue>>

Labels ==
  {"idle", "arriving", "running", "asking", "reading", "selling", "late", "reading late"}

Tx(w) == <<w, "tx">>
Query(w) == <<w, "query">>
Free(c) == owner[c] = None
Waits(w) == pc[w] \in {"arriving", "asking", "late"}

Freed_Leaked(w, c) == owner[c] = Query(w)
Freed(w, c) == owner[c] \in {Tx(w), Query(w)}

(* The connections of w go back to the pool: all, or that of a query.      *)
ReturnAll(w) == owner' = [c \in Conns |-> IF Freed(w, c) THEN None ELSE owner[c]]
ReturnTx(w) == owner' = [c \in Conns |-> IF owner[c] = Tx(w) THEN None ELSE owner[c]]

Answered(w, c) == owner[c] = Query(w)
ReturnQuery(w) == owner' = [c \in Conns |-> IF Answered(w, c) THEN None ELSE owner[c]]

Goto(w, label) == pc' = [pc EXCEPT ![w] = label]
Without(seq, w) == SelectSeq(seq, LAMBDA v : v # w)

Init ==
  /\ pc = [w \in Workers |-> "idle"]
  /\ asked = [w \in Workers |-> 0]
  /\ owner = [c \in Conns |-> None]
  /\ waiting = << >> /\ queue = << >>

Arrive(w) ==
  /\ pc[w] = "idle"
  /\ Goto(w, "arriving")
  /\ asked' = [asked EXCEPT ![w] = 0]
  /\ waiting' = Append(waiting, w)
  /\ UNCHANGED <<owner, queue>>

(* Where the request goes on when it has got the connection.               *)
Reached(label) ==
  CASE label = "arriving" -> "running" [] label = "asking" -> "reading" [] OTHER -> "reading late"

(* The pool gives the first in line a connection.                          *)
Lend(w, c) ==
  /\ Waits(w) /\ waiting # << >> /\ Head(waiting) = w /\ Free(c)
  /\ owner' = [owner EXCEPT ![c] = IF pc[w] = "arriving" THEN Tx(w) ELSE Query(w)]
  /\ Goto(w, Reached(pc[w]))
  /\ waiting' = Tail(waiting)
  /\ UNCHANGED <<asked, queue>>

(* canUseRegister, branches and assertBranch, from inside the transaction: *)
(* up to five queries one after the other in complete, two in voidSale and *)
(* returnItem.                                                             *)
Ask(w) ==
  /\ pc[w] = "running" /\ asked[w] < MaxAsks
  /\ Goto(w, "asking")
  /\ asked' = [asked EXCEPT ![w] = @ + 1]
  /\ waiting' = Append(waiting, w)
  /\ UNCHANGED <<owner, queue>>

Answer(w) ==
  /\ pc[w] \in {"reading", "reading late"}
  /\ ReturnQuery(w)
  /\ Goto(w, IF pc[w] = "reading" THEN "running" ELSE "idle")
  /\ UNCHANGED <<asked, waiting, queue>>

(* pg_advisory_xact_lock, after all that is asked for beside.              *)
Lock(w) ==
  /\ pc[w] = "running"
  /\ Goto(w, "selling")
  /\ queue' = Append(queue, w)
  /\ UNCHANGED <<asked, owner, waiting>>

Commit(w) ==
  /\ pc[w] = "selling" /\ Head(queue) = w
  /\ Goto(w, "idle")
  /\ ReturnAll(w)
  /\ queue' = Tail(queue)
  /\ UNCHANGED <<asked, waiting>>

(* A request that is refused, or a void or return, which need no lock:     *)
(* rolled back or committed.                                               *)
Leave(w) ==
  /\ pc[w] = "running"
  /\ Goto(w, "idle")
  /\ ReturnAll(w)
  /\ UNCHANGED <<asked, waiting, queue>>

(* The transaction has taken too long: it is rolled back.  The handler is  *)
(* told at its next statement; until then the query beside goes on.        *)
Expire(w) ==
  /\ pc[w] \in {"running", "asking", "reading", "selling"}
  /\ ReturnTx(w)
  /\ queue' = Without(queue, w)
  /\ Goto(w, CASE pc[w] = "asking" -> "late" [] pc[w] = "reading" -> "reading late"
               [] OTHER -> "idle")
  /\ UNCHANGED <<asked, waiting>>

(* No connection came in time: the handler throws.                         *)
WaitedTooLong(w) ==
  /\ Waits(w)
  /\ ReturnAll(w)
  /\ waiting' = Without(waiting, w)
  /\ Goto(w, "idle")
  /\ UNCHANGED <<asked, queue>>

Serve(w) ==
  \/ \E c \in Conns : Lend(w, c)
  \/ Ask(w) \/ Answer(w) \/ Lock(w) \/ Commit(w) \/ Leave(w)

Next == \E w \in Workers : Arrive(w) \/ Serve(w) \/ Expire(w) \/ WaitedTooLong(w)

Spec == Init /\ [][Next]_vars

--------------------------------------------------------------------------------
(* Properties. *)

(* Labels and owners keep their shape.                                     *)
TypeOK ==
  /\ pc \in [Workers -> Labels]
  /\ owner \in [Conns -> {None} \union (Workers \X {"tx", "query"})]

(* Every connection is held by a request that waits for another one: only  *)
(* a time limit ends that.                                                 *)
Standstill == \A c \in Conns : \E w \in Workers : owner[c] = Tx(w) /\ pc[w] = "asking"

(* What makes it so: a request has one connection for its transaction, and *)
(* one for a query only while that is answered.                            *)
OneTxEach ==
  \A c, d \in Conns, w \in Workers : owner[c] = Tx(w) /\ owner[d] = Tx(w) => c = d
TxWhileRunning ==
  \A c \in Conns, w \in Workers :
    owner[c] = Tx(w) => pc[w] \in {"running", "asking", "reading", "selling"}
QueryWhileReading ==
  \A c \in Conns, w \in Workers :
    owner[c] = Query(w) => pc[w] \in {"reading", "reading late"}
PoolInv == TypeOK /\ OneTxEach /\ TxWhileRunning /\ QueryWhileReading

(* complete, voidSale, returnItem: with fewer requests in flight than      *)
(* connections the helpers' second connection never brings the tills to a  *)
(* standstill.                                                             *)
Ample ==
  /\ IsFiniteSet(Workers) /\ IsFiniteSet(Conns)
  /\ Cardinality(Workers) < Cardinality(Conns)
NoStandstill == Ample => ~Standstill
==================================================================================

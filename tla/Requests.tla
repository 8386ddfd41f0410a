-------------------------------- MODULE Requests --------------------------------
(***************************************************************************)
(* The requests of the services that follow (all but the point of sale,    *)
(* which has its own): a worker is one HTTP request being served by a      *)
(* NestJS handler.  The handler gives way to others at every await, so a   *)
(* request is a few steps, pc naming the one it waits at and job what it   *)
(* has read.  Statements are READ COMMITTED, one snapshot each.  The       *)
(* writes of a transaction become visible together, at its commit; a row   *)
(* that a handler updates early in its transaction stays locked from then  *)
(* on, which the modules say where it matters.                             *)
(***************************************************************************)
EXTENDS Integers, FiniteSets, Sequences

CONSTANTS
  Workers,   \* requests that can be in flight together
  None       \* an absent id

ASSUME RequestsAssumption == None \notin Workers

VARIABLES
  pc,        \* pc[w]: how far w's handler has come
  job        \* job[w]: what it has read so far

requestVars == <<pc, job>>

Idle(w) == pc[w] = "idle"
At(w, label) == pc[w] = label
Doing(label) == {w \in Workers : pc[w] = label}
AllIdle == \A w \in Workers : Idle(w)

Turn(w, label, j) ==
  /\ pc' = [pc EXCEPT ![w] = label]
  /\ job' = [job EXCEPT ![w] = j]

Done(w) == Turn(w, "idle", None)

NoRequests ==
  /\ pc = [w \in Workers |-> "idle"]
  /\ job = [w \in Workers |-> None]

(* An exception, a timeout, a lost connection or a crash of the process:   *)
(* the open transaction is rolled back, what was committed before stays.   *)
GiveUp(w) == ~Idle(w) /\ Done(w)
================================================================================

------------------------------- MODULE Purchasing -------------------------------
(***************************************************************************)
(* From a purchase request to an order to a bill (PurchasesService in      *)
(* src/src/modules/purchases/purchases.service.ts): each step looks at the *)
(* status of the document before it, and writes it in a later statement.   *)
(* What becomes of a bill is the subject of Payables.                      *)
(***************************************************************************)
EXTENDS Requests, FiniteSetsExt

CONSTANTS MaxRequests, MaxOrders, MaxBills  \* bounds on the rows ever written

(* A request or an order that is not there is none of those there are.     *)
PurchasingAssumption == None \notin Nat

VARIABLES
  requests,   \* PurchaseRequest rows: their status
  orders,     \* PurchaseOrder rows: [request, status]
  bills       \* Bill rows by number: their order, or None

rowVars == <<requests, orders, bills>>
vars == <<rowVars, requestVars>>

Entered(table, key, row) ==
  [k \in DOMAIN table \union {key} |-> IF k = key THEN row ELSE table[k]]
Size(table) == Cardinality(DOMAIN table)

Init ==
  /\ requests = << >> /\ orders = << >> /\ bills = << >>
  /\ NoRequests

--------------------------------------------------------------------------------
(* Purchase requests. *)

RequestAllows == [s \in {"PENDING", "APPROVED", "REJECTED", "CANCELLED", "CONVERTED"} |->
  CASE s = "PENDING" -> {"APPROVED", "REJECTED", "CANCELLED"}
    [] s = "APPROVED" -> {"CANCELLED"} [] OTHER -> {}]

CreateRequest ==
  /\ Size(requests) < MaxRequests
  /\ requests' = Append(requests, "PENDING")
  /\ UNCHANGED <<orders, bills, requestVars>>

RequestRead(w, r, s) ==
  /\ Idle(w) /\ s \in RequestAllows[requests[r]]
  /\ Turn(w, "deciding", [request |-> r, status |-> s])
  /\ UNCHANGED rowVars

RequestCommit(w) ==
  /\ At(w, "deciding")
  /\ requests' = [requests EXCEPT ![job[w].request] = job[w].status]
  /\ Done(w)
  /\ UNCHANGED <<orders, bills>>

--------------------------------------------------------------------------------
(* Orders.  An order may name the request it comes from, which it alone    *)
(* may name: requestId is unique.                                          *)

OrderRead(w, r) ==
  /\ Idle(w) /\ Size(orders) < MaxOrders
  /\ r # None => requests[r] = "APPROVED"
  /\ Turn(w, "ordering", [request |-> r])
  /\ UNCHANGED rowVars

Unordered_Any(r) == TRUE
Unordered(r) == r # None => \A o \in DOMAIN orders : orders[o].request # r

Converted(r) == IF r = None THEN requests ELSE [requests EXCEPT ![r] = "CONVERTED"]

OrderCommit(w) ==
  /\ At(w, "ordering") /\ Size(orders) < MaxOrders
  /\ Unordered(job[w].request)
  /\ orders' = Append(orders, [request |-> job[w].request, status |-> "DRAFT"])
  /\ requests' = Converted(job[w].request)
  /\ Done(w)
  /\ UNCHANGED bills

OrderAllows ==
  [s \in {"DRAFT", "ISSUED", "PARTIALLY_RECEIVED", "RECEIVED", "BILLED", "CANCELLED"} |->
     CASE s = "DRAFT" -> {"ISSUED", "CANCELLED"}
       [] s = "ISSUED" -> {"PARTIALLY_RECEIVED", "RECEIVED", "CANCELLED"}
       [] s = "PARTIALLY_RECEIVED" -> {"RECEIVED", "CANCELLED"}
       [] s = "RECEIVED" -> {"CANCELLED"} [] OTHER -> {}]

StatusRead(w, o, s) ==
  /\ Idle(w) /\ s \in OrderAllows[orders[o].status]
  /\ Turn(w, "updating", [order |-> o, status |-> s])
  /\ UNCHANGED rowVars

StatusCommit(w) ==
  /\ At(w, "updating")
  /\ orders' = [orders EXCEPT ![job[w].order].status = job[w].status]
  /\ Done(w)
  /\ UNCHANGED <<requests, bills>>

--------------------------------------------------------------------------------
(* Bills.  An order is converted under the next number that is free, or a  *)
(* bill is entered under the supplier's; the order is looked at before and *)
(* again when the bill is made out.                                        *)

Billable_Any(o) == orders[o].status # "CANCELLED"
Billable(o) == orders[o].status \in {"ISSUED", "PARTIALLY_RECEIVED", "RECEIVED"}
NextBillNumber == IF bills = << >> THEN 1 ELSE 1 + Max(DOMAIN bills)

ToBillRead(w, o) ==
  /\ Idle(w) /\ Billable(o)
  /\ Turn(w, "converting", [order |-> o, number |-> NextBillNumber])
  /\ UNCHANGED rowVars

ToBillCheck(w) ==
  /\ At(w, "converting") /\ Billable(job[w].order)
  /\ Turn(w, "billing", job[w])
  /\ UNCHANGED rowVars

BillRead(w, o, number) ==
  /\ Idle(w)
  /\ o # None => Billable(o)
  /\ Turn(w, "billing", [order |-> o, number |-> number])
  /\ UNCHANGED rowVars

FreeNumber(number) == number \notin DOMAIN bills

BillCommit(w) ==
  /\ At(w, "billing") /\ Size(bills) < MaxBills
  /\ FreeNumber(job[w].number)
  /\ bills' = Entered(bills, job[w].number, job[w].order)
  /\ orders' = IF job[w].order = None THEN orders ELSE [orders EXCEPT ![job[w].order].status = "BILLED"]
  /\ Done(w)
  /\ UNCHANGED requests

Abort(w) == GiveUp(w) /\ UNCHANGED rowVars

--------------------------------------------------------------------------------

Requesting(w) ==
  \/ \E r \in DOMAIN requests, s \in DOMAIN RequestAllows : RequestRead(w, r, s)
  \/ RequestCommit(w)

Ordering(w) ==
  \/ \E r \in DOMAIN requests \union {None} : OrderRead(w, r)
  \/ \E o \in DOMAIN orders, s \in DOMAIN OrderAllows : StatusRead(w, o, s)
  \/ OrderCommit(w) \/ StatusCommit(w)

Billing(w) ==
  \/ \E o \in DOMAIN orders : ToBillRead(w, o)
  \/ \E o \in DOMAIN orders \union {None}, n \in 1 .. MaxBills : BillRead(w, o, n)
  \/ ToBillCheck(w) \/ BillCommit(w)

Next == CreateRequest \/ \E w \in Workers : Requesting(w) \/ Ordering(w) \/ Billing(w) \/ Abort(w)

Spec == Init /\ [][Next]_vars

--------------------------------------------------------------------------------
(* Properties. *)

(* In every interleaving a request becomes one order at most, although its *)
(* status may be set back by a decision read before it was converted.      *)
OneOrderPerRequest ==
  \A o, p \in DOMAIN orders :
    o # p /\ orders[o].request # None => orders[o].request # orders[p].request

BillsOf(o) == {n \in DOMAIN bills : bills[n] = o}

(* One request at a time, in every order: the chain holds together.  A     *)
(* request is CONVERTED exactly when it has its order, an order is BILLED  *)
(* exactly when it has its bill, and it has one at most.                   *)
ChainAgrees ==
  /\ \A r \in DOMAIN requests :
       requests[r] = "CONVERTED" <=> \E o \in DOMAIN orders : orders[o].request = r
  /\ \A o \in DOMAIN orders :
       /\ orders[o].status = "BILLED" <=> BillsOf(o) # {}
       /\ Cardinality(BillsOf(o)) <= 1
================================================================================

------------------------------ MODULE PosRegisters ------------------------------
(***************************************************************************)
(* Registers and cashier shifts, beside the sales they interleave with     *)
(* (PosService in src/src/modules/pos/pos.service.ts): opening and closing *)
(* a shift, handing a register over, and the register's configuration.     *)
(* These handlers read before they open a transaction and never look at    *)
(* the status again when they write.  Next is the whole point of sale.     *)
(***************************************************************************)
EXTENDS PosSales

CONSTANTS
  Floats,     \* the opening cash a cashier may count in
  MaxShifts   \* bound: with so many PosShift rows no openShift begins

ASSUME ShiftAssumption == MaxShifts \in Nat /\ Floats \subseteq Nat

salesState == <<sales, returns, stockVars, cost, journals, restocks, lock>>

--------------------------------------------------------------------------------
(* POST /pos/shifts. *)

OpenRead(w, cashier, r, float) ==
  /\ pc[w] = "idle"
  /\ Len(shifts) < MaxShifts
  /\ registers[r].active
  /\ CanUseRegister(cashier, registers[r])
  /\ NoOpenShift(r)
  /\ Turn(w, "opening", [register |-> r, cashier |-> cashier, opening |-> float,
                         status |-> "OPEN", expected |-> 0])
  /\ UNCHANGED <<registers, shifts, salesState>>

OpenCommit(w) ==
  /\ pc[w] = "opening"
  /\ shifts' = Append(shifts, job[w])
  /\ Done(w)
  /\ UNCHANGED <<registers, salesState>>

--------------------------------------------------------------------------------
(* What a drawer should hold: three aggregates, sent together and answered *)
(* in any order, each from what is committed when it runs.                 *)

Aggregates == {"cash", "change", "returned"}
SalesOn_Any(s) == {i \in DOMAIN sales : sales[i].shift = s}
SalesOn(s) == Completed({i \in DOMAIN sales : sales[i].shift = s})

Aggregate(kind, s) ==
  CASE kind = "cash" -> SumFunction([i \in SalesOn(s) |-> sales[i].cash])
    [] kind = "change" ->
         SumFunction([i \in SalesOn(s) |-> Paid(sales[i]) - Total(sales[i].cart)])
    [] kind = "returned" ->
         SumFunction([k \in {k \in DOMAIN returns : returns[k].sale \in SalesOn(s)} |->
                        returns[k].qty * Gross(returns[k].product)])

ReadAggregate(w, kind) ==
  /\ pc[w] \in {"closing", "handing"}
  /\ job[w].shift # 0
  /\ kind \notin DOMAIN job[w].sums
  /\ LET read == [k \in DOMAIN job[w].sums \union {kind} |->
                    IF k = kind THEN Aggregate(kind, job[w].shift) ELSE job[w].sums[k]]
     IN  Turn(w, pc[w], [job[w] EXCEPT !.sums = read])
  /\ UNCHANGED <<registers, shifts, salesState>>

Expected(s, sums) == shifts[s].opening + sums["cash"] - sums["change"] - sums["returned"]

Closed(s, sums) ==
  [shifts EXCEPT ![s].status = "CLOSED", ![s].expected = Expected(s, sums)]

(* POST /pos/shifts/:id/close. *)
CloseRead(w, cashier, s) ==
  /\ pc[w] = "idle"
  /\ shifts[s].cashier = cashier
  /\ shifts[s].status = "OPEN"
  /\ Turn(w, "closing", [shift |-> s, sums |-> << >>])
  /\ UNCHANGED <<registers, shifts, salesState>>

CloseCommit(w) ==
  /\ pc[w] = "closing"
  /\ DOMAIN job[w].sums = Aggregates
  /\ shifts' = Closed(job[w].shift, job[w].sums)
  /\ Done(w)
  /\ UNCHANGED <<registers, salesState>>

(* POST /pos/registers/:id/handover.  Without an open shift only the       *)
(* register changes hands.                                                 *)
HandoverRead(w, r, to, branch) ==
  /\ pc[w] = "idle"
  /\ registers[r].active
  /\ \/ OpenShifts(r) = {} /\ Turn(w, "handing",
           [register |-> r, to |-> to, branch |-> branch, shift |-> 0, sums |-> << >>])
     \/ \E s \in OpenShifts(r) :
          /\ shifts[s].cashier # to
          /\ Turn(w, "handing",
               [register |-> r, to |-> to, branch |-> branch, shift |-> s, sums |-> << >>])
  /\ UNCHANGED <<registers, shifts, salesState>>

HandoverCommit(w) ==
  /\ pc[w] = "handing"
  /\ job[w].shift # 0 => DOMAIN job[w].sums = Aggregates
  /\ shifts' = IF job[w].shift = 0 THEN shifts ELSE Closed(job[w].shift, job[w].sums)
  /\ registers' = [registers EXCEPT ![job[w].register].assigned = job[w].to,
                                    ![job[w].register].branch = job[w].branch]
  /\ Done(w)
  /\ UNCHANGED salesState

--------------------------------------------------------------------------------
(* PATCH /pos/registers/:id and its staff.  A change of configuration or a *)
(* deactivation asks for no open shift, an activation does not; only the   *)
(* fields sent are written.                                                *)

(* None is a field that was not sent. *)
NoChange == [active |-> None, assigned |-> None, branch |-> None]

Changes ==
  {[NoChange EXCEPT !.active = a] : a \in BOOLEAN}
    \union {[NoChange EXCEPT !.assigned = a] : a \in Staff}
    \union {[NoChange EXCEPT !.branch = b] : b \in Branches}

UpdateRead(w, r, change) ==
  /\ pc[w] = "idle"
  /\ change # [NoChange EXCEPT !.active = TRUE] => NoOpenShift(r)
  /\ Turn(w, "configuring", [register |-> r, change |-> change])
  /\ UNCHANGED <<registers, shifts, salesState>>

AssignRead(w, r, staff, branch) ==
  /\ pc[w] = "idle"
  /\ registers[r].active
  /\ NoOpenShift(r)
  /\ Turn(w, "configuring",
          [register |-> r,
           change |-> [NoChange EXCEPT !.assigned = staff, !.branch = branch]])
  /\ UNCHANGED <<registers, shifts, salesState>>

ConfigureCommit(w) ==
  /\ pc[w] = "configuring"
  /\ LET old == registers[job[w].register]
         change == job[w].change
     IN  registers' = [registers EXCEPT ![job[w].register] =
           [active   |-> IF change.active = None THEN old.active ELSE change.active,
            assigned |-> IF change.assigned = None THEN old.assigned ELSE change.assigned,
            branch   |-> IF change.branch = None THEN old.branch ELSE change.branch]]
  /\ Done(w)
  /\ UNCHANGED <<shifts, salesState>>

--------------------------------------------------------------------------------

Open(w) ==
  \/ \E a \in Staff, r \in Registers, float \in Floats : OpenRead(w, a, r, float)
  \/ OpenCommit(w)

Close(w) ==
  \/ \E s \in DOMAIN shifts : CloseRead(w, shifts[s].cashier, s)
  \/ CloseCommit(w)

Handover(w) ==
  \/ \E r \in Registers, to \in Staff, b \in Branches : HandoverRead(w, r, to, b)
  \/ HandoverCommit(w)

Configure(w) ==
  \/ \E r \in Registers, change \in Changes : UpdateRead(w, r, change)
  \/ \E r \in Registers, a \in Staff, b \in Branches : AssignRead(w, r, a, b)
  \/ ConfigureCommit(w)

ShiftNext ==
  \E w \in Workers :
    \/ Open(w)
    \/ Close(w)
    \/ Handover(w)
    \/ Configure(w)
    \/ \E kind \in Aggregates : ReadAggregate(w, kind)

Next == SalesNext \/ ShiftNext

Spec == Init /\ [][Next]_vars

--------------------------------------------------------------------------------
(* Properties. *)

(* The refinement of CheckThenAct by one register's open shifts, limit 1:  *)
(* openShift, and the shift complete opens by itself, pend once they have  *)
(* found no open shift.                                                    *)
ShiftInFlight(r) ==
  [w \in Workers |->
     IF \/ pc[w] = "opening" /\ job[w].register = r
        \/ pc[w] \in {"priced", "cleared", "locked"}
           /\ job[w].shift = 0 /\ job[w].req.register = r
       THEN 1 ELSE 0]

(* What the ledger booked to cash for a shift, less what its sales took by *)
(* card: the drawer's side of account 1000.                                *)
BookedFor(s) ==
  {n \in DOMAIN journals :
     \/ n[1] = "POS" /\ sales[n[2]].shift = s
     \/ n[1] = "VOID" /\ n[2] = "POS" /\ sales[n[3]].shift = s
     \/ n[1] = "RETURN" /\ sales[returns[n[2]].sale].shift = s}
DrawerBooked(s) ==
  BalanceOver(journals, BookedFor(s), "1000")
    - SumFunction([i \in {i \in Kept : sales[i].shift = s} |-> sales[i].card])

(* With one request at a time, the cash a shift is closed with is its      *)
(* float and what the ledger booked to the drawer (closeShift and          *)
(* handoverRegister against postSaleJournals, voidSale and returnItem).    *)
ClosingCount ==
  \A s \in DOMAIN shifts :
    shifts[s].status = "OPEN" /\ shifts'[s].status = "CLOSED" =>
      shifts'[s].expected = shifts[s].opening + DrawerBooked(s)
DrawerAgreesWithLedger == [][ClosingCount]_vars

(* With one request at a time every limit is kept as it is written: credit *)
(* exposure, the quantity a line gives back, one open shift a register     *)
(* (complete, returnItem, voidSale, openShift).                            *)
LimitsKept ==
  /\ \A c \in Customers : Exposure(c) <= CreditLimit[c]
  /\ \A i \in DOMAIN sales, p \in Products : Restored(i, p) <= sales[i].cart[p]
  /\ \A r \in Registers : Cardinality(OpenShifts(r)) <= 1

(* The test "prevents deactivating a register with an open shift"          *)
(* (pos.service.spec.ts): a register out of use has no open shift.         *)
InactiveHasNoOpenShift ==
  \A r \in Registers : ~registers[r].active => OpenShifts(r) = {}

(* The advisory lock is held from the count to the end of the transaction, *)
(* and by no other request.                                                *)
LockHeld == \A w \in Workers : pc[w] = "locked" <=> lock = w

(* The stock a checkout found under the lock is still there when it writes *)
(* its issues.                                                             *)
StockStays == \A w \in Workers : pc[w] = "locked" => StockCovers(job[w].req)

(* The inductive invariant: what the lock protects, in one formula, over   *)
(* every handler of the point of sale (complete, voidSale, returnItem,     *)
(* restockProduct, openShift, closeShift, handoverRegister,                *)
(* updateRegister, assignRegisterStaff).                                   *)
PosInv ==
  /\ TypeOK
  /\ LockHeld
  /\ StockStays
  /\ ReceiptNumbers
  /\ OneSalePerKey
  /\ NoOversell
================================================================================

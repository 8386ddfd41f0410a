------------------------------ MODULE MCRegisters ------------------------------
(* Small instances of the whole point of sale, with its registers and      *)
(* shifts; constants as in MCSales.                                        *)
EXTENDS MCSales, PosRegisters

MCFloats == {0, 2}
MCNoFloat == {0}

(* One register, that both cashiers may use. *)
MCOneRegister == {r1}
MCOneInitial  == [r \in {r1} |-> [branch |-> main, assigned |-> ann, active |-> TRUE]]
MCOneWarehouse == [r \in {r1} |-> depot]

(* Cash with change, a sale split on card, and one on credit. *)
DrawerCheckouts ==
  {Body("k1", ann, r1, None, Rice(2, 0), 4, 8, 0),
   Body("k2", ann, r1, cus, Rice(1, 1), 3, 0, 6)}

MCTwoStaff == {ann, bob}
MCTwoManage == [s \in MCTwoStaff |-> {main}]
ShiftCheckouts == {Body("k1", ann, r1, None, Rice(1, 0), 5, 0, 0)}

(* A register has no index that keeps it to one OPEN shift: openShift, and *)
(* the shift complete opens by itself, check and then act.  They implement *)
(* the check-then-act specification with limit 1, so the requests in       *)
(* flight bound the open shifts of a register (openShift, complete,        *)
(* closeShift, handoverRegister).                                          *)
ShiftsOf == INSTANCE CheckThenAct WITH
  Limit <- 1, used <- Cardinality(OpenShifts(r1)), pend <- ShiftInFlight(r1)
ShiftQuota == ShiftsOf!Spec
================================================================================

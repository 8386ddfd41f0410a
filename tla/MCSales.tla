-------------------------------- MODULE MCSales --------------------------------
(* Small instances of PosSales: two tills of one branch sell from one      *)
(* warehouse.                                                              *)
EXTENDS PosSales

CONSTANTS ann, bob, olu, main, r1, r2, depot, rice, fitting, cus

MCStaff     == {ann, bob, olu}
MCOwners    == {olu}
MCNoStaff   == {}
MCBranches  == {main}
MCManages   == [s \in MCStaff |-> IF s = olu THEN {} ELSE {main}]
MCRegisters == {r1, r2}
MCInitialRegisters ==
  [r \in MCRegisters |-> [branch |-> main, assigned |-> IF r = r1 THEN ann ELSE bob,
                          active |-> TRUE]]
MCWarehouseOf == [r \in MCRegisters |-> depot]
MCProducts  == {rice, fitting}
MCGoods     == {rice}
MCNet       == [p \in MCProducts |-> IF p = rice THEN 4 ELSE 3]
MCTax       == [p \in MCProducts |-> IF p = rice THEN 1 ELSE 0]
MCOneCost   == [p \in MCProducts |-> IF p = rice THEN {2} ELSE {0}]
MCTwoCosts  == [p \in MCProducts |-> IF p = rice THEN {2, 3} ELSE {0}]
MCOpeningCost  == [p \in MCProducts |-> IF p = rice THEN 2 ELSE 0]
MCOpeningHome  == [p \in MCProducts |-> depot]
MCOpeningStock == [p \in MCProducts |-> IF p = rice THEN 3 ELSE 0]
MCCreditLimit  == [c \in {cus} |-> 12]

Rice(n, m) == [p \in MCProducts |-> IF p = rice THEN n ELSE m]

Body(key, cashier, register, customer, cart, cash, card, credit) ==
  [key |-> key, cashier |-> cashier, register |-> register, branch |-> None,
   customer |-> customer, cart |-> cart, cash |-> cash, card |-> card, credit |-> credit]

(* Two tills that together want more rice than there is, each able to send *)
(* its checkout twice, one that pays with a coupon too little, and one     *)
(* without a key.                                                          *)
TillCheckouts ==
  {Body("k1", ann, r1, None, Rice(2, 0), 11, 0, 0),
   Body("k2", bob, r2, None, Rice(2, 1), 3, 10, 0),
   Body("k3", bob, r2, None, Rice(1, 0), 4, 0, 0),
   Body(None, ann, r1, None, Rice(1, 0), 0, 5, 0)}

(* Carts of two, partly on the credit of one customer, either sale alone   *)
(* within the limit. *)
BookCheckouts ==
  {Body("k1", ann, r1, cus, Rice(2, 0), 4, 0, 7),
   Body("k2", bob, r2, cus, Rice(2, 0), 0, 4, 6)}

RetryCheckouts ==
  {Body("k1", ann, r1, None, Rice(1, 0), 5, 0, 0),
   Body("k2", bob, r2, None, Rice(2, 0), 10, 0, 0)}

(* The credit sales of a customer implement the check-then-act             *)
(* specification: the exposure is checked before the lock is taken, so the *)
(* limit may be passed, by less than one limit for each of the other       *)
(* checkouts in flight (complete).                                         *)
CreditOf == INSTANCE CheckThenAct WITH
  Limit <- CreditLimit[cus], used <- Exposure(cus), pend <- CreditInFlight(cus)
CreditQuota == CreditOf!Spec

(* Returns and the void of one line together implement it too: neither     *)
(* locks the sale it has read, so goods may be given back more than once,  *)
(* at most once for each request in flight (voidSale, returnItem).  Every  *)
(* cart of this instance has two bags of rice.                             *)
FirstLine == INSTANCE CheckThenAct WITH
  Limit <- 2, used <- Restored(1, rice), pend <- RestoreInFlight(1, rice)
SecondLine == INSTANCE CheckThenAct WITH
  Limit <- 2, used <- Restored(2, rice), pend <- RestoreInFlight(2, rice)
RestoreQuota == FirstLine!Spec /\ SecondLine!Spec
================================================================================

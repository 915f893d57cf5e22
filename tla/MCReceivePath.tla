---------------------------- MODULE MCReceivePath ----------------------------
(***************************************************************************)
(* The receive path: ReceiveCoordinator, which makes the windows, the      *)
(* transactions of the store that it records them in (ReceiveStore) and    *)
(* what becomes of their fields and decodes (ReceiveColumns), side by      *)
(* side: a behaviour is one of a part, and the others rest in one initial  *)
(* state.  They share no variable, so their states add up and do not       *)
(* multiply.  Two units make a slot: a stream of four fills two slots, or  *)
(* one when it starts in the middle of a slot.                             *)
(***************************************************************************)
EXTENDS ReceiveCoordinator, MCReceiveStore, MCReceiveColumns

VARIABLE part

NothingHeard == [frames |-> SlotSamples, heard |-> <<>>]

ReceiveVars == <<part, coordinatorVars, vars, columnVars>>

ReceiveInit ==
  /\ part \in {"coordinator", "store", "columns"}
  /\ CoordinatorInit /\ Init /\ ColumnsInit
  /\ part # "coordinator" => clockConfig = "ok"
  /\ part # "columns" => phase = "heard" /\ buffer = NothingHeard

ReceiveNext ==
  /\ UNCHANGED part
  /\ \/ part = "coordinator" /\ CoordinatorNext /\ UNCHANGED <<vars, columnVars>>
     \/ part = "store" /\ Next /\ UNCHANGED <<coordinatorVars, columnVars>>
     \/ part = "columns" /\ ColumnsNext /\ UNCHANGED <<coordinatorVars, vars>>

(* Where the coordinator rests, it is stopped and poll is disabled. *)
ReceiveSpec == ReceiveInit /\ [][ReceiveNext]_ReceiveVars /\ WF_coordinatorVars(Poll)
=============================================================================

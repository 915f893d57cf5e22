---------------------------- MODULE MCOperations ----------------------------
(***************************************************************************)
(* ReceiveClock and RigSession of crates/operations side by side: a        *)
(* behaviour is one of a part, and the other rests in one initial state.   *)
(* They share no variable, so their states add up and do not multiply.     *)
(* ReceiveClock has a jump larger than the tolerance among its offsets and *)
(* needs three samples to recover.                                         *)
(***************************************************************************)
EXTENDS ReceiveClock, MCRigSession

VARIABLE part

OperationsVars == <<part, vars, sessionVars>>

OperationsInit ==
  /\ part \in {"clock", "rig"}
  /\ Init /\ SessionInit
  /\ part = "clock" => focus = "rig" /\ clock = CHOOSE start \in Starts : TRUE
  /\ part = "rig" => offset = CHOOSE o \in [Time -> Offsets] : TRUE

OperationsNext ==
  /\ UNCHANGED part
  /\ \/ part = "clock" /\ Next /\ UNCHANGED sessionVars
     \/ part = "rig" /\ SessionNext /\ UNCHANGED vars

OperationsSpec == OperationsInit /\ [][OperationsNext]_OperationsVars
=============================================================================

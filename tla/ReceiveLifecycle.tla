-------------------------- MODULE ReceiveLifecycle --------------------------
(***************************************************************************)
(* What a live receive coordinator promises its callers, without saying    *)
(* how: docs/live-receive.md's lifecycle, with the one departure of the    *)
(* code from it.  Every start attempt takes a fresh stream generation and  *)
(* ends receiving or inhibited, or, where clock setup fails, in Starting,  *)
(* which no call leaves; only a receiving coordinator publishes, in slot   *)
(* order; an inhibited one does nothing until it is stopped; a restart     *)
(* leaves receive stopped.                                                 *)
(***************************************************************************)
EXTENDS Integers

CONSTANT Slots   \* the FT8 slots a stream can fill

VARIABLES
  proc,       \* generation of the daemon process
  phase,      \* "Stopped", "Starting", "Receiving" or "Inhibited"
  gen,        \* last issued stream generation
  published   \* windows made durable: their process, generation and slot

vars == <<proc, phase, gen, published>>

Init == proc = 1 /\ phase = "Stopped" /\ gen = 0 /\ published = {}

Start ==
  /\ phase = "Stopped"
  /\ gen' = gen + 1
  /\ phase' \in {"Receiving", "Inhibited", "Starting"}
  /\ UNCHANGED <<proc, published>>

Publish ==
  /\ phase = "Receiving"
  /\ \E slot \in Slots :
       LET w == [proc |-> proc, gen |-> gen, slot |-> slot]
       IN  /\ \A old \in published :
                old.proc = proc /\ old.gen = gen => old.slot < slot
           /\ published' = published \union {w}
  /\ UNCHANGED <<proc, phase, gen>>

Inhibit ==
  /\ phase = "Receiving"
  /\ phase' = "Inhibited"
  /\ UNCHANGED <<proc, gen, published>>

Stop ==
  /\ phase \in {"Receiving", "Inhibited"}
  /\ phase' = "Stopped"
  /\ UNCHANGED <<proc, gen, published>>

Restart ==
  /\ proc' = proc + 1
  /\ phase' = "Stopped"
  /\ gen' = 0
  /\ UNCHANGED published

Next == Start \/ Publish \/ Inhibit \/ Stop \/ Restart

Spec == Init /\ [][Next]_vars
=============================================================================

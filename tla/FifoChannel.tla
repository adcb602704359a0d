----------------------------- MODULE FifoChannel -----------------------------
(***************************************************************************)
(* What a pipe promises: messages come out in the order in which they were *)
(* taken in, none is lost or duplicated unless the channel is broken off,  *)
(* nothing is taken in once it is shut, and what was taken in before it    *)
(* was shut still comes out.                                               *)
(***************************************************************************)
EXTENDS Sequences

CONSTANT Msgs
VARIABLES in, out, open, broken

fifoVars == <<in, out, open, broken>>

Init == in = <<>> /\ out = <<>> /\ open = TRUE /\ broken = FALSE

Put(m) ==
  /\ open
  /\ in' = Append(in, m)
  /\ UNCHANGED <<out, open, broken>>

\* A read takes everything that has been put and not yet taken.
Get ==
  /\ ~broken
  /\ out # in
  /\ out' = in
  /\ UNCHANGED <<in, open, broken>>

Shut ==
  /\ open
  /\ open' = FALSE
  /\ UNCHANGED <<in, out, broken>>

BreakOff ==
  /\ ~broken
  /\ broken' = TRUE
  /\ open' = FALSE
  /\ UNCHANGED <<in, out>>

Next == (\E m \in Msgs : Put(m)) \/ Get \/ Shut \/ BreakOff

Spec == Init /\ [][Next]_fifoVars

\* With readers that keep reading, what is in comes out.
LiveSpec == Spec /\ WF_fifoVars(Get)
=============================================================================

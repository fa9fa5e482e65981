----------------------------- MODULE LossyFifo -----------------------------
(***************************************************************************)
(* What one direction of a connection between two daemons promises, and    *)
(* all that ClipboardSync and Transfer take for granted of it: messages    *)
(* arrive as they were sent, in order, each once and none left out, until  *)
(* one of the two ends stops; what had not arrived by then never does.     *)
(***************************************************************************)
EXTENDS Sequences, Naturals

CONSTANT Msg

VARIABLES
  sent,        \* messages the sending end began to send
  delivered,   \* messages the receiving end handed over
  sending,     \* the sending end is there
  receiving    \* the receiving end is there

fifoVars == <<sent, delivered, sending, receiving>>

Init ==
  /\ sent = <<>> /\ delivered = <<>>
  /\ sending = TRUE /\ receiving = TRUE

Send ==
  /\ sending
  /\ \E m \in Msg : sent' = Append(sent, m)
  /\ UNCHANGED <<delivered, sending, receiving>>

Deliver ==
  /\ receiving
  /\ Len(delivered) < Len(sent)
  /\ delivered' = Append(delivered, sent[Len(delivered) + 1])
  /\ UNCHANGED <<sent, sending, receiving>>

StopSending == sending' = FALSE /\ UNCHANGED <<sent, delivered, receiving>>

StopReceiving == receiving' = FALSE /\ UNCHANGED <<sent, delivered, sending>>

Next == Send \/ Deliver \/ StopSending \/ StopReceiving

Spec == Init /\ [][Next]_fifoVars
=============================================================================

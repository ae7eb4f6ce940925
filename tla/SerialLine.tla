----------------------------- MODULE SerialLine -----------------------------
(***************************************************************************)
(* What the UART promises a program that uses its interrupts: two streams  *)
(* of characters, each delivered in order and in the end, with the errors  *)
(* of every character received, and with word of any character lost.       *)
(***************************************************************************)
EXTENDS Integers, Sequences

CONSTANTS
  Chars,        \* the characters sent
  Arriving,     \* the characters received: [data, err]
  Errors

VARIABLES
  sent,         \* what the program has sent, and what came out of it
  out,
  arrived,      \* what the line has brought, and what the program got of it
  got,
  lost          \* a character has been lost and the program not told

vars == <<sent, out, arrived, got, lost>>

Init == sent = <<>> /\ out = <<>> /\ arrived = <<>> /\ got = <<>> /\ lost = FALSE

Send ==
  /\ \E c \in Chars : sent' = Append(sent, c)
  /\ UNCHANGED <<out, arrived, got, lost>>

Emit ==
  /\ Len(out) < Len(sent)
  /\ out' = Append(out, sent[Len(out) + 1])
  /\ UNCHANGED <<sent, arrived, got, lost>>

Arrive ==
  /\ \E s \in Arriving : arrived' = Append(arrived, s)
  /\ UNCHANGED <<sent, out, got, lost>>

Lose ==
  /\ lost' = TRUE
  /\ UNCHANGED <<sent, out, arrived, got>>

(* A character may be reported with more errors than it has: the status    *)
(* the UART repeats is that of the character before it.                    *)
Get ==
  /\ Len(got) < Len(arrived)
  /\ LET s == arrived[Len(got) + 1]
     IN \E more \in SUBSET Errors :
          got' = Append(got, [s EXCEPT !.err = @ \cup more])
  /\ UNCHANGED <<sent, out, arrived, lost>>

Tell ==
  /\ lost /\ lost' = FALSE
  /\ UNCHANGED <<sent, out, arrived, got>>

Next == Send \/ Emit \/ Arrive \/ Lose \/ Get \/ Tell

Spec ==
  Init /\ [][Next]_vars /\ WF_vars(Emit) /\ WF_vars(Get) /\ WF_vars(Tell)
=============================================================================

------------------------------ MODULE AckTicket ------------------------------
(***************************************************************************)
(* What the acknowledgement machinery of rex-server promises the sender of *)
(* a message, whatever threads carry it out: publishing opens at most one  *)
(* ticket per message, an open ticket is closed once, and closing it sends *)
(* the sender one verdict, or none if the sender is gone.                  *)
(***************************************************************************)
EXTENDS Naturals

CONSTANT Msgs

AckVerdicts == {"Success", "AckTimeout"}

VARIABLES
    ticket,   \* message -> "none", "open" or "closed"
    answers   \* message -> verdict -> how many AckReturns carried it

vars == <<ticket, answers>>

Init ==
    /\ ticket = [m \in Msgs |-> "none"]
    /\ answers = [m \in Msgs |-> [v \in AckVerdicts |-> 0]]

Open(m) ==
    /\ ticket[m] = "none"
    /\ ticket' = [ticket EXCEPT ![m] = "open"]
    /\ UNCHANGED answers

(* There is nothing to wait for: no target, or ACKs are disabled.          *)
Refuse(m) ==
    /\ ticket[m] = "none"
    /\ ticket' = [ticket EXCEPT ![m] = "closed"]
    /\ UNCHANGED answers

Answer(m, v) == answers' = [answers EXCEPT ![m][v] = 1]

Close(m) ==
    /\ ticket[m] = "open"
    /\ ticket' = [ticket EXCEPT ![m] = "closed"]
    /\ UNCHANGED answers \/ \E v \in AckVerdicts : Answer(m, v)

Next == \E m \in Msgs : Open(m) \/ Refuse(m) \/ Close(m)

Spec == Init /\ [][Next]_vars

=============================================================================

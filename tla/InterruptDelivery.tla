------------------------- MODULE InterruptDelivery -------------------------
(***************************************************************************)
(* What an interrupt controller promises the processors: a line that was   *)
(* asserted is owed, either to all of them together, and then the first to *)
(* serve it settles it, or to one of them, and then only that one does.  A *)
(* processor enters a handler only for a line that is owed to it, and that *)
(* settles this line and no other.                                         *)
(***************************************************************************)
EXTENDS Integers

CONSTANTS
    CPUs,      \* the processors
    Served,    \* the lines that are delivered one by one
    Cascade    \* the line that stands for a group of others

VARIABLES
    owed,      \* lines the first processor to serve them settles
    owedTo,    \* lines owed to each processor by itself
    enabled,   \* a processor accepts interrupts
    handler    \* the line whose handler it entered last, 0 before the first

vars == <<owed, owedTo, enabled, handler>>

Init ==
    /\ owed = {}
    /\ owedTo = [c \in CPUs |-> {}]
    /\ enabled = [c \in CPUs |-> FALSE]
    /\ handler = [c \in CPUs |-> 0]

\* lines are asserted for any processor
Assert ==
    /\ owed' \in SUBSET Served
    /\ owed \subseteq owed'
    /\ UNCHANGED <<owedTo, enabled, handler>>

\* a line is asserted for every processor
AssertForAll(n) ==
    /\ n \in Served
    /\ owedTo' = [c \in CPUs |-> owedTo[c] \cup {n}]
    /\ UNCHANGED <<owed, enabled, handler>>

\* software withdraws lines owed to any processor
Withdraw ==
    /\ owed' \in SUBSET owed
    /\ UNCHANGED <<owedTo, enabled, handler>>

\* software decides what is owed to one processor
Arrange(c) ==
    /\ \E lines \in SUBSET Served : owedTo' = [owedTo EXCEPT ![c] = lines]
    /\ UNCHANGED <<owed, enabled, handler>>

\* a processor enters the handler of a line: only that line is settled, and
\* only for those it was owed to together
Serve(c, n) ==
    /\ enabled[c]
    /\ n \in owed \cup owedTo[c]
    /\ owed' = owed \ {n}
    /\ owedTo' = [owedTo EXCEPT ![c] = @ \ {n}]
    /\ enabled' = [enabled EXCEPT ![c] = FALSE]
    /\ handler' = [handler EXCEPT ![c] = n]

\* the cascade is not accounted for
ServeCascade(c) ==
    /\ enabled[c]
    /\ enabled' = [enabled EXCEPT ![c] = FALSE]
    /\ handler' = [handler EXCEPT ![c] = Cascade]
    /\ UNCHANGED <<owed, owedTo>>

\* software enables or disables the interrupts of a processor
Accept(c) ==
    /\ \E e \in BOOLEAN : enabled' = [enabled EXCEPT ![c] = e]
    /\ UNCHANGED <<owed, owedTo, handler>>

Next ==
    \/ Assert
    \/ \E n \in Served : AssertForAll(n)
    \/ Withdraw
    \/ \E c \in CPUs : Arrange(c) \/ ServeCascade(c) \/ Accept(c)
    \/ \E c \in CPUs, n \in Served : Serve(c, n)

Spec == Init /\ [][Next]_vars
=============================================================================

------------------------------ MODULE AhbOrder ------------------------------
(***************************************************************************)
(* What the AHB promises its masters, whatever its timing: the transfers   *)
(* take effect one at a time, in the order they are granted; they end in   *)
(* that order; at most two are under way, one in its address and one in    *)
(* its data phase; and a master that has locked the bus is the only one    *)
(* granted it until it has a transfer granted that carries no lock.        *)
(***************************************************************************)
EXTENDS Naturals, Sequences

CONSTANTS Trans, Lines, Values, NoMaster

VARIABLES
    waiting,   \* the transfers masters have asked for
    flight,    \* the transfers granted and not ended, in the order of the grants
    holder,    \* the master that has locked the bus
    mem        \* the memory behind the bus

vars == <<waiting, flight, holder, mem>>

Init ==
    /\ waiting = {} /\ flight = <<>> /\ holder = NoMaster
    /\ mem \in [Lines -> Values]

Ask(t) ==
    /\ waiting' = waiting \cup {t}
    /\ UNCHANGED <<flight, holder, mem>>

Grant(t) ==
    /\ t \in waiting
    /\ Len(flight) < 2
    /\ holder \in {NoMaster, t.master}
    /\ waiting' = waiting \ {t}
    /\ flight' = Append(flight, t)
    /\ holder' = IF t.lock THEN t.master ELSE NoMaster
    /\ mem' = IF t.cmd = "write" /\ t.line \in Lines
              THEN [mem EXCEPT ![t.line] = t.val] ELSE mem

End ==
    /\ flight # <<>>
    /\ flight' = Tail(flight)
    /\ UNCHANGED <<waiting, holder, mem>>

\* a transfer may end in the instant in which its master asks for the next
EndAndAsk(t) ==
    /\ flight # <<>>
    /\ flight' = Tail(flight)
    /\ waiting' = waiting \cup {t}
    /\ UNCHANGED <<holder, mem>>

Next == (\E t \in Trans : Ask(t) \/ Grant(t) \/ EndAndAsk(t)) \/ End

Spec == Init /\ [][Next]_vars
=============================================================================

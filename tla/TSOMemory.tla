----------------------------- MODULE TSOMemory -----------------------------
(***************************************************************************)
(* What the processors of a multi-processor LEON3 may rely on: a memory of *)
(* words behind one first-in first-out store buffer per processor.  A load *)
(* returns the newest buffered store of its own processor to that address, *)
(* or the memory.  This is the total store order of the SPARC V8 manual;   *)
(* the caches are not to be seen.                                          *)
(***************************************************************************)
EXTENDS Naturals, Sequences

CONSTANTS CPUs, Addresses, Values, NoLoad

VARIABLES
    memory,   \* the value of each address
    buffer,   \* the stores of each processor that are still to be committed
    seen      \* the last load of each processor, and its result

vars == <<memory, buffer, seen>>

StoreOp == Addresses \X Values

\* the stores of b to address a, by position
StoresTo(b, a) == {n \in DOMAIN b : b[n][1] = a}

\* what a processor with store buffer b reads at a
Newest(b, a) ==
    IF StoresTo(b, a) = {} THEN memory[a]
    ELSE LET last == CHOOSE n \in StoresTo(b, a) : \A k \in StoresTo(b, a) : k <= n
         IN  b[last][2]

Init ==
    /\ memory \in [Addresses -> Values]
    /\ buffer = [c \in CPUs |-> <<>>]
    /\ seen = [c \in CPUs |-> NoLoad]

Load(c, a) ==
    /\ seen' = [seen EXCEPT ![c] = <<a, Newest(buffer[c], a)>>]
    /\ UNCHANGED <<memory, buffer>>

Store(c, a, v) ==
    /\ buffer' = [buffer EXCEPT ![c] = Append(@, <<a, v>>)]
    /\ UNCHANGED <<memory, seen>>

Commit(c) ==
    /\ buffer[c] # <<>>
    /\ memory' = [memory EXCEPT ![Head(buffer[c])[1]] = Head(buffer[c])[2]]
    /\ buffer' = [buffer EXCEPT ![c] = Tail(@)]
    /\ UNCHANGED seen

Next ==
    \E c \in CPUs :
        \/ \E a \in Addresses : Load(c, a)
        \/ \E a \in Addresses, v \in Values : Store(c, a, v)
        \/ Commit(c)

Spec == Init /\ [][Next]_vars
=============================================================================

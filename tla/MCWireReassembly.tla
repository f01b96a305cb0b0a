-------------------------- MODULE MCWireReassembly --------------------------
EXTENDS WireReassembly

CONSTANTS a1, a2

\* Processes are numbers in the order of their generations.
Generations == [p \in Procs |-> p]

\* Every process splits into payloads of two.
Twos == [p \in Procs |-> 2]

=============================================================================

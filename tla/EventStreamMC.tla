----------------------------- MODULE EventStreamMC -----------------------------
EXTENDS EventStream
CONSTANTS c1, r1
Twice == {[events |-> 2, connects |-> [c \in Clients |-> 2]]}
===============================================================================

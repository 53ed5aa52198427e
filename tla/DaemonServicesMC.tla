--------------------------- MODULE DaemonServicesMC ---------------------------
EXTENDS DaemonServices

\* Desktops on one connection each, or one that connects again.
FirstOrSecond ==
    {[events |-> 2, connects |-> [c \in Clients |-> 1]],
     [events |-> 3, connects |-> [c \in Clients |-> IF c = "c1" THEN 2 ELSE 0]]}

\* One desktop that may connect again.
Reconnecting == {[events |-> 2, connects |-> [c \in Clients |-> 2]]}
===============================================================================

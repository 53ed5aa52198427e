--------------------------- MODULE ScheduledTasksMC ---------------------------
EXTENDS ScheduledTasks
CONSTANT t1
Minutely == [kind |-> "Every", at |-> 1]
OnceAt(m) == [kind |-> "Once", at |-> m]
Kinds == {Minutely, OnceAt(2)}
Few   == {<<2, 0, 0>>, <<1, 1, 0>>, <<1, 0, 1>>}
===============================================================================

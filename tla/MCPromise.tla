------------------------------ MODULE MCPromise ------------------------------
EXTENDS Promise, TLC

CONSTANTS p1, p2

S(k, c, s) == [kind |-> k, cancellable |-> c, signallable |-> s]

\* A task, and one promise of each kind to race with it, to nest in it or to be
\* around it.
TaskAndAny ==
    (p1 :> {S("go", TRUE, FALSE), S("go", TRUE, TRUE)}) @@
    (p2 :> {S("go", TRUE, FALSE), S("poll", TRUE, FALSE), S("bare", TRUE, TRUE)})

\* For the temporal properties: two tasks, side by side or one in the other.
Nested == (p1 :> {S("go", TRUE, TRUE)}) @@ (p2 :> {S("go", TRUE, FALSE), S("poll", TRUE, FALSE)})
=============================================================================

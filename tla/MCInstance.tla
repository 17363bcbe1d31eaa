----------------------------- MODULE MCInstance -----------------------------
EXTENDS Instance

Arrays(q, v, c) == [f \in Field |-> CASE f = "qpos" -> q
                                      [] f = "qvel" -> v
                                      [] f = "ctrl" -> c]

\* A configuration that is accepted, one refused at its second field, one
\* refused at its first after part of it was written, and one that only
\* carries a bad ctrl.
MCArraysIn == {Arrays("fits", NoArray, NoArray),
               Arrays("fits", "tooLong", "fits"),
               Arrays("mixed", "fits", NoArray),
               Arrays(NoArray, NoArray, "mixed")}

MCWriteIn == {"all", "some", "none"}
=============================================================================

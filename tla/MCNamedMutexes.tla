--------------------------- MODULE MCNamedMutexes ---------------------------
(***************************************************************************)
(* Three threads of two processes whose wants form a ring.                 *)
(***************************************************************************)
EXTENDS NamedMutexes

CONSTANTS t1, t2, t3, p1, p2

Ring == [t \in {t1, t2, t3} |->
            CASE t = t1 -> {1, 2}
              [] t = t2 -> {2, 3}
              [] t = t3 -> {1, 3}]

TwoHomes == [t \in {t1, t2, t3} |-> IF t = t3 THEN p2 ELSE p1]
=============================================================================

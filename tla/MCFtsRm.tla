------------------------------ MODULE MCFtsRm -------------------------------
(* Registrations for the instances of FtsRm. *)
EXTENDS FtsRm

\* The outcomes of a disturbed period are looked at by nobody.
MC_View == <<list, slotvars, counters, job, [id \in Ids \ disturbed |-> hist[id]],
             offs, rmvars>>

Arg(mm, kk, t, pt) == [m |-> mm, k |-> kk, tech |-> t, pattern |-> pt]

\* A static and a dynamic registration, the latter with two partitions.
MC_TwoParts == { Arg(1, 1, "SDR", R_PATTERN), Arg(2, 4, "DDR", E_PATTERN) }
=============================================================================

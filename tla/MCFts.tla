------------------------------- MODULE MCFts --------------------------------
(* Registrations for the instances of Fts. *)
EXTENDS Fts

Arg(mm, kk, t, pt) == [m |-> mm, k |-> kk, tech |-> t, pattern |-> pt]

\* One of each technique; the E-pattern of (2,4) has two partitions.
MC_AllTechs ==
    { Arg(1, 3, "SRE", R_PATTERN), Arg(2, 4, "SDR", E_PATTERN),
      Arg(2, 4, "DRE", E_PATTERN), Arg(1, 3, "DDR", R_PATTERN),
      Arg(1, 2, "NONE", R_PATTERN) }

\* Small constraints for short behaviours.
MC_Small == { Arg(1, 2, "SDR", R_PATTERN), Arg(1, 2, "DDR", E_PATTERN) }
=============================================================================

---------------------------- MODULE MCOwnership -----------------------------
(***************************************************************************)
(* A small instance of Ownership for TLC: two processes, and databases of   *)
(* every schema version, with histories of one mode, of two, of none, and   *)
(* of one whose first run has expired.                                      *)
(* A retention of one second removes runs of second 0 at second 2.          *)
(***************************************************************************)
EXTENDS Ownership

CONSTANTS p1, p2

Old(mode) == [mode |-> mode, started |-> 0, completed |-> 0]

File(version, identity, modes, stray) ==
    [version |-> version, identity |-> identity,
     runs |-> [i \in DOMAIN modes |-> Old(modes[i])], stray |-> stray]

Files ==
    {File(0, "none", <<>>, FALSE),
     File(1, "none", <<>>, FALSE),
     File(1, "none", <<>>, TRUE),
     File(1, "none", <<"live">>, TRUE),
     File(1, "none", <<"live", "dry_run">>, TRUE),
     File(2, "none", <<>>, FALSE),
     File(2, "dry_run", [i \in {2} |-> "dry_run"], TRUE),
     File(3, "live", <<"live">>, TRUE)}

=============================================================================

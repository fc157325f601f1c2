------------------------------ MODULE MCResume ------------------------------
(***************************************************************************)
(* Small instances of Resume: a black-only seed, a level for each kind of  *)
(* mover set and a last level without boards.                              *)
(***************************************************************************)
EXTENDS Resume

MCMovers == [l \in Levels |-> CASE l = 0 -> {Black}
                                [] l = MaxLevel -> {}
                                [] l = 1 -> {White}
                                [] OTHER -> {White, Black}]

NotPurging == Points \ {"purge"}
NotMerging == Points \ {"merge"}
=============================================================================

--------------------------- MODULE MCSaveManager ---------------------------
(***************************************************************************)
(* Small instances of SaveManager for TLC: which failures may happen in a  *)
(* run.  Without writers of offline characters and with one caller of the  *)
(* drain barrier, characters do not interact except through saveAll and    *)
(* the batch save, so two of them show every interaction.                  *)
(***************************************************************************)
EXTENDS SaveManager, TLC

NoFaults == {}
FlushAndCrash == {"flush", "crash"}
UnreplayableLog == {"crash", "recoverQuery"}
FailedStartup == {"crash", "recoverBegin"}

\* No property names a character, an update or a caller.
Symmetry == Permutations(Guids)
=============================================================================

----------------------------- MODULE MCPlayList -----------------------------
(* Instances of PlayList for the runs.                                       *)
EXTENDS PlayList

CONSTANTS f1, f2, f3

MCFiles == {f1, f2, f3}
MCStored == <<f1, f2>>

\* Without is the filter of the standard module.
ASSUME FilterAssumption ==
    \A n \in 0 .. 4 : \A list \in [1 .. n -> MCFiles] : \A gone \in SUBSET MCFiles :
        Without(list, gone) = SelectSeq(list, LAMBDA f : f \notin gone)

=============================================================================

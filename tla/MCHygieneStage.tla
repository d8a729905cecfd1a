--------------------------- MODULE MCHygieneStage ---------------------------
(* Small instances of HygieneStage for TLC. *)
EXTENDS HygieneStage, TLC

\* Nothing in the specification tells one request id from another.
TaskSymmetry == Permutations(Tasks)

AllCommands ==
  {"pause", "resume", "cancel", "admin_pause", "admin_resume", "admin_cancel"}

TenantCommands == {"pause", "resume", "cancel"}

TwoRows == 1..2
ThreeRows == 1..3

File(invalid, duplicate) == [invalid |-> invalid, duplicate |-> duplicate]

\* A file without flaws; one with an invalid row; one whose last row repeats
\* the first; one without a valid row, which may repeat itself.
TwoRowFiles ==
  {File({}, {}), File({1}, {}), File({}, {2}), File({1, 2}, {}), File({1}, {2})}

CleanFile == {File({}, {})}

AllOutcomes == {"SUCCEEDED", "ABSENT", "FAILED"}
=============================================================================

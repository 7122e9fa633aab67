------------------------------ MODULE MCResident ------------------------------
(* Small instances of Resident: two replies and a note, two experiments.    *)
EXTENDS Resident

CONSTANTS r1, r2, note

TwoReplies == {r1, r2}
OneNote == {note}
=============================================================================

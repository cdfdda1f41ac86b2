---------------------------- MODULE MCAutoImport ----------------------------
(* Constants for AutoImport that a .cfg cannot write as literals.          *)
EXTENDS AutoImport

(* Durations time.ParseDuration accepts without error that are not        *)
(* positive: "-1s", "0" and "0s"; and one positive duration.               *)
NonPositiveIntervals == {-1, 0, 1}
============================================================================

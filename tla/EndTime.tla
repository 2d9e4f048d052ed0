------------------------------ MODULE EndTime ------------------------------
(***************************************************************************)
(* The end times that a caller may pass to the calls of netwib that wait:  *)
(* NETWIB_TIME_ZERO, a date, or NETWIB_TIME_INFINITE (sys/time.h).         *)
(***************************************************************************)
AbsTime == {"ZERO", "TIMED", "INFINITE"}
=============================================================================

---------------------------- MODULE MCTokenClient ----------------------------
(* Constants for model checking TokenClient. *)
EXTENDS TokenClient

\* None at all, too short for an upload to arrive, and long enough.
SomeLives == {0, 2, 6}
=============================================================================

-------------------------- MODULE MCProcessHandle --------------------------
(* Two pipes of a process, for TLC. *)
EXTENDS ProcessHandle

CONSTANTS stdout, stderr

TwoStreams == {stdout, stderr}
=============================================================================

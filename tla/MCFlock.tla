------------------------------- MODULE MCFlock -------------------------------
(***************************************************************************)
(* Calls of all kinds: without a timeout, with one of two sleeps, one that *)
(* waits for ever, and one that bypasses the lock.                         *)
(***************************************************************************)
EXTENDS Flock

CONSTANTS reload, minigraph, timed, blocking, bypassing

MCProcesses == {reload, minigraph, timed, blocking, bypassing}
MCBypass == {bypassing}
MCTimeout == [p \in MCProcesses |-> CASE p = timed -> 2 [] p = blocking -> -1 [] OTHER -> 0]
=============================================================================

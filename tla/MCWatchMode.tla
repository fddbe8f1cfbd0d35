----------------------------- MODULE MCWatchMode -----------------------------
(* Constants for model-checking WatchMode. *)
EXTENDS WatchMode

\* The entry imports every other file.
MCImports == [f \in Files |-> IF f = Entry THEN Files \ {Entry} ELSE {}]
=============================================================================

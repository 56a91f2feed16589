--------------------------- MODULE MCConsoleProxy ---------------------------
(* ConsoleProxy with two threads.                                              *)
EXTENDS ConsoleProxy, TLC

\* the list of clocks; calls while the token file is written; streams
Each == {{"devices"}, {"calls"}, {"calls", "events"}}

Interchangeable == Permutations(Handlers)
=============================================================================

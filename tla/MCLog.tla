------------------------------- MODULE MCLog -------------------------------
(* Small instances of Log for TLC.                                         *)
EXTENDS Log

\* Uninitialized memory: a frame nobody saves.
MCJunk == {[level |-> 6, stream |-> NULL, autonewl |-> 1, enabled |-> 0]}
=============================================================================

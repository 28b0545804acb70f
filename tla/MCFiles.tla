-------------------------------- MODULE MCFiles --------------------------------
(***************************************************************************)
(* Instances of Files for TLC: the calls that the processes make.          *)
(***************************************************************************)
EXTENDS Files

\* The parent opens files and reads the pipe; the child uses it, opens files
\* of its own, and closes what it has.
MCCalls == <<{"open", "pipe", "fork", "read", "exit"}, {"open", "dup", "close", "read", "write"}>>
\* For threads of one process that share its descriptors.
MCOpens == <<{"open"}>>
MCCloses == <<{"open", "dup", "close"}>>
MCUsers == <<{"open", "read", "close"}>>
MCReaders == <<{"pipe", "read", "close"}>>

MCModes == {<<TRUE, FALSE>>}
===============================================================================

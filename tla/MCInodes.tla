-------------------------------- MODULE MCInodes --------------------------------
(***************************************************************************)
(* Instances of Inodes for TLC.                                            *)
(***************************************************************************)
EXTENDS Inodes, TLC

CONSTANTS t1, t2, a, b

MCNames == {a, b}
\* Both threads remove a name that one of them makes and opens and the other one
\* links, into a directory and back, and that one makes and removes the directory.
MCCalls ==
    t1 :> [create |-> {<<b>>}, open |-> {<<b>>}, close |-> {}, unlink |-> {<<b>>}]
    @@ t2 :> [mkdir |-> {<<a>>}, unlink |-> {<<a>>, <<b>>, <<a, b>>}, link |-> {<<b>>, <<a, b>>}]

\* A larger instance: one thread opens names in the root, and the other one makes,
\* links and removes them, as files and as directories.
Under(calls, paths) == [call \in calls |-> paths]
MCOpens ==
    t1 :> Under({"create", "open", "close"}, {<<a>>, <<b>>})
    @@ t2 :> Under({"mkdir", "unlink", "link"}, {<<a>>, <<b>>, <<a, b>>})
\* Files are made in a directory that may be removed.
MCInDirectory ==
    t1 :> Under({"create", "open", "close"}, {<<a, b>>})
    @@ t2 :> Under({"mkdir", "unlink", "link"}, {<<a>>})
===============================================================================

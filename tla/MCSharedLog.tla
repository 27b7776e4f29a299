----------------------------- MODULE MCSharedLog -----------------------------
(* Instances of SharedLog for model checking. *)
EXTENDS SharedLog

CONSTANTS user, md, monitor, i1, i2, i3

\* A regular user and the miner distributor append, the monitor reads.
MCWriters == {user, md}
MCReaders == {monitor}

\* The list, its temporary file, and the old version the reader has open.
MCInodes == {i1, i2, i3}

=============================================================================

---------------------------- MODULE MCInstanceLock ----------------------------
(* Three instances started on one host, with or without --daemonize.        *)
EXTENDS InstanceLock, TLC

CONSTANTS p1, p2, p3

MCProcs == {p1, p2, p3}
MCBothModes == {FALSE, TRUE}
MCForeground == {FALSE}

=============================================================================

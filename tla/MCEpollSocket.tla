---------------------------- MODULE MCEpollSocket ----------------------------
(* Instances of EpollSocket for TLC.                                       *)
EXTENDS EpollSocket, TLC

NoLimit == -1

\* The workers differ in nothing.
WorkerSymmetry == Permutations(Worker)

=============================================================================

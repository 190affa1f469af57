----------------------------- MODULE MCFileAgent -----------------------------
(* Instances of FileAgent for TLC.                                         *)
EXTENDS FileAgent

\* What FileAgent's constructor sets: start_watch never returns.
NoLimit == -1

=============================================================================

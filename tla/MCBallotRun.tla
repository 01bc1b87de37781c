------------------------------ MODULE MCBallotRun ------------------------------
(* Instances of BallotRun for TLC.                                          *)
EXTENDS BallotRun

\* A plain run, a time-bounded sweep step, a security run that pauses at the close,
\* and a run with a peer fault armed.  A fault run carries no attack plan.
MCConfigs ==
    {[bounded |-> b, pauseAtClose |-> p, peerFault |-> f] :
        b \in BOOLEAN, p \in BOOLEAN, f \in BOOLEAN}
    \ {[bounded |-> b, pauseAtClose |-> TRUE, peerFault |-> TRUE] : b \in BOOLEAN}
=============================================================================

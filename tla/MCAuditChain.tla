---------------------------- MODULE MCAuditChain ----------------------------
EXTENDS AuditChain, TLC

\* Two archived events; at time 0 the second one is still in the future, so
\* they are re-stamped, at time 1 they keep their times.
MCArchives == { <<[id |-> 11, ts |-> 0], [id |-> 12, ts |-> 1]>> }

AppenderSymmetry == Permutations(Appenders)

=============================================================================

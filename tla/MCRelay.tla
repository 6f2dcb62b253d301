------------------------------ MODULE MCRelay ------------------------------
EXTENDS Relay

\* Every run of a snapshot makes an archive of its own; two runs of one
\* evidence may agree, or not.
ArchivesNamed ==
    \A r \in DOMAIN runs : IF evidence THEN runs[r].archive <= 2 /\ runs[1].archive = 1 ELSE runs[r].archive = r

\* The upload in one request is followed for evidence, of which two runs may
\* share a task.
WholeUploads == multipart \/ evidence
=============================================================================

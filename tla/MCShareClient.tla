--------------------------- MODULE MCShareClient ---------------------------
\* Values for the constants of ShareClient.
EXTENDS ShareClient

\* Two commands of two processes at the same time; and one command that uploads both
\* payloads, the report of which may draw an id for each try.
MCEnvironments ==
  {[procs |-> Procs, ids |-> 2, commands |-> 2, events |-> 1],
   [procs |-> {CHOOSE p \in Procs : TRUE}, ids |-> 3, commands |-> 1, events |-> 1]}

=============================================================================

---------------------------- MODULE MCBuildWatch ----------------------------
\* BuildWatch on small instances; all its constants are numbers.
EXTENDS BuildWatch
=============================================================================

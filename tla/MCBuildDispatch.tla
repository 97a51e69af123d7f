-------------------------- MODULE MCBuildDispatch --------------------------
\* BuildDispatch on small instances.
EXTENDS BuildDispatch
=============================================================================

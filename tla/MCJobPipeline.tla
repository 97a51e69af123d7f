---------------------------- MODULE MCJobPipeline ----------------------------
\* JobPipeline on small instances.
EXTENDS JobPipeline
=============================================================================

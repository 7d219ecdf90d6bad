---------------------------- MODULE MCDeployment ----------------------------
\* Small instances of the deployment of personal models.
EXTENDS PersonalDeployment
=============================================================================

----------------------------- MODULE MCModules ------------------------------
EXTENDS Modules
=============================================================================

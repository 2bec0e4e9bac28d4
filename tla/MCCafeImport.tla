------------------------------ MODULE MCCafeImport ------------------------------
EXTENDS CafeImport
=============================================================================

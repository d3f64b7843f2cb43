---------------------------- MODULE MCCreateCall ----------------------------
EXTENDS CreateCall
=============================================================================

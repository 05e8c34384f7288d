------------------------------- MODULE MCHub --------------------------------
EXTENDS Hub
=============================================================================

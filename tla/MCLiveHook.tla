----------------------------- MODULE MCLiveHook -----------------------------
EXTENDS LiveHook
=============================================================================

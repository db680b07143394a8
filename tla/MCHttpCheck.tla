----------------------------- MODULE MCHttpCheck -----------------------------
EXTENDS HttpCheck
==============================================================================

----------------------------- MODULE MCPublishing -----------------------------
EXTENDS Publishing

CONSTANTS g1
===============================================================================

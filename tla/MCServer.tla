------------------------------ MODULE MCServer ------------------------------
EXTENDS Server

CONSTANTS a, b
=============================================================================

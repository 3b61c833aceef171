------------------------------ MODULE MCWebClient ------------------------------
\* Two wallet accounts in one browser page.
EXTENDS WebClient, TLC

CONSTANTS a, b
================================================================================

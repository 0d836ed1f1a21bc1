------------------------------- MODULE MCHost -------------------------------
EXTENDS Host
MCLines == <<"output", "input">>
=============================================================================

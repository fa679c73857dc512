---------------------------- MODULE MCConnViews -----------------------------
\* The views of a wrapped connection, for TLC.
EXTENDS ConnViews

OneAddr == {"a"}
=============================================================================

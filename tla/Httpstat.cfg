SPECIFICATION FairSpec
CONSTANT maxRedirects = 2
INVARIANT DurationsMakeSense
PROPERTY Terminates
\* The program ends.
CHECK_DEADLOCK FALSE

---------------------------- MODULE MCFormPage ----------------------------
EXTENDS FormPage

\* www/cft/s/index.php: the first error shows nothing, the second does.
PushPage == [scripts |-> <<FALSE, TRUE>>, remembers |-> FALSE]

\* www/index.cgi: one script, whose error shows nothing.
SearchPage == [scripts |-> <<FALSE>>, remembers |-> TRUE]

BothPages == {PushPage, SearchPage}
=============================================================================

--------------------------------- MODULE MCIo ---------------------------------
EXTENDS Io

CONSTANTS p1, p2, s1, a, nl

OneText == {<<a>>, <<nl, a>>}
Modes == {{"READ"}, {"READ", "WRITE", "CREATE"}, {"WRITE", "CREATE", "TRUNCATE"},
          {"WRITE", "APPEND", "CREATE"}, {"READ", "WRITE", "APPEND", "CREATE"}}
Back == {-1, 0, 1}
===============================================================================

-------------------------------- MODULE MCCommon --------------------------------
EXTENDS Common

\* 'A', 'a' and 'b', with a hash that tells little apart.
Words == {<<2, 3>>, <<1, 3>>}
Lower == [c \in {1, 2, 3} |-> IF c = 1 THEN 2 ELSE c]
Weak(text) == IF text = <<>> THEN 0 ELSE Last(text) % 2

\* Reals around the whole numbers of the model and the ends of both wide ranges, and
\* two objects with one text.
Around == (-9 .. 17) \cup {-66, -64, 62, 64, 126, 128}
Boxed == {[at |-> 1, text |-> <<2>>], [at |-> 2, text |-> <<2>>], [at |-> 3, text |-> <<3>>]}
===============================================================================

--------------------------- MODULE MCStreamBuffer ---------------------------
(* Small instances of StreamBuffer. *)
EXTENDS StreamBuffer

CONSTANTS x, y

MCBytes  == {x, y}
MCFrames == {<<x>>, <<x, y>>}
\* A finite wait takes every branch of the writer's loop; the reader's wait ends
\* the same way however it ends.
MCWaits  == [writer |-> {"none", "finite"}, reader |-> {"none", "forever"}]
=============================================================================

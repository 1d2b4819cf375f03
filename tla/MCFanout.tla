------------------------------ MODULE MCFanout ------------------------------
(* A small instance of Fanout: the constant that a .cfg cannot write.      *)
EXTENDS Fanout

CONSTANT t1

\* Frames of one page that overlap.
Both == [f \in Frames |-> t1]

=============================================================================

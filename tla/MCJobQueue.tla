----------------------------- MODULE MCJobQueue -----------------------------
(* Instances of JobQueue for TLC. *)
EXTENDS JobQueue

Paid    == [prio |-> 50, source |-> "text"]
Free    == [prio |-> 0,  source |-> "text"]
Content == [prio |-> 0,  source |-> "content"]

MixedKinds   == {Paid, Free, Content}
ContentKinds == {Content}
=============================================================================

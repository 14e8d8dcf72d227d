--------------------------- MODULE MCSessionStart ---------------------------
(* SessionStart with a gps.conf that names both hosts, and one that names one. *)
EXTENDS SessionStart

SomeConfs ==
  {[h \in {"suplHost", "c2kHost"} |-> "file1"], [h \in {"c2kHost"} |-> "file2"]}
=============================================================================

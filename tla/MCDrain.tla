---- MODULE MCDrain ----
EXTENDS Drain
====

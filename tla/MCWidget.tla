---- MODULE MCWidget ----
EXTENDS Widget
====

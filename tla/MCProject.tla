---- MODULE MCProject ----
(* One device in the GUI thread and one with a thread of its own, one form,
   two experiments; the program is started with the first. *)
EXTENDS Project

CONSTANTS d1, d2, form, x, y

Experiments == (x :> {form, d1, d2}) @@ (y :> {form, d2})
Arguments == <<x>>
====

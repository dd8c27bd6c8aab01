---------------------------- MODULE MCValueHandles ----------------------------
(* A handle of each kind, and a callback handle that can copy the other.   *)
EXTENDS ValueHandles

CONSTANTS assert, call1, call2, track, weak, it1, it2

MCKindOf ==
  [h \in Handle |-> CASE h = assert -> "Assert" [] h \in {call1, call2} -> "Callback"
                      [] h = track -> "Tracking" [] OTHER -> "Weak"]
MCIterator == <<it1, it2>>
==============================================================================

----------------------------- MODULE AtomicRead -----------------------------
(***************************************************************************)
(* What a read promises its caller, with neither channel nor goroutine:    *)
(* the server lists entities, and the caller gets one answer, which is an  *)
(* error or the complete list as the server ordered it.  The list of a     *)
(* single read has exactly one entity.  A list is named by the positions   *)
(* of its entities in the server's.                                        *)
(***************************************************************************)
EXTENDS Naturals, Sequences

VARIABLES
  single,    \* the caller asked for one entity, not for all
  entities,  \* what the server has listed so far
  complete,  \* the server's list is at its end
  answer,    \* "none", or the outcome the caller was given
  value      \* the list the caller was given, empty with an error

vars == <<single, entities, complete, answer, value>>

Init ==
  /\ single \in BOOLEAN
  /\ entities = <<>> /\ complete = FALSE /\ answer = "none" /\ value = <<>>

\* The server lists more entities.
List ==
  /\ answer = "none" /\ ~complete
  /\ Len(entities') >= Len(entities)
  /\ \A i \in 1 .. Len(entities) : entities'[i] = entities[i]
  /\ UNCHANGED <<single, complete, answer, value>>

End ==
  /\ answer = "none" /\ ~complete /\ complete' = TRUE
  /\ UNCHANGED <<single, entities, answer, value>>

\* The RPC fails, or there is nothing of that name to read.
Fail ==
  /\ answer = "none" /\ ~complete /\ answer' \in {"rpcError", "notFound"}
  /\ UNCHANGED <<single, entities, complete, value>>

Reject ==
  /\ answer = "none" /\ complete /\ answer' = "badEntity"
  /\ \E i \in 1 .. Len(entities) : entities[i] = "bad"
  /\ UNCHANGED <<single, entities, complete, value>>

\* A single read is not answered by none or by several.
Refuse ==
  /\ answer = "none" /\ complete /\ answer' = "notSingle"
  /\ single /\ Len(entities) # 1
  /\ UNCHANGED <<single, entities, complete, value>>

Return ==
  /\ answer = "none" /\ complete /\ answer' = "ok"
  /\ \A i \in 1 .. Len(entities) : entities[i] = "good"
  /\ single => Len(entities) = 1
  /\ value' = [i \in 1 .. Len(entities) |-> i]
  /\ UNCHANGED <<single, entities, complete>>

Next == List \/ End \/ Fail \/ Reject \/ Refuse \/ Return

Spec == Init /\ [][Next]_vars
=============================================================================

----------------------------- MODULE RunOutside -----------------------------
(***************************************************************************)
(* A call of Client.Run as the rest of its process sees it: when it is up, *)
(* when it returns, and what the goroutine it has started is handing over. *)
(* StreamClient implements it, however many Runs there are; Lifecycle is   *)
(* built on it.                                                            *)
(*                                                                         *)
(* Run returns when it is told to, or with the end of its stream, in the   *)
(* same step as the goroutine; it may also stay behind alone, or leave the *)
(* goroutine behind.                                                       *)
(***************************************************************************)
VARIABLES
  run,       \* "starting" | "up" | "returned"
  receiver,  \* "off" | "recv" | "status" | "message": the receiving goroutine
  stopCh     \* "open" | "closed"

vars == <<run, receiver, stopCh>>

Init == run = "starting" /\ receiver = "off" /\ stopCh = "open"

Opens ==
  /\ run = "starting" /\ run' = "up" /\ receiver' = "recv"
  /\ UNCHANGED stopCh

OpenFails ==
  /\ run = "starting" /\ run' = "returned"
  /\ UNCHANGED <<receiver, stopCh>>

Stop ==
  /\ stopCh = "open" /\ stopCh' = "closed"
  /\ UNCHANGED <<run, receiver>>

\* The goroutine stays where it is.
ReturnsStopped ==
  /\ run = "up" /\ stopCh = "closed" /\ run' = "returned"
  /\ UNCHANGED <<receiver, stopCh>>

Receives ==
  /\ receiver = "recv" /\ receiver' \in {"status", "message"}
  /\ UNCHANGED <<run, stopCh>>

Delivers ==
  /\ receiver \in {"status", "message"} /\ receiver' = "recv"
  /\ UNCHANGED <<run, stopCh>>

\* By an EOF, which Run is not told of, or by an error, with which it returns.
Ends ==
  /\ receiver = "recv" /\ receiver' = "off" /\ run' \in {run, "returned"}
  /\ UNCHANGED stopCh

Next ==
  \/ Opens \/ OpenFails \/ Stop \/ ReturnsStopped \/ Receives \/ Delivers \/ Ends

Spec == Init /\ [][Next]_vars
=============================================================================

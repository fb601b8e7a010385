---------------------------- MODULE LearningTable ----------------------------
(***************************************************************************)
(* What MAC learning promises the hosts: one table, changed by one report  *)
(* after the other in the order the switch made them, and by nothing else. *)
(* There is no second table, no acknowledgement and no goroutine.          *)
(*                                                                         *)
(* A report asks for as many changes as it names hosts.  A host that is in *)
(* the table keeps its port until a report of its idleness is handled,     *)
(* wherever it has moved; one that is not may be reported, and is then     *)
(* learnt unless the table is full.                                        *)
(***************************************************************************)
EXTENDS Naturals, Sequences, FiniteSets

CONSTANTS
  Reports,  \* what the switch may report: digests, lists of idle hosts, other things
  Size      \* how many hosts the table has room for

VARIABLES
  table,    \* table[m]: the port of m, where m is known
  reports,  \* the reports that wait
  current,  \* the report that is being handled
  done      \* how many of its changes have been made

vars == <<table, reports, current, done>>

Learnt == DOMAIN table

\* How many changes a report asks for.
Changes(r) == CASE r.kind = "digest" -> 1
                [] r.kind = "idle"   -> Len(r.macs)
                [] r.kind = "other"  -> 0

Init ==
  /\ table = <<>> /\ reports = <<>>
  /\ current = [kind |-> "other"] /\ done = 0

\* The host is known, or the current report is about it.
Concerned(m) ==
  \/ m \in Learnt
  \/ current.kind = "digest" /\ current.digest[1] = m
  \/ current.kind = "idle" /\ \E i \in 1 .. Len(current.macs) : current.macs[i] = m

\* Digests are of hosts that are not known, idle hosts have been.
Report(r) ==
  /\ r.kind = "digest" => r.digest[1] \notin Learnt
  /\ r.kind = "idle" => \A i \in 1 .. Len(r.macs) : Concerned(r.macs[i])
  /\ reports' = Append(reports, r)
  /\ UNCHANGED <<table, current, done>>

Begin ==
  /\ done = Changes(current) /\ reports # <<>>
  /\ current' = Head(reports) /\ reports' = Tail(reports) /\ done' = 0
  /\ UNCHANGED table

Learn ==
  LET m == current.digest[1] IN
  /\ current.kind = "digest" /\ done = 0 /\ done' = 1
  /\ table' = IF m \in Learnt \/ Cardinality(Learnt) >= Size THEN table
              ELSE [a \in Learnt \cup {m} |-> IF a = m THEN current.digest[2] ELSE table[a]]
  /\ UNCHANGED <<reports, current>>

Forget ==
  /\ current.kind = "idle" /\ done < Len(current.macs) /\ done' = done + 1
  /\ table' = [a \in Learnt \ {current.macs[done + 1]} |-> table[a]]
  /\ UNCHANGED <<reports, current>>

Next == (\E r \in Reports : Report(r)) \/ Begin \/ Learn \/ Forget

Spec == Init /\ [][Next]_vars
=============================================================================

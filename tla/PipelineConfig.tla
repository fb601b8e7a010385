---------------------------- MODULE PipelineConfig ----------------------------
(***************************************************************************)
(* The forwarding pipeline of the switch and the copy of its P4Info that a *)
(* Client keeps in c.p4Info (pkg/client/fwd_pipe.go, p4info.go): setting,  *)
(* saving, verifying, committing and getting a pipeline, and building a    *)
(* table entry from the ids it gives to names, by goroutines that share    *)
(* one Client without a lock.                                              *)
(*                                                                         *)
(* The switch is external: it runs one pipeline and may hold another one,  *)
(* saved for a later COMMIT; a new pipeline starts with empty tables.  Any *)
(* request may be refused, and any answer be lost.                         *)
(***************************************************************************)
EXTENDS Naturals, FiniteSets

CONSTANTS
  Callers,    \* the goroutines
  Configs,    \* pipelines, each with its P4Info
  NoConfig,   \* no pipeline: a nil P4Info
  Names,      \* names of tables; each table has one match field
  Ids,        \* Ids[config][name] = <<id of the table, id of its match field>>
  MaxEntries  \* bound on the entries in the tables

ASSUME ConfigAssumption == NoConfig \notin Configs /\ Names # {}
ASSUME IdsAssumption ==
  /\ Ids \in [Configs -> [Names -> Nat \X Nat]]
  /\ \A config \in Configs : \A m, n \in Names :
       Ids[config][m][1] = Ids[config][n][1] /\ Ids[config][m][1] # 0 => m = n

SetOps == {"verify", "save", "set"}   \* VERIFY, VERIFY_AND_SAVE, VERIFY_AND_COMMIT
Ops    == SetOps \cup {"commit", "get", "cookie", "write"}

VARIABLES
  p4Info,   \* c.p4Info
  running,  \* the pipeline the switch runs
  saved,    \* the one it has saved
  entries,  \* the entries of its tables
  at,       \* at[c]: the statement c is at
  op,       \* op[c]: what its request is for
  config,   \* config[c]: the pipeline it sets, or has got
  entry,    \* entry[c]: the name it builds an entry for, and the ids it looked up
  alone,    \* alone[c]: see below
  due       \* see below

switchVars == <<running, saved, entries>>
callVars   == <<at, op, config, entry>>
history    == <<alone, due>>
vars       == <<p4Info, switchVars, callVars, history>>

Statement == {"idle", "sent", "done", "failed",
              "checkTable", "readTable", "checkField", "readField"}

NoEntry == <<CHOOSE n \in Names : TRUE, 0, 0>>

Init ==
  /\ p4Info = NoConfig /\ running \in Configs \cup {NoConfig} /\ saved = NoConfig
  /\ entries = {}
  /\ at = [c \in Callers |-> "idle"] /\ op = [c \in Callers |-> "get"]
  /\ config = [c \in Callers |-> NoConfig]
  /\ entry = [c \in Callers |-> NoEntry]
  /\ alone = [c \in Callers |-> FALSE]
  /\ due = "unknown"

-----------------------------------------------------------------------------
(* What a caller can conclude, for the properties: due is what p4Info is    *)
(* the P4Info of, by the results of the calls so far.  Only a call during   *)
(* which no other pipeline call was under way, and a write during which     *)
(* none was and which began when due was known, is alone.                   *)

InPipelineCall(c) == at[c] \in {"sent", "done", "failed"} /\ op[c] # "write"

Conclusion(c, ok) ==
  IF ~alone[c] THEN "unknown" ELSE
    CASE op[c] = "set"    -> IF ok THEN "running" ELSE "unknown"
      [] op[c] = "save"   -> IF ok THEN "saved" ELSE IF due = "saved" THEN "unknown" ELSE due
      [] op[c] = "verify" -> IF ok THEN "unknown" ELSE due
      [] op[c] = "commit" -> IF ok /\ due = "saved" THEN "running" ELSE "unknown"
      [] op[c] = "get"    -> IF ok /\ config[c] # NoConfig THEN "running" ELSE due
      [] OTHER            -> due

-----------------------------------------------------------------------------
(* Pipeline calls                                                           *)

\* Mutant of Start: the P4Info is kept before the switch has answered.
StartCaches(c, o, new) ==
  /\ at[c] = "idle"
  /\ at' = [at EXCEPT ![c] = "sent"] /\ op' = [op EXCEPT ![c] = o]
  /\ config' = [config EXCEPT ![c] = new]
  /\ alone' = [d \in Callers |-> d = c /\ \A e \in Callers : ~InPipelineCall(e)]
  /\ p4Info' = IF o \in SetOps THEN new ELSE p4Info
  /\ UNCHANGED <<switchVars, entry, due>>

\* SetFwdPipeFromBytesWithAction, CommitFwdPipe or GetFwdPipe sends its request.  A
\* P4Info that cannot be decoded ends the first one before, and changes nothing.
Start(c, o, new) ==
  /\ at[c] = "idle"
  /\ at' = [at EXCEPT ![c] = "sent"] /\ op' = [op EXCEPT ![c] = o]
  /\ config' = [config EXCEPT ![c] = new]
  /\ alone' = [d \in Callers |-> d = c /\ \A e \in Callers : ~InPipelineCall(e)]
  /\ UNCHANGED <<p4Info, switchVars, entry, due>>

StartSet(c)   == \E o \in SetOps : \E new \in Configs : Start(c, o, new)
StartOther(c) == \E o \in {"commit", "get", "cookie"} : Start(c, o, NoConfig)

Answers(c) == at' = [at EXCEPT ![c] = "done"] /\ UNCHANGED <<p4Info, op, entry, history>>
Runs(new) == running' = new /\ entries' = {}

\* The switch does what is asked for.
Serve(c) ==
  /\ at[c] = "sent" /\ op[c] # "write" /\ Answers(c)
  /\ \/ op[c] = "verify" /\ UNCHANGED <<switchVars, config>>
     \/ op[c] = "save" /\ saved' = config[c] /\ UNCHANGED <<running, entries, config>>
     \/ op[c] = "set" /\ Runs(config[c]) /\ saved' \in {saved, NoConfig} /\ UNCHANGED config
     \/ /\ op[c] = "commit" /\ saved # NoConfig
        /\ Runs(saved) /\ saved' = NoConfig /\ UNCHANGED config
     \/ /\ op[c] \in {"get", "cookie"}
        /\ config' = [config EXCEPT ![c] = running] /\ UNCHANGED switchVars

\* It refuses, the request does not reach it, or its answer is lost.
Fail(c) ==
  /\ at[c] \in {"sent", "done"} /\ op[c] # "write"
  /\ at' = [at EXCEPT ![c] = "failed"]
  /\ UNCHANGED <<p4Info, switchVars, op, config, entry, history>>

Returns(c, ok) ==
  /\ at' = [at EXCEPT ![c] = "idle"] /\ due' = Conclusion(c, ok)
  /\ op' = [op EXCEPT ![c] = "get"] /\ config' = [config EXCEPT ![c] = NoConfig]
  /\ alone' = [alone EXCEPT ![c] = FALSE]
  /\ UNCHANGED <<switchVars, entry>>

\* err == nil: the P4Info that was sent is kept, whatever the action was.
ReturnSet(c) ==
  at[c] = "done" /\ op[c] \in SetOps /\ p4Info' = config[c] /\ Returns(c, TRUE)

\* CommitFwdPipe keeps nothing.
ReturnCommit(c) ==
  at[c] = "done" /\ op[c] = "commit" /\ p4Info' = p4Info /\ Returns(c, TRUE)

\* Mutants of ReturnGet: the P4Info is not kept; the P4Info is kept unchecked.
ReturnGetForgets(c) ==
  /\ at[c] = "done" /\ op[c] \in {"get", "cookie"} /\ p4Info' = p4Info
  /\ Returns(c, TRUE)

ReturnGetUnchecked(c) ==
  /\ at[c] = "done" /\ op[c] \in {"get", "cookie"} /\ p4Info' = config[c]
  /\ Returns(c, TRUE)

\* GetFwdPipe keeps the P4Info if the switch runs a pipeline and was asked for it.
ReturnGet(c) ==
  /\ at[c] = "done" /\ op[c] \in {"get", "cookie"}
  /\ p4Info' = IF op[c] = "get" /\ config[c] # NoConfig THEN config[c] ELSE p4Info
  /\ Returns(c, TRUE)

ReturnError(c) ==
  at[c] = "failed" /\ p4Info' = p4Info /\ Returns(c, FALSE)

-----------------------------------------------------------------------------
(* NewTableEntry, and the Write of its entry                                *)

NewTableEntry(c, name) ==
  /\ at[c] = "idle"
  /\ at' = [at EXCEPT ![c] = "checkTable"]
  /\ entry' = [entry EXCEPT ![c] = <<name, 0, 0>>]
  /\ alone' = [alone EXCEPT ![c] = due = "running" /\ \A d \in Callers : ~InPipelineCall(d)]
  /\ UNCHANGED <<p4Info, switchVars, op, config, due>>

\* tableId and matchFieldId look at c.p4Info once to see whether it is nil ...
CheckTable(c) ==
  /\ at[c] = "checkTable"
  /\ at' = [at EXCEPT ![c] = IF p4Info = NoConfig THEN "checkField" ELSE "readTable"]
  /\ UNCHANGED <<p4Info, switchVars, op, config, entry, history>>

\* ... and once more to search it: another goroutine may have replaced it.
ReadTable(c) ==
  /\ at[c] = "readTable" /\ at' = [at EXCEPT ![c] = "checkField"]
  /\ entry' = [entry EXCEPT ![c] = <<@[1], Ids[p4Info][@[1]][1], 0>>]
  /\ UNCHANGED <<p4Info, switchVars, op, config, history>>

Send(c) == op' = [op EXCEPT ![c] = "write"]

CheckField(c) ==
  /\ at[c] = "checkField"
  /\ IF p4Info = NoConfig THEN at' = [at EXCEPT ![c] = "sent"] /\ Send(c)
                          ELSE at' = [at EXCEPT ![c] = "readField"] /\ op' = op
  /\ UNCHANGED <<p4Info, switchVars, config, entry, history>>

ReadField(c) ==
  /\ at[c] = "readField" /\ at' = [at EXCEPT ![c] = "sent"] /\ Send(c)
  /\ entry' = [entry EXCEPT ![c] = <<@[1], @[2], Ids[p4Info][@[1]][2]>>]
  /\ UNCHANGED <<p4Info, switchVars, config, history>>

\* The switch inserts an entry whose ids its pipeline gives to a table and its field.
Write(c) ==
  /\ at[c] = "sent" /\ op[c] = "write"
  /\ at' = [at EXCEPT ![c] = "idle"] /\ op' = [op EXCEPT ![c] = "get"]
  /\ entry' = [entry EXCEPT ![c] = NoEntry] /\ alone' = [alone EXCEPT ![c] = FALSE]
  /\ \/ entries' = entries
     \/ /\ running # NoConfig /\ entry[c][2] # 0 /\ Cardinality(entries) < MaxEntries
        /\ \E n \in Names : Ids[running][n] = <<entry[c][2], entry[c][3]>>
        /\ entries' = entries \cup {<<entry[c], alone[c]>>}
  /\ UNCHANGED <<p4Info, running, saved, config, due>>

\* The switch restarts, or is taken over, and runs another pipeline or none.
Restart ==
  /\ \E new \in Configs \cup {NoConfig} : Runs(new)
  /\ saved' = NoConfig
  /\ alone' = [c \in Callers |-> FALSE] /\ due' = "unknown"
  /\ UNCHANGED <<p4Info, callVars>>

-----------------------------------------------------------------------------
PipelineStep(c) ==
  \/ StartSet(c) \/ StartOther(c) \/ Serve(c) \/ Fail(c)
  \/ ReturnSet(c) \/ ReturnCommit(c) \/ ReturnGet(c) \/ ReturnError(c)

EntryStep(c) ==
  \/ \E name \in Names : NewTableEntry(c, name)
  \/ CheckTable(c) \/ ReadTable(c) \/ CheckField(c) \/ ReadField(c) \/ Write(c)

Next == Restart \/ \E c \in Callers : PipelineStep(c) \/ EntryStep(c)

Spec == Init /\ [][Next]_vars

-----------------------------------------------------------------------------
\* A goroutine between a check of c.p4Info and the search behind it.
Searching(c) == at[c] \in {"readTable", "readField"}

\* Every variable has its type, and no search dereferences nil: c.p4Info may be replaced
\* between the check and the search, but it never becomes nil again.
TypeOK ==
  /\ {p4Info, running, saved} \subseteq Configs \cup {NoConfig}
  /\ entries \subseteq (Names \X Nat \X Nat) \X BOOLEAN
  /\ at \in [Callers -> Statement] /\ op \in [Callers -> Ops]
  /\ config \in [Callers -> Configs \cup {NoConfig}]
  /\ entry \in [Callers -> Names \X Nat \X Nat]
  /\ alone \in [Callers -> BOOLEAN] /\ due \in {"unknown", "running", "saved"}
  /\ \A c \in Callers : Searching(c) => p4Info # NoConfig

\* After a SetFwdPipe or a GetFwdPipe that succeeds the P4Info of the Client is that of
\* the switch, and stays so until a call overlaps with another one, a pipeline is
\* verified or saved, an error leaves open what the switch has done, or the switch
\* restarts.  CommitFwdPipe, which does not touch it, may follow a successful save,
\* but not if the P4Info was got, or set, in between.
P4InfoAsDue ==
  (\A c \in Callers : ~InPipelineCall(c)) =>
    /\ due = "running" => p4Info = running
    /\ due = "saved" => p4Info = saved

\* An entry that was built and written alone, from a P4Info due to be that of the
\* switch, is in the table it was built for.
EntryWhereMeant ==
  \A e \in entries : e[2] => Ids[running][e[1][1]] = <<e[1][2], e[1][3]>>
=============================================================================

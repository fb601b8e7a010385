------------------------ MODULE PipelineConfigProofs ------------------------
(***************************************************************************)
(* Proofs about PipelineConfig, for any goroutines, pipelines and names.   *)
(***************************************************************************)
EXTENDS PipelineConfig, TLAPS

-----------------------------------------------------------------------------
(* The inductive invariant                                                  *)

\* A call that sets a pipeline has one; only pipeline calls wait for an answer.
Calls == \A c \in Callers :
  /\ at[c] \in {"sent", "done", "failed"} /\ op[c] \in SetOps => config[c] \in Configs
  /\ at[c] \in {"done", "failed"} => op[c] # "write"

\* Whoever is alone sees no other goroutine in a pipeline call.
Apart == \A c, d \in Callers : alone[c] /\ InPipelineCall(d) => c = d

\* Who builds an entry alone began when p4Info was due to be the switch's; it still is.
Builders == \A c \in Callers : alone[c] /\ ~InPipelineCall(c) => due = "running"

RunningDue == due = "running" => p4Info = running
SavedDue   == due = "saved" => p4Info = saved

\* Between the answer of the switch and the return of a call that is alone, what is due
\* may be out of date, and what the call has in hand makes up for it.
Answered(c) ==
  CASE op[c] = "set"    -> at[c] = "done" => running = config[c]
    [] op[c] = "save"   -> RunningDue /\ (at[c] = "done" => saved = config[c])
    [] op[c] = "commit" -> at[c] = "done" => (due = "saved" => p4Info = running)
    [] op[c] = "get"    -> RunningDue /\ SavedDue /\ (at[c] = "done" => config[c] = running)
    [] OTHER            -> RunningDue /\ SavedDue

InCall == \A c \in Callers : alone[c] /\ InPipelineCall(c) =>
  IF at[c] = "sent" THEN RunningDue /\ SavedDue ELSE Answered(c)

\* The ids looked up so far by who is alone are those of the pipeline that runs.
LookedUp == \A c \in Callers :
  alone[c] /\ ~InPipelineCall(c) /\ running # NoConfig =>
    /\ at[c] \in {"checkField", "readField", "sent"} =>
         entry[c][2] = Ids[running][entry[c][1]][1]
    /\ at[c] = "sent" => entry[c][3] = Ids[running][entry[c][1]][2]

\* Tables belong to a pipeline.
Tables == entries # {} => running # NoConfig

IInv == /\ TypeOK /\ Calls /\ Apart /\ Builders /\ P4InfoAsDue /\ InCall
        /\ LookedUp /\ Tables /\ EntryWhereMeant

-----------------------------------------------------------------------------
(* One lemma per kind of step                                               *)

\* A goroutine sends the request of a pipeline call: nobody else is alone any more.
LEMMA StartStep ==
  ASSUME IInv, NEW c \in Callers, NEW o \in Ops \ {"write"},
         NEW p \in Configs \cup {NoConfig}, o \in SetOps => p \in Configs, Start(c, o, p)
  PROVE  IInv'
<1> USE DEF IInv, Start, switchVars
<1>1. /\ at' = [at EXCEPT ![c] = "sent"] /\ op' = [op EXCEPT ![c] = o]
      /\ config' = [config EXCEPT ![c] = p] /\ at[c] = "idle"
      /\ at \in [Callers -> Statement] /\ op \in [Callers -> Ops]
      /\ config \in [Callers -> Configs \cup {NoConfig}] /\ alone \in [Callers -> BOOLEAN]
  BY DEF TypeOK
<1>2. \A d \in Callers : alone'[d] => d = c /\ \A e \in Callers : ~InPipelineCall(e)
  OBVIOUS
<1>3. InPipelineCall(c)' /\ o # "write"
  BY <1>1 DEF InPipelineCall
<1>4. \A d \in Callers \ {c} : InPipelineCall(d)' = InPipelineCall(d)
  BY <1>1 DEF InPipelineCall
<1>5. TypeOK'
  <2>1. at' \in [Callers -> Statement] /\ op' \in [Callers -> Ops]
        /\ config' \in [Callers -> Configs \cup {NoConfig}]
    BY <1>1 DEF Statement
  <2>2. alone' \in [Callers -> BOOLEAN]
    OBVIOUS
  <2> QED BY <1>1, <2>1, <2>2 DEF TypeOK, Searching
<1>6. Calls'
  BY <1>1, <1>3 DEF Calls
<1>7. Apart'
  BY <1>2, <1>4 DEF Apart
<1>8. Builders'
  BY <1>2, <1>3 DEF Builders
<1>9. P4InfoAsDue'
  BY <1>3 DEF P4InfoAsDue
<1>10. InCall'
  BY <1>1, <1>2 DEF InCall, P4InfoAsDue, RunningDue, SavedDue
<1>11. LookedUp'
  BY <1>2, <1>3 DEF LookedUp
<1>12. Tables' /\ EntryWhereMeant'
  BY DEF Tables, EntryWhereMeant
<1> QED BY <1>5, <1>6, <1>7, <1>8, <1>9, <1>10, <1>11, <1>12

\* The switch answers: while a call that is alone waits, nobody else relies on due.
LEMMA ServeStep ==
  ASSUME IInv, NEW c \in Callers, Serve(c)
  PROVE  IInv'
<1> USE DEF IInv, Serve, Answers, Runs, switchVars, history
<1>1. /\ at' = [at EXCEPT ![c] = "done"] /\ at[c] = "sent" /\ op[c] # "write"
      /\ at \in [Callers -> Statement] /\ op \in [Callers -> Ops]
      /\ config \in [Callers -> Configs \cup {NoConfig}]
      /\ config' \in [Callers -> Configs \cup {NoConfig}]
      /\ \A d \in Callers \ {c} : config'[d] = config[d]
      /\ op[c] \notin {"get", "cookie"} => config'[c] = config[c]
      /\ UNCHANGED <<p4Info, op, entry, alone, due>>
  BY DEF TypeOK
<1>2. /\ \A d \in Callers : InPipelineCall(d)' = InPipelineCall(d)
      /\ InPipelineCall(c) /\ InPipelineCall(c)'
  BY <1>1 DEF InPipelineCall
<1>3. TypeOK'
  <2>1. at' \in [Callers -> Statement]
    BY <1>1 DEF Statement
  <2>2. {running', saved'} \subseteq Configs \cup {NoConfig}
    BY DEF TypeOK
  <2>3. entries' \subseteq (Names \X Nat \X Nat) \X BOOLEAN
    BY DEF TypeOK
  <2> QED BY <1>1, <2>1, <2>2, <2>3 DEF TypeOK, Searching
<1>4. Calls'
  BY <1>1 DEF Calls, SetOps
<1>5. Apart'
  BY <1>1, <1>2 DEF Apart
<1>6. Builders'
  BY <1>1, <1>2 DEF Builders
<1>7. P4InfoAsDue'
  BY <1>2 DEF P4InfoAsDue
<1>8. InCall'
  <2> SUFFICES ASSUME NEW d \in Callers, alone'[d], InPipelineCall(d)'
               PROVE  IF at'[d] = "sent" THEN RunningDue' /\ SavedDue' ELSE Answered(d)'
    BY DEF InCall
  <2>1. d = c /\ at'[c] = "done" /\ RunningDue /\ SavedDue
    BY <1>1, <1>2 DEF Apart, InCall
  <2>2. Answered(c)'
    BY <1>1, <2>1 DEF Answered, RunningDue, SavedDue
  <2> QED BY <2>1, <2>2
<1>9. LookedUp'
  BY <1>1, <1>2 DEF LookedUp, Apart
<1>10. Tables'
  BY DEF Tables
<1>11. EntryWhereMeant'
  BY DEF EntryWhereMeant
<1> QED BY <1>3, <1>4, <1>5, <1>6, <1>7, <1>8, <1>9, <1>10, <1>11

\* An error: what the switch has done is open.
LEMMA FailStep ==
  ASSUME IInv, NEW c \in Callers, Fail(c)
  PROVE  IInv'
<1> USE DEF IInv, Fail, switchVars, history
<1>1. /\ at' = [at EXCEPT ![c] = "failed"] /\ at[c] \in {"sent", "done"}
      /\ op[c] # "write" /\ at \in [Callers -> Statement]
  BY DEF TypeOK
<1>2. /\ \A d \in Callers : InPipelineCall(d)' = InPipelineCall(d)
      /\ InPipelineCall(c) /\ InPipelineCall(c)'
  BY <1>1 DEF InPipelineCall
<1>3. TypeOK'
  BY <1>1 DEF TypeOK, Statement, Searching
<1>4. Calls'
  BY <1>1 DEF Calls
<1>5. Apart' /\ Builders' /\ P4InfoAsDue' /\ Tables' /\ EntryWhereMeant'
  BY <1>2 DEF Apart, Builders, P4InfoAsDue, Tables, EntryWhereMeant
<1>6. InCall'
  BY <1>1, <1>2 DEF InCall, Answered, Apart, RunningDue, SavedDue
<1>7. LookedUp'
  BY <1>1, <1>2 DEF LookedUp
<1> QED BY <1>3, <1>4, <1>5, <1>6, <1>7

\* A call returns: what is due by its result is what p4Info is the P4Info of.
LEMMA ReturnStep ==
  ASSUME IInv, NEW c \in Callers,
         ReturnSet(c) \/ ReturnCommit(c) \/ ReturnGet(c) \/ ReturnError(c)
  PROVE  IInv'
<1> USE DEF IInv
<1>1. PICK ok \in BOOLEAN : /\ Returns(c, ok) /\ at[c] = IF ok THEN "done" ELSE "failed"
                            /\ ~ok => p4Info' = p4Info
  BY DEF ReturnSet, ReturnCommit, ReturnGet, ReturnError
<1>2. /\ at' = [at EXCEPT ![c] = "idle"] /\ op' = [op EXCEPT ![c] = "get"]
      /\ config' = [config EXCEPT ![c] = NoConfig] /\ alone' = [alone EXCEPT ![c] = FALSE]
      /\ due' = Conclusion(c, ok) /\ UNCHANGED <<running, saved, entries, entry>>
      /\ at \in [Callers -> Statement] /\ op \in [Callers -> Ops]
      /\ config \in [Callers -> Configs \cup {NoConfig}] /\ alone \in [Callers -> BOOLEAN]
      /\ op[c] # "write"
  BY <1>1 DEF Returns, switchVars, TypeOK, Calls
<1>3. /\ \A d \in Callers \ {c} : InPipelineCall(d)' = InPipelineCall(d)
      /\ InPipelineCall(c) /\ ~InPipelineCall(c)'
  BY <1>1, <1>2 DEF InPipelineCall
<1>4. \A d \in Callers : ~(alone'[d] /\ alone[d])
  BY <1>2, <1>3 DEF Apart
<1>5. \A d \in Callers : ~alone'[d]
  BY <1>2, <1>4
<1>6. p4Info' \in Configs \cup {NoConfig} /\ (p4Info # NoConfig => p4Info' # NoConfig)
  <2>1. CASE ReturnSet(c)
    <3>1. p4Info' = config[c] /\ at[c] = "done" /\ op[c] \in SetOps
      BY <2>1 DEF ReturnSet
    <3>2. config[c] \in Configs
      BY <3>1 DEF Calls
    <3> QED BY <3>1, <3>2, ConfigAssumption
  <2>2. CASE ReturnCommit(c) \/ ReturnError(c)
    BY <2>2 DEF ReturnCommit, ReturnError, TypeOK
  <2>3. CASE ReturnGet(c)
    BY <2>3 DEF ReturnGet, TypeOK
  <2> QED BY <2>1, <2>2, <2>3
<1>7. TypeOK'
  <2>1. due' \in {"unknown", "running", "saved"}
    BY <1>2 DEF Conclusion, TypeOK
  <2>2. at' \in [Callers -> Statement] /\ op' \in [Callers -> Ops]
        /\ config' \in [Callers -> Configs \cup {NoConfig}] /\ alone' \in [Callers -> BOOLEAN]
    BY <1>2 DEF Statement, Ops
  <2>3. \A d \in Callers : Searching(d)' => p4Info' # NoConfig
    BY <1>2, <1>6 DEF TypeOK, Searching
  <2> QED BY <1>2, <1>6, <2>1, <2>2, <2>3 DEF TypeOK
<1>8. Calls'
  BY <1>2 DEF Calls
<1>9. Apart' /\ Builders' /\ InCall' /\ LookedUp'
  BY <1>5 DEF Apart, Builders, InCall, LookedUp
<1>10. P4InfoAsDue'
  <2> SUFFICES RunningDue' /\ SavedDue'
    BY DEF P4InfoAsDue, RunningDue, SavedDue
  <2>1. CASE ~alone[c]
    BY <1>2, <2>1 DEF Conclusion, RunningDue, SavedDue
  <2>2. CASE alone[c]
    <3>1. Answered(c)
      BY <1>1, <1>3, <2>2 DEF InCall
    <3>2. CASE ReturnError(c)
      BY <1>1, <1>2, <2>2, <3>1, <3>2
         DEF ReturnError, Conclusion, Answered, RunningDue, SavedDue
    <3>3. CASE ReturnSet(c)
      BY <1>1, <1>2, <2>2, <3>1, <3>3
         DEF ReturnSet, SetOps, Conclusion, Answered, RunningDue, SavedDue
    <3>4. CASE ReturnCommit(c)
      BY <1>1, <1>2, <2>2, <3>1, <3>4
         DEF ReturnCommit, Conclusion, Answered, RunningDue, SavedDue
    <3>5. CASE ReturnGet(c)
      BY <1>1, <1>2, <2>2, <3>1, <3>5
         DEF ReturnGet, Conclusion, Answered, RunningDue, SavedDue
    <3> QED BY <3>2, <3>3, <3>4, <3>5
  <2> QED BY <2>1, <2>2
<1>11. Tables' /\ EntryWhereMeant'
  BY <1>2 DEF Tables, EntryWhereMeant
<1> QED BY <1>7, <1>8, <1>9, <1>10, <1>11

\* A goroutine begins to build an entry, alone if p4Info is due to be that of the switch.
LEMMA NewTableEntryStep ==
  ASSUME IInv, NEW c \in Callers, NEW name \in Names, NewTableEntry(c, name)
  PROVE  IInv'
<1> USE DEF IInv, NewTableEntry, switchVars
<1>1. /\ at' = [at EXCEPT ![c] = "checkTable"] /\ at[c] = "idle"
      /\ entry' = [entry EXCEPT ![c] = <<name, 0, 0>>]
      /\ at \in [Callers -> Statement] /\ entry \in [Callers -> Names \X Nat \X Nat]
      /\ alone \in [Callers -> BOOLEAN]
      /\ UNCHANGED <<p4Info, running, saved, entries, op, config, due>>
  BY DEF TypeOK
<1>2. \A d \in Callers : InPipelineCall(d)' = InPipelineCall(d)
  BY <1>1 DEF InPipelineCall
<1>3. ~InPipelineCall(c)'
  BY <1>1 DEF InPipelineCall
<1>4. \A d \in Callers \ {c} : alone'[d] = alone[d]
  BY DEF TypeOK
<1>5. alone'[c] => due = "running" /\ \A d \in Callers : ~InPipelineCall(d)
  BY <1>1
<1>6. TypeOK'
  <2>1. at' \in [Callers -> Statement]
    BY <1>1 DEF Statement
  <2>2. <<name, 0, 0>> \in Names \X Nat \X Nat
    OBVIOUS
  <2>3. entry' \in [Callers -> Names \X Nat \X Nat]
    BY <1>1, <2>2
  <2>4. alone' \in [Callers -> BOOLEAN]
    BY <1>1
  <2> QED BY <1>1, <2>1, <2>3, <2>4 DEF TypeOK, Searching
<1>7. Calls'
  BY <1>1 DEF Calls
<1>8. Apart'
  BY <1>2, <1>4, <1>5 DEF Apart
<1>9. Builders'
  BY <1>1, <1>2, <1>4, <1>5 DEF Builders
<1>10. P4InfoAsDue' /\ Tables' /\ EntryWhereMeant'
  BY <1>1, <1>2 DEF P4InfoAsDue, Tables, EntryWhereMeant
<1>11. InCall'
  BY <1>1, <1>2, <1>3, <1>4 DEF InCall, Answered, RunningDue, SavedDue
<1>12. LookedUp'
  BY <1>1, <1>2, <1>4 DEF LookedUp
<1> QED BY <1>6, <1>7, <1>8, <1>9, <1>10, <1>11, <1>12

\* Who builds an entry alone reads the P4Info of the pipeline that runs.
LEMMA BuilderReadsRunning ==
  ASSUME IInv, NEW c \in Callers, alone[c], ~InPipelineCall(c)
  PROVE  p4Info = running
BY DEF IInv, Apart, Builders, P4InfoAsDue

\* The ids of a pipeline are pairs of numbers.
LEMMA IdsArePairs ==
  ASSUME NEW p \in Configs, NEW n \in Names
  PROVE  /\ Ids[p][n] = <<Ids[p][n][1], Ids[p][n][2]>>
         /\ Ids[p][n][1] \in Nat /\ Ids[p][n][2] \in Nat
BY IdsAssumption

\* The shape of a step that looks up ids for the entry of c, and changes nothing else.
LookUp(c) ==
  /\ ~InPipelineCall(c) /\ ~InPipelineCall(c)'
  /\ \A d \in Callers \ {c} : at'[d] = at[d] /\ op'[d] = op[d] /\ entry'[d] = entry[d]
  /\ at' \in [Callers -> Statement] /\ op' \in [Callers -> Ops]
  /\ entry' \in [Callers -> Names \X Nat \X Nat]
  /\ Searching(c)' => p4Info # NoConfig
  /\ at'[c] \notin {"done", "failed"} /\ (at'[c] = "sent" => op'[c] = "write")
  /\ UNCHANGED <<p4Info, running, saved, entries, config, alone, due>>

\* Such a step keeps the invariant if what it looks up is in the pipeline that runs.
LEMMA LookUpStep ==
  ASSUME IInv, NEW c \in Callers, LookUp(c),
         alone[c] /\ running # NoConfig =>
           /\ at'[c] \in {"checkField", "readField", "sent"} =>
                entry'[c][2] = Ids[running][entry'[c][1]][1]
           /\ at'[c] = "sent" => entry'[c][3] = Ids[running][entry'[c][1]][2]
  PROVE  IInv'
<1> USE DEF IInv, LookUp
<1>1. \A d \in Callers : InPipelineCall(d)' = InPipelineCall(d)
  BY DEF InPipelineCall
<1>2. TypeOK'
  BY DEF TypeOK, Searching
<1>3. Calls'
  BY DEF Calls, SetOps
<1>4. Apart' /\ Builders' /\ P4InfoAsDue' /\ Tables' /\ EntryWhereMeant'
  BY <1>1 DEF Apart, Builders, P4InfoAsDue, Tables, EntryWhereMeant
<1>5. InCall'
  BY <1>1 DEF InCall, Answered, RunningDue, SavedDue
<1>6. LookedUp'
  BY <1>1 DEF LookedUp
<1> QED BY <1>2, <1>3, <1>4, <1>5, <1>6

\* The steps of tableId and matchFieldId.
LEMMA LookUpSteps ==
  ASSUME IInv, NEW c \in Callers,
         CheckTable(c) \/ ReadTable(c) \/ CheckField(c) \/ ReadField(c)
  PROVE  IInv'
<1>1. /\ at \in [Callers -> Statement] /\ op \in [Callers -> Ops]
      /\ entry \in [Callers -> Names \X Nat \X Nat]
      /\ p4Info \in Configs \cup {NoConfig}
      /\ Searching(c) => p4Info \in Configs
  BY DEF IInv, TypeOK
<1>2. /\ entry[c] = <<entry[c][1], entry[c][2], entry[c][3]>>
      /\ entry[c][1] \in Names /\ entry[c][2] \in Nat /\ entry[c][3] \in Nat
  BY <1>1
<1>3. at[c] \notin {"sent", "done", "failed"} /\ ~InPipelineCall(c)
  BY DEF CheckTable, ReadTable, CheckField, ReadField, InPipelineCall
<1>4. alone[c] => p4Info = running
  BY <1>3, BuilderReadsRunning
<1>5. alone[c] /\ running # NoConfig /\ at[c] \in {"checkField", "readField"} =>
        entry[c][2] = Ids[running][entry[c][1]][1]
  BY <1>3 DEF IInv, LookedUp
<1>6. CASE CheckTable(c)
  <2>1. LookUp(c)
    BY <1>1, <1>3, <1>6
       DEF CheckTable, LookUp, InPipelineCall, Searching, Statement, switchVars, history
  <2> QED BY <1>1, <1>4, <1>6, <2>1, LookUpStep DEF CheckTable
<1>7. CASE ReadTable(c)
  <2> DEFINE id == Ids[p4Info][entry[c][1]][1]
  <2>1. /\ at[c] = "readTable" /\ at' = [at EXCEPT ![c] = "checkField"]
        /\ entry' = [entry EXCEPT ![c] = <<entry[c][1], id, 0>>]
        /\ UNCHANGED <<p4Info, running, saved, entries, op, config, alone, due>>
    BY <1>7 DEF ReadTable, switchVars, history
  <2>2. p4Info \in Configs
    BY <1>1, <2>1 DEF Searching
  <2>3. id \in Nat
    BY <1>2, <2>2, IdsArePairs
  <2> HIDE DEF id
  <2>4. <<entry[c][1], id, 0>> \in Names \X Nat \X Nat
    BY <1>2, <2>3
  <2>5. entry' \in [Callers -> Names \X Nat \X Nat]
    BY <1>1, <2>1, <2>4
  <2>6. at' \in [Callers -> Statement]
    BY <1>1, <2>1 DEF Statement
  <2>7. LookUp(c)
    BY <1>1, <1>3, <2>1, <2>5, <2>6 DEF LookUp, InPipelineCall, Searching
  <2>8. entry'[c][1] = entry[c][1] /\ entry'[c][2] = id /\ at'[c] = "checkField"
    BY <1>1, <2>1
  <2>9. alone[c] => entry'[c][2] = Ids[running][entry'[c][1]][1]
    BY <1>4, <2>8 DEF id
  <2> QED BY <2>7, <2>8, <2>9, LookUpStep
<1>8. CASE CheckField(c)
  <2>1. at[c] = "checkField" /\ entry' = entry
        /\ UNCHANGED <<p4Info, running, saved, entries, config, alone, due>>
    BY <1>8 DEF CheckField, switchVars, history
  <2>2. at' \in [Callers -> Statement] /\ op' \in [Callers -> Ops]
    BY <1>1, <1>8 DEF CheckField, Send, Statement, Ops
  <2>3. /\ at'[c] = IF p4Info = NoConfig THEN "sent" ELSE "readField"
        /\ at'[c] = "sent" => op'[c] = "write"
        /\ \A d \in Callers \ {c} : at'[d] = at[d] /\ op'[d] = op[d]
    BY <1>1, <1>8 DEF CheckField, Send
  <2>4. LookUp(c)
    BY <1>1, <1>3, <2>1, <2>2, <2>3 DEF LookUp, InPipelineCall, Searching
  <2> QED BY <1>4, <1>5, <2>1, <2>3, <2>4, LookUpStep
<1>9. CASE ReadField(c)
  <2> DEFINE id == Ids[p4Info][entry[c][1]][2]
  <2>1. /\ at[c] = "readField" /\ at' = [at EXCEPT ![c] = "sent"]
        /\ op' = [op EXCEPT ![c] = "write"]
        /\ entry' = [entry EXCEPT ![c] = <<entry[c][1], entry[c][2], id>>]
        /\ UNCHANGED <<p4Info, running, saved, entries, config, alone, due>>
    BY <1>9 DEF ReadField, Send, switchVars, history
  <2>2. p4Info \in Configs
    BY <1>1, <2>1 DEF Searching
  <2>3. id \in Nat
    BY <1>2, <2>2, IdsArePairs
  <2> HIDE DEF id
  <2>4. <<entry[c][1], entry[c][2], id>> \in Names \X Nat \X Nat
    BY <1>2, <2>3
  <2>5. entry' \in [Callers -> Names \X Nat \X Nat]
    BY <1>1, <2>1, <2>4
  <2>6. at' \in [Callers -> Statement] /\ op' \in [Callers -> Ops]
    BY <1>1, <2>1 DEF Statement, Ops
  <2>7. LookUp(c)
    BY <1>1, <1>3, <2>1, <2>5, <2>6 DEF LookUp, InPipelineCall, Searching
  <2>8. /\ entry'[c][1] = entry[c][1] /\ entry'[c][2] = entry[c][2]
        /\ entry'[c][3] = id
    BY <1>1, <2>1
  <2>9. alone[c] => entry'[c][3] = Ids[running][entry'[c][1]][2]
    BY <1>4, <2>8 DEF id
  <2> QED BY <1>5, <2>1, <2>7, <2>8, <2>9, LookUpStep
<1> QED BY <1>6, <1>7, <1>8, <1>9

\* An entry goes into the table it was built for if its writer was alone throughout.
LEMMA WriteStep ==
  ASSUME IInv, NEW c \in Callers, Write(c)
  PROVE  IInv'
<1> USE DEF IInv, Write
<1>1. /\ at' = [at EXCEPT ![c] = "idle"] /\ op' = [op EXCEPT ![c] = "get"]
      /\ entry' = [entry EXCEPT ![c] = NoEntry] /\ alone' = [alone EXCEPT ![c] = FALSE]
      /\ UNCHANGED <<p4Info, running, saved, config, due>>
      /\ at[c] = "sent" /\ op[c] = "write"
      /\ at \in [Callers -> Statement] /\ op \in [Callers -> Ops]
      /\ entry \in [Callers -> Names \X Nat \X Nat] /\ alone \in [Callers -> BOOLEAN]
  BY DEF TypeOK
<1>2. \A d \in Callers : InPipelineCall(d)' = InPipelineCall(d)
  BY <1>1 DEF InPipelineCall
<1>3. ~InPipelineCall(c)
  BY <1>1 DEF InPipelineCall
<1>4. \A d \in Callers : alone'[d] => d # c /\ alone[d]
  BY <1>1
<1>5. TypeOK'
  <2>1. at' \in [Callers -> Statement] /\ op' \in [Callers -> Ops]
        /\ alone' \in [Callers -> BOOLEAN]
    BY <1>1 DEF Statement, Ops
  <2>2. NoEntry \in Names \X Nat \X Nat
    BY ConfigAssumption DEF NoEntry
  <2>3. entry' \in [Callers -> Names \X Nat \X Nat]
    BY <1>1, <2>2
  <2>4. <<entry[c], alone[c]>> \in (Names \X Nat \X Nat) \X BOOLEAN
    BY <1>1
  <2>5. entries' \subseteq entries \cup {<<entry[c], alone[c]>>}
    OBVIOUS
  <2>6. entries' \subseteq (Names \X Nat \X Nat) \X BOOLEAN
    BY <2>4, <2>5 DEF TypeOK
  <2> QED BY <1>1, <2>1, <2>3, <2>6 DEF TypeOK, Searching
<1>6. Calls'
  BY <1>1 DEF Calls
<1>7. Apart' /\ Builders' /\ P4InfoAsDue'
  BY <1>1, <1>2, <1>4 DEF Apart, Builders, P4InfoAsDue
<1>8. InCall'
  BY <1>1, <1>2, <1>4 DEF InCall, Answered, RunningDue, SavedDue
<1>9. LookedUp'
  BY <1>1, <1>2, <1>4 DEF LookedUp
<1>10. Tables'
  BY DEF Tables
<1>11. EntryWhereMeant'
  <2> SUFFICES ASSUME NEW e \in entries', e[2]
               PROVE  Ids[running][e[1][1]] = <<e[1][2], e[1][3]>>
    BY <1>1 DEF EntryWhereMeant
  <2>1. CASE e \in entries
    BY <2>1 DEF EntryWhereMeant
  <2>2. CASE e \notin entries
    <3>1. e = <<entry[c], alone[c]>> /\ running # NoConfig
      BY <2>2
    <3>2. alone[c] /\ e[1] = entry[c]
      BY <3>1
    <3>3. /\ entry[c][2] = Ids[running][entry[c][1]][1]
          /\ entry[c][3] = Ids[running][entry[c][1]][2]
      BY <1>1, <1>3, <3>1, <3>2 DEF LookedUp
    <3>4. running \in Configs /\ entry[c][1] \in Names
      BY <1>1, <3>1 DEF TypeOK
    <3> QED BY <3>2, <3>3, <3>4, IdsArePairs
  <2> QED BY <2>1, <2>2
<1> QED BY <1>5, <1>6, <1>7, <1>8, <1>9, <1>10, <1>11

\* After a restart of the switch nothing is due, and nobody is alone.
LEMMA RestartStep ==
  ASSUME IInv, Restart
  PROVE  IInv'
<1> USE DEF IInv, Restart, Runs, callVars
<1>1. \A d \in Callers : ~alone'[d]
  OBVIOUS
<1>2. alone' \in [Callers -> BOOLEAN] /\ due' = "unknown" /\ entries' = {}
  OBVIOUS
<1>3. TypeOK'
  BY <1>2 DEF TypeOK, Searching
<1>4. Calls'
  BY DEF Calls
<1>5. Apart' /\ Builders' /\ InCall' /\ LookedUp'
  BY <1>1 DEF Apart, Builders, InCall, LookedUp
<1>6. P4InfoAsDue' /\ Tables' /\ EntryWhereMeant'
  BY <1>2 DEF P4InfoAsDue, Tables, EntryWhereMeant
<1> QED BY <1>3, <1>4, <1>5, <1>6

-----------------------------------------------------------------------------
(* The theorems                                                             *)

\* At the start nothing is due, and nobody does anything.
LEMMA InvInit == Init => IInv
<1> SUFFICES ASSUME Init
             PROVE  IInv
  OBVIOUS
<1> USE DEF Init
<1>1. TypeOK
  <2>1. NoEntry \in Names \X Nat \X Nat
    BY ConfigAssumption DEF NoEntry
  <2>2. at \in [Callers -> Statement] /\ op \in [Callers -> Ops]
    BY DEF Statement, Ops
  <2>3. entry \in [Callers -> Names \X Nat \X Nat]
    BY <2>1
  <2> QED BY <2>2, <2>3 DEF TypeOK, Searching
<1>2. Calls
  BY DEF Calls
<1>3. Apart /\ Builders /\ InCall /\ LookedUp
  BY DEF Apart, Builders, InCall, LookedUp
<1>4. P4InfoAsDue /\ Tables /\ EntryWhereMeant
  BY DEF P4InfoAsDue, Tables, EntryWhereMeant
<1> QED BY <1>1, <1>2, <1>3, <1>4 DEF IInv

\* Every step, of any goroutine or of the switch, keeps the invariant.
LEMMA InvStep == IInv /\ [Next]_vars => IInv'
<1> SUFFICES ASSUME IInv, [Next]_vars
             PROVE  IInv'
  OBVIOUS
<1>1. CASE Restart
  BY <1>1, RestartStep
<1>2. ASSUME NEW c \in Callers, PipelineStep(c)
      PROVE  IInv'
  <2>1. CASE StartSet(c)
    <3>1. PICK o \in SetOps, p \in Configs : Start(c, o, p)
      BY <2>1 DEF StartSet
    <3>2. o \in Ops \ {"write"} /\ p \in Configs \cup {NoConfig}
      BY DEF SetOps, Ops
    <3> QED BY <3>1, <3>2, StartStep
  <2>2. CASE StartOther(c)
    <3>1. PICK o \in {"commit", "get", "cookie"} : Start(c, o, NoConfig)
      BY <2>2 DEF StartOther
    <3>2. o \in Ops \ {"write"} /\ o \notin SetOps
      BY DEF SetOps, Ops
    <3> QED BY <3>1, <3>2, StartStep
  <2>3. CASE Serve(c)
    BY <2>3, ServeStep
  <2>4. CASE Fail(c)
    BY <2>4, FailStep
  <2>5. CASE ReturnSet(c) \/ ReturnCommit(c) \/ ReturnGet(c) \/ ReturnError(c)
    BY <2>5, ReturnStep
  <2> QED BY <1>2, <2>1, <2>2, <2>3, <2>4, <2>5 DEF PipelineStep
<1>3. ASSUME NEW c \in Callers, EntryStep(c)
      PROVE  IInv'
  <2>1. CASE \E name \in Names : NewTableEntry(c, name)
    BY <2>1, NewTableEntryStep
  <2>2. CASE CheckTable(c) \/ ReadTable(c) \/ CheckField(c) \/ ReadField(c)
    BY <2>2, LookUpSteps
  <2>3. CASE Write(c)
    BY <2>3, WriteStep
  <2> QED BY <1>3, <2>1, <2>2, <2>3 DEF EntryStep
<1>4. CASE UNCHANGED vars
  BY <1>4 DEF vars, switchVars, callVars, history, IInv, TypeOK, Searching, Calls,
     InPipelineCall, Apart, Builders, P4InfoAsDue, InCall, Answered, RunningDue,
     SavedDue, LookedUp, Tables, EntryWhereMeant
<1> QED BY <1>1, <1>2, <1>3, <1>4 DEF Next

\* The inductive invariant holds of every behaviour.
THEOREM Invariance == Spec => []IInv
BY InvInit, InvStep, PTL DEF Spec

\* Types, and no goroutine of any number searches a nil P4Info: c.p4Info may be replaced
\* between the check of tableId or matchFieldId and the search behind it, but no call
\* ever makes it nil again.
THEOREM TypeCorrect == Spec => []TypeOK
<1>1. IInv => TypeOK
  BY DEF IInv
<1> QED BY <1>1, Invariance, PTL

\* The P4Info the Client keeps is that of the switch when the results of the calls say
\* so, for any number of goroutines and pipelines.
THEOREM P4InfoCorrect == Spec => []P4InfoAsDue
<1>1. IInv => P4InfoAsDue
  BY DEF IInv
<1> QED BY <1>1, Invariance, PTL

\* So an entry built and written alone is in the table it was built for.
THEOREM EntryCorrect == Spec => []EntryWhereMeant
<1>1. IInv => EntryWhereMeant
  BY DEF IInv
<1> QED BY <1>1, Invariance, PTL
=============================================================================

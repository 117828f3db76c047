------------------------ MODULE AgentPipeline_proofs ------------------------
(***************************************************************************)
(* Theorems about AgentPipeline, for any traffic, inputs of any length,    *)
(* bounds and number of runs, with crashes between any two commits.        *)
(***************************************************************************)
EXTENDS AgentPipeline, SequenceTheorems, TLAPS

-----------------------------------------------------------------------------
(* Rows and ids *)

\* The ids of a run's artifacts are ids.
LEMMA IdTypes ==
  ASSUME TypeOK, NEW in \in Inputs
  PROVE  /\ in \in Seq(Traffic)
         /\ \A k \in DOMAIN in : Packet(in[k]) \in Ids /\ Trace(in[k]) \in Ids
         /\ Packets(in) \subseteq Ids
         /\ Traces(in) \subseteq Ids
         /\ Graph(in) \in Ids
         /\ Spec_(in) \in Ids
         /\ \A gate \in Gates : Report(gate) \in Ids
<1>1. in \in Seq(Traffic)
  BY PipelineAssumption
<1>2. \A k \in DOMAIN in : in[k] \in Traffic
  BY <1>1
<1>3. \A k \in DOMAIN in : Packet(in[k]) \in Ids /\ Trace(in[k]) \in Ids
  BY <1>2 DEF Packet, Trace, Ids
<1>4. Packets(in) \subseteq Ids /\ Traces(in) \subseteq Ids
  BY <1>3 DEF Packets, Traces
<1>5. Graph(in) \in Ids /\ Spec_(in) \in Ids
  BY DEF Graph, Spec_, Ids
<1>6. \A gate \in Gates : Report(gate) \in Ids
  BY DEF Report, Ids, TypeOK
<1> QED
  BY <1>1, <1>3, <1>4, <1>5, <1>6

\* What a row stored by the current run holds.
LEMMA DerivedType ==
  ASSUME TypeOK, NEW id \in Ids, NEW state \in {"OBSERVED", "INFERRED", "CONTESTED"},
         NEW parents \in SUBSET Ids
  PROVE  /\ derive_artifact(id, state, parents) \in Row
         /\ derive_artifact(id, state, parents).id = id
         /\ derive_artifact(id, state, parents).state = state
         /\ derive_artifact(id, state, parents).parents = parents
         /\ derive_artifact(id, state, parents).captured = count
  BY DEF derive_artifact, Row, TypeOK

\* A promoted copy differs in its state alone.
LEMMA PromoteType ==
  ASSUME NEW row \in Row, NEW state \in {"VERIFIED", "CONTESTED"}
  PROVE  /\ promote(row, state) \in Row
         /\ promote(row, state).id = row.id
         /\ promote(row, state).state = state
         /\ promote(row, state).parents = row.parents
         /\ promote(row, state).captured = row.captured
  BY DEF promote, Row

\* A sequence with one more element.
LEMMA OneMore ==
  ASSUME NEW S, NEW s \in Seq(S), NEW e \in S
  PROVE  /\ Append(s, e) \in Seq(S)
         /\ Len(Append(s, e)) = Len(s) + 1
         /\ \A k \in DOMAIN Append(s, e) :
              (k \in DOMAIN s /\ Append(s, e)[k] = s[k]) \/ Append(s, e)[k] = e
  OBVIOUS

\* A sequence with two more elements.
LEMMA TwoMore ==
  ASSUME NEW S, NEW s \in Seq(S), NEW g \in S, NEW h \in S
  PROVE  /\ s \o <<g, h>> \in Seq(S)
         /\ Len(s \o <<g, h>>) = Len(s) + 2
         /\ \A k \in 1..Len(s) : (s \o <<g, h>>)[k] = s[k]
         /\ (s \o <<g, h>>)[Len(s) + 1] = g
         /\ (s \o <<g, h>>)[Len(s) + 2] = h
  OBVIOUS

\* The list of promotions, bottom-up.
LEMMA PromotionList ==
  ASSUME NEW r \in Run
  PROVE  /\ r.input \in Seq(Traffic) /\ Len(r.input) \in Nat
         /\ r.passed =>
              /\ Promotions(r) \in Seq(Ids)
              /\ Len(Promotions(r)) = Len(r.input) + 2
              /\ \A k \in 1..Len(r.input) : Promotions(r)[k] = Trace(r.input[k])
              /\ Promotions(r)[Len(r.input) + 1] = Graph(r.input)
              /\ Promotions(r)[Len(r.input) + 2] = Spec_(r.input)
         /\ ~r.passed => Promotions(r) = <<Spec_(r.input)>>
<1>1. r.input \in Inputs /\ r.input \in Seq(Traffic) /\ r.passed \in BOOLEAN
  BY PipelineAssumption DEF Run
<1>2. Len(r.input) \in Nat /\ DOMAIN r.input = 1..Len(r.input)
  BY <1>1
<1>3. CASE ~r.passed
  BY <1>1, <1>2, <1>3 DEF Promotions
<1>4. CASE r.passed
  <2> DEFINE n == Len(r.input)
             T == [k \in DOMAIN r.input |-> Trace(r.input[k])]
  <2>1. \A k \in 1..n : r.input[k] \in Traffic
    BY <1>1, <1>2
  <2>2. \A k \in 1..n : Trace(r.input[k]) \in Ids
    BY <2>1 DEF Trace, Ids
  <2>3. Graph(r.input) \in Ids /\ Spec_(r.input) \in Ids
    BY <1>1 DEF Graph, Spec_, Ids
  <2>4. T \in Seq(Ids) /\ Len(T) = n /\ \A k \in 1..n : T[k] = Trace(r.input[k])
    <3>1. T \in [1..n -> Ids]
      BY <1>2, <2>2
    <3>2. T \in Seq(Ids)
      BY <3>1, <1>2
    <3>3. DOMAIN T = 1..n
      BY <1>2
    <3> QED  BY <1>2, <3>2, <3>3, LenProperties
  <2>5. Promotions(r) = T \o <<Graph(r.input), Spec_(r.input)>>
    BY <1>4 DEF Promotions
  <2> HIDE DEF T
  <2> QED
    BY <1>1, <1>2, <1>4, <2>3, <2>4, <2>5, TwoMore
<1> QED
  BY <1>1, <1>3, <1>4

\* The driver is idle or in a run.
LEMMA RunType ==
  ASSUME TypeOK
  PROVE  /\ run # Idle => run \in Run
         /\ run.pc # "idle" => run # Idle
         /\ run # Idle => run.pc # "idle"
  BY DEF TypeOK, Idle, Run, FromAcquired, FromRegistered, FromMapped, Gates

-----------------------------------------------------------------------------
(* The kinds of steps *)

Outcomes == {"HALTED", "UNFROZEN", "RAISED", "SUCCESS", "VERIFICATION_FAILURE", "CRASHED"}

\* A run that ends, with a ledger row of its own or without one: what the ledger
\* calls valid must be true of the registry.
LEMMA EndKeeps ==
  ASSUME TypeOK, PipelineInv, UNCHANGED process, run # Idle, run' = Idle, UNCHANGED <<registry, count>>,
         NEW s \in Outcomes, outcome' = Append(outcome, s), NEW v \in BOOLEAN,
         \/ UNCHANGED ledger
         \/ /\ ledger' = Append(ledger, [run |-> count, valid |-> v])
            /\ v => /\ s = "SUCCESS"
                    /\ \A kind \in {"graph", "spec"} :
                          \E row \in registry : /\ row.id[1] = kind /\ row.state = "VERIFIED"
                                                /\ row.captured = count
  PROVE  TypeOK' /\ PipelineInv'
<1> DEFINE new == [run |-> count, valid |-> v]
<1>1. /\ outcome \in Seq(Outcomes) /\ ledger \in Seq([run : Nat, valid : BOOLEAN])
      /\ Len(outcome) \in Nat /\ count = Len(outcome) + 1
  BY DEF TypeOK, PipelineInv, ClockInv, Outcomes
<1>2. /\ outcome' \in Seq(Outcomes)
      /\ Len(outcome') = Len(outcome) + 1
      /\ \A k \in 1..Len(outcome) : outcome'[k] = outcome[k]
      /\ outcome'[count] = s
  BY <1>1
<1>3. new \in [run : Nat, valid : BOOLEAN] /\ new.run = count /\ new.valid = v
  BY DEF TypeOK
<1> HIDE DEF new
<1>4. /\ ledger' \in Seq([run : Nat, valid : BOOLEAN])
      /\ \A k \in DOMAIN ledger' :
            \/ k \in DOMAIN ledger /\ ledger'[k] = ledger[k]
            \/ ledger' = Append(ledger, new) /\ ledger'[k] = new
  <2>1. CASE UNCHANGED ledger
    <3>1. ledger' = ledger
      BY <2>1
    <3>2. \A k \in DOMAIN ledger' : k \in DOMAIN ledger /\ ledger'[k] = ledger[k]
      BY <3>1
    <3>3. ledger' \in Seq([run : Nat, valid : BOOLEAN])
      BY <1>1, <3>1
    <3> QED  BY <3>2, <3>3
  <2>2. CASE ledger' = Append(ledger, new)
    <3> DEFINE S == [run : Nat, valid : BOOLEAN]
    <3>1. ledger \in Seq(S) /\ new \in S
      BY <1>1, <1>3
    <3> HIDE DEF S
    <3>2. /\ ledger' \in Seq(S)
          /\ \A k \in DOMAIN ledger' : (k \in DOMAIN ledger /\ ledger'[k] = ledger[k])
                                       \/ ledger'[k] = new
      BY <2>2, <3>1, OneMore
    <3>3. ledger' \in Seq([run : Nat, valid : BOOLEAN])
      BY <3>2 DEF S
    <3> QED  BY <2>2, <3>2, <3>3
  <2> QED  BY <2>1, <2>2 DEF new
<1>5. TypeOK'
  BY <1>2, <1>4 DEF TypeOK, Outcomes, process
<1>6. ClockInv'
  <2>1. \A k \in DOMAIN ledger' : ledger'[k].run \in 1..Len(outcome')
    BY <1>1, <1>2, <1>3, <1>4 DEF PipelineInv, ClockInv
  <2>2. count' = Len(outcome')
    BY <1>1, <1>2
  <2> QED  BY <2>1, <2>2 DEF PipelineInv, ClockInv
<1>7. LineageInv' /\ ProgressInv'
  BY DEF LineageInv, ProgressInv
<1>8. VerifiedRestsOnSettled'
  BY DEF PipelineInv, VerifiedRestsOnSettled, Rows
<1>9. ValidRowsBacked'
  <2> SUFFICES ASSUME NEW k \in DOMAIN ledger', ledger'[k].valid
               PROVE  /\ outcome'[ledger'[k].run] = "SUCCESS"
                      /\ registry_path = "file" \/ ledger'[k].run > opened =>
                            \A kind \in {"graph", "spec"} :
                               \E row \in registry : /\ row.id[1] = kind /\ row.state = "VERIFIED"
                                                     /\ row.captured = ledger'[k].run
    BY DEF ValidRowsBacked, RegistryKept, process
  <2>1. CASE k \in DOMAIN ledger /\ ledger'[k] = ledger[k]
    <3>1. ledger[k].run \in 1..Len(outcome)
      BY <2>1 DEF PipelineInv, ClockInv
    <3> QED  BY <1>2, <2>1, <3>1 DEF PipelineInv, ValidRowsBacked, RegistryKept
  <2>2. CASE ledger' = Append(ledger, new) /\ ledger'[k] = new /\ ~UNCHANGED ledger
    <3>1. v /\ ledger'[k].run = count
      BY <1>3, <2>2
    <3>2. /\ s = "SUCCESS"
          /\ \A kind \in {"graph", "spec"} :
                \E row \in registry : /\ row.id[1] = kind /\ row.state = "VERIFIED"
                                      /\ row.captured = count
      BY <2>2, <3>1
    <3> QED  BY <1>2, <3>1, <3>2
  <2>3. CASE UNCHANGED ledger
    BY <2>1, <2>3
  <2> QED  BY <1>4, <2>1, <2>2, <2>3
<1> QED
  BY <1>5, <1>6, <1>7, <1>8, <1>9 DEF PipelineInv

\* The lineage a row of the current run must have.
Lineage(row) ==
    /\ row.id[1] = "trace" => row.parents = Packets(run.input)
    /\ row.id[1] = "graph" => row.parents = Traces(run.input)
    /\ row.id[1] = "spec" => row.parents = Traces(run.input) \cup {Graph(run.input)}

\* A run that goes on and stores rows.
LEMMA MoveKeeps ==
  ASSUME TypeOK, PipelineInv, UNCHANGED process, run # Idle, run' \in Run, run'.input = run.input,
         UNCHANGED <<ledger, count, outcome>>,
         NEW new \in SUBSET Row, registry' = registry \cup new,
         \A row \in new :
            /\ row.captured = count
            /\ Lineage(row)
            /\ row.state = "VERIFIED" => \A p \in row.parents : \E a \in Rows(p) : Settled(a)
  PROVE  TypeOK' /\ ClockInv' /\ LineageInv' /\ VerifiedRestsOnSettled' /\ ValidRowsBacked'
<1>0. run' # Idle
  BY DEF Run, Idle, FromAcquired, FromRegistered, FromMapped, Gates
<1>1. TypeOK'
  BY DEF TypeOK, process
<1>2. ClockInv'
  BY <1>0 DEF TypeOK, PipelineInv, ClockInv
<1>3. LineageInv'
  <2> SUFFICES ASSUME NEW row \in registry', row.captured = count
               PROVE  /\ row.id[1] = "trace" => row.parents = Packets(run.input)
                      /\ row.id[1] = "graph" => row.parents = Traces(run.input)
                      /\ row.id[1] = "spec" => row.parents = Traces(run.input) \cup {Graph(run.input)}
    BY DEF LineageInv
  <2> QED
    BY DEF PipelineInv, LineageInv, Lineage
<1>4. VerifiedRestsOnSettled'
  <2> SUFFICES ASSUME NEW row \in registry', row.state = "VERIFIED", NEW p \in row.parents
               PROVE  \E a \in registry' : a.id = p /\ Settled(a)
    BY DEF VerifiedRestsOnSettled, Rows, Settled
  <2>1. \E a \in registry : a.id = p /\ Settled(a)
    BY DEF PipelineInv, VerifiedRestsOnSettled, Rows
  <2> QED  BY <2>1
<1>5. ValidRowsBacked'
  BY DEF PipelineInv, ValidRowsBacked, RegistryKept, process
<1> QED
  BY <1>1, <1>2, <1>3, <1>4, <1>5

\* A run that goes on and stores one row.
LEMMA StoreKeeps ==
  ASSUME TypeOK, PipelineInv, UNCHANGED process, run # Idle, run' \in Run, run'.input = run.input,
         UNCHANGED <<ledger, count, outcome>>, ProgressInv',
         NEW row \in Row, registry' = registry \cup {row}, row.captured = count, Lineage(row),
         row.state = "VERIFIED" => \A p \in row.parents : \E a \in Rows(p) : Settled(a)
  PROVE  TypeOK' /\ PipelineInv'
<1>1. {row} \in SUBSET Row /\ \A x \in {row} : x = row
  OBVIOUS
<1>2. TypeOK' /\ ClockInv' /\ LineageInv' /\ VerifiedRestsOnSettled' /\ ValidRowsBacked'
  BY <1>1, MoveKeeps
<1> QED
  BY <1>2 DEF PipelineInv

\* A run that goes on and stores nothing.
LEMMA QuietKeeps ==
  ASSUME TypeOK, PipelineInv, UNCHANGED process, run # Idle, run' \in Run, run'.input = run.input,
         UNCHANGED <<registry, ledger, count, outcome>>, ProgressInv'
  PROVE  TypeOK' /\ PipelineInv'
<1> DEFINE new == {}
<1>1. new \in SUBSET Row /\ registry' = registry \cup new /\ \A x \in new : FALSE
  OBVIOUS
<1> HIDE DEF new
<1>2. TypeOK' /\ ClockInv' /\ LineageInv' /\ VerifiedRestsOnSettled' /\ ValidRowsBacked'
  BY <1>1, MoveKeeps
<1> QED
  BY <1>2 DEF PipelineInv

\* Progress only adds up: what a stage relies on was there before, or the step
\* that reached the stage stored it.
LEMMA ProgressKept ==
  ASSUME TypeOK, PipelineInv, run # Idle, run' \in Run, run'.input = run.input,
         registry \subseteq registry', UNCHANGED count,
         run'.pc # "init",
         \A k \in DOMAIN run.input :
            run'.pc \in FromAcquired \/ (run'.pc = "acquire" /\ k < run'.i) =>
                \/ run.pc \in FromAcquired \/ (run.pc = "acquire" /\ k < run.i)
                \/ \E row \in registry' : row.id = Packet(run.input[k]) /\ row.state = "OBSERVED",
         \A k \in DOMAIN run.input :
            run'.pc \in FromRegistered \/ (run'.pc = "register" /\ k < run'.i) =>
                \/ run.pc \in FromRegistered \/ (run.pc = "register" /\ k < run.i)
                \/ \E row \in registry' : /\ row.id = Trace(run.input[k])
                                          /\ row.captured = count /\ row.state = "INFERRED",
         run'.pc \in FromMapped =>
            \/ run.pc \in FromMapped
            \/ \E row \in registry' : /\ row.id = Graph(run.input)
                                      /\ row.captured = count /\ row.state = "INFERRED",
         run'.pc \in {"verify", "promote"} =>
            \/ run.pc \in {"verify", "promote"}
            \/ \E row \in registry' : /\ row.id = Spec_(run.input)
                                      /\ row.captured = count /\ row.state = "INFERRED",
         run'.pc = "promote" /\ run'.passed =>
            \A k \in DOMAIN Promotions(run') : k < run'.i =>
               \/ run.pc = "promote" /\ run.passed /\ k < run.i
               \/ \E row \in registry' : /\ row.id = Promotions(run')[k]
                                         /\ row.captured = count /\ row.state = "VERIFIED"
  PROVE  ProgressInv'
<1>0. ProgressInv
  BY DEF PipelineInv
<1>1. ASSUME NEW k \in DOMAIN run'.input,
             run'.pc \in FromAcquired \/ (run'.pc = "acquire" /\ k < run'.i)
      PROVE  \E row \in registry' : row.id = Packet(run'.input[k]) /\ row.state = "OBSERVED"
  BY <1>0, <1>1 DEF ProgressInv, Rows
<1>2. ASSUME NEW k \in DOMAIN run'.input,
             run'.pc \in FromRegistered \/ (run'.pc = "register" /\ k < run'.i)
      PROVE  \E row \in registry' : /\ row.id = Trace(run'.input[k])
                                    /\ row.captured = count /\ row.state = "INFERRED"
  BY <1>0, <1>2 DEF ProgressInv, Rows, HasDerived
<1>3. ASSUME run'.pc \in FromMapped
      PROVE  \E row \in registry' : /\ row.id = Graph(run'.input)
                                    /\ row.captured = count /\ row.state = "INFERRED"
  BY <1>0, <1>3 DEF ProgressInv, Rows, HasDerived
<1>4. ASSUME run'.pc \in {"verify", "promote"}
      PROVE  \E row \in registry' : /\ row.id = Spec_(run'.input)
                                    /\ row.captured = count /\ row.state = "INFERRED"
  BY <1>0, <1>4 DEF ProgressInv, Rows, HasDerived
<1>5. ASSUME run'.pc = "promote", run'.passed, NEW k \in DOMAIN Promotions(run'), k < run'.i
      PROVE  \E row \in registry' : /\ row.id = Promotions(run')[k]
                                    /\ row.captured = count /\ row.state = "VERIFIED"
  <2>1. CASE run.pc = "promote" /\ run.passed /\ k < run.i
    <3>1. Promotions(run') = Promotions(run)
      BY <1>5, <2>1 DEF Promotions
    <3>2. HasVerified(Promotions(run)[k])
      BY <1>0, <1>5, <2>1, <3>1 DEF ProgressInv
    <3> QED  BY <3>1, <3>2 DEF HasVerified, Rows
  <2> QED  BY <1>5, <2>1
<1> QED
  BY <1>1, <1>2, <1>3, <1>4, <1>5 DEF ProgressInv, Rows, HasDerived, HasVerified
-----------------------------------------------------------------------------
(* One lemma per action *)

LEMMA HaltKeeps ==
  ASSUME TypeOK, PipelineInv, UNCHANGED process, run # Idle, halt, UNCHANGED <<registry, count>>
  PROVE  TypeOK' /\ PipelineInv'
<1>1. /\ run' = Idle /\ outcome' = Append(outcome, "HALTED")
      /\ ledger' = Append(ledger, [run |-> count, valid |-> FALSE])
  BY DEF halt, Ends, log_trace
<1>2. "HALTED" \in Outcomes
  BY DEF Outcomes
<1> QED
  BY <1>1, <1>2, EndKeeps

\* A run that ends without a ledger row.
LEMMA SilentEndKeeps ==
  ASSUME TypeOK, PipelineInv, UNCHANGED process, run # Idle, NEW s \in Outcomes, Ends(s),
         UNCHANGED <<registry, ledger, count>>
  PROVE  TypeOK' /\ PipelineInv'
  BY EndKeeps DEF Ends

LEMMA StartKeeps ==
  ASSUME TypeOK, PipelineInv, UNCHANGED process, NEW in \in Inputs, Start(in)
  PROVE  TypeOK' /\ PipelineInv'
<1> DEFINE r == [pc |-> "init", input |-> in, state |-> "REGISTERED", i |-> 1, passed |-> FALSE]
<1>1. r \in Run /\ r.pc = "init" /\ r.i = 1 /\ r # Idle
  BY DEF Run, Idle
<1>2. run = Idle /\ run' = r /\ count' = count + 1 /\ UNCHANGED <<registry, ledger, outcome>>
  BY DEF Start
<1> HIDE DEF r
<1>3. TypeOK'
  BY <1>1, <1>2 DEF TypeOK, process
<1>4. ClockInv' /\ \A row \in registry : row.captured # count'
  <2>1. \A row \in registry : row.captured \in Nat /\ row.captured <= count
    BY DEF TypeOK, Row, PipelineInv, ClockInv
  <2>2. \A row \in registry : row.captured <= count' /\ row.captured # count'
    BY <1>2, <2>1 DEF TypeOK
  <2> QED
    BY <1>1, <1>2, <2>2 DEF PipelineInv, ClockInv
<1>5. LineageInv'
  BY <1>2, <1>4 DEF LineageInv
<1>6. ProgressInv'
  BY <1>1, <1>2 DEF ProgressInv, FromAcquired, FromRegistered, FromMapped, Gates
<1>7. VerifiedRestsOnSettled' /\ ValidRowsBacked'
  BY <1>2 DEF PipelineInv, VerifiedRestsOnSettled, ValidRowsBacked, RegistryKept, process, Rows
<1> QED
  BY <1>3, <1>4, <1>5, <1>6, <1>7 DEF PipelineInv

LEMMA InitKernelKeeps ==
  ASSUME TypeOK, PipelineInv, UNCHANGED process, InitKernel
  PROVE  TypeOK' /\ PipelineInv'
<1>1. run \in Run /\ run # Idle /\ run.pc = "init" /\ run.i = 1
  BY RunType DEF InitKernel, PipelineInv, ProgressInv
<1>2. CASE halt
  BY <1>1, <1>2, HaltKeeps DEF InitKernel
<1>3. CASE run' = [run EXCEPT !.pc = "acquire", !.state = "CAPTURE_READY"]
           /\ UNCHANGED <<ledger, outcome>>
  <2>1. /\ run' \in Run /\ run'.pc = "acquire" /\ run'.i = 1 /\ run'.input = run.input
    BY <1>1, <1>3 DEF Run
  <2>2. UNCHANGED <<registry, count>>
    BY DEF InitKernel
  <2>3. \A k \in DOMAIN run.input : ~(k < 1)
    BY <1>1, PromotionList
  <2>4. ProgressInv'
    BY <1>1, <2>1, <2>2, <2>3, ProgressKept DEF FromAcquired, FromRegistered, FromMapped, Gates
  <2> QED
    BY <1>1, <1>3, <2>1, <2>2, <2>4, QuietKeeps
<1> QED
  BY <1>2, <1>3 DEF InitKernel

LEMMA LoopNodeKeeps ==
  ASSUME TypeOK, PipelineInv, UNCHANGED process, NEW output, LoopNode(output)
  PROVE  TypeOK' /\ PipelineInv'
<1>1. run \in Run /\ run # Idle /\ run.pc \in {"acquire", "extract", "type"}
  BY RunType DEF LoopNode, LoopStages
<1>2. run.i \in 1..Len(run.input) /\ run.i \in DOMAIN run.input
  BY <1>1, PromotionList DEF LoopNode, Run
<1>3. CASE halt /\ UNCHANGED registry
  BY <1>1, <1>3, HaltKeeps DEF LoopNode
<1>4. CASE /\ run' = [run EXCEPT !.i = @ + 1, !.state = LoopTarget[run.pc]]
           /\ registry' = IF run.pc = "acquire"
                 THEN registry \cup {derive_artifact(Packet(run.input[run.i]), "OBSERVED", {})}
                 ELSE registry
           /\ UNCHANGED <<ledger, outcome>>
  <2> DEFINE row == derive_artifact(Packet(run.input[run.i]), "OBSERVED", {})
             new == IF run.pc = "acquire" THEN {row} ELSE {}
  <2>1. /\ run' \in Run /\ run'.pc = run.pc /\ run'.i = run.i + 1 /\ run'.input = run.input
    <3>1. LoopTarget[run.pc] \in {"CAPTURING", "NORMALIZING", "EXTRACTING"} /\ run.i + 1 \in Nat \ {0}
      BY <1>1 DEF LoopTarget, Run
    <3> QED  BY <1>1, <1>4, <3>1 DEF Run
  <2>2. Packet(run.input[run.i]) \in Ids /\ Packet(run.input[run.i])[1] = "packet"
    BY <1>1, <1>2, IdTypes DEF Run, Packet
  <2>3. /\ row \in Row /\ row.id = Packet(run.input[run.i]) /\ row.state = "OBSERVED"
        /\ row.captured = count
    BY <2>2, DerivedType
  <2>4. /\ registry' = registry \cup new
        /\ run.pc = "acquire" => row \in registry'
        /\ UNCHANGED count
    BY <1>4 DEF LoopNode
  <2> HIDE DEF row
  <2>5. Lineage(row)
    BY <2>2, <2>3 DEF Lineage
  <2>6. new \in SUBSET Row /\ \A x \in new : x = row
    BY <2>3
  <2> HIDE DEF new
  <2>7. ASSUME NEW k \in DOMAIN run.input, k < run'.i
        PROVE  k < run.i \/ k = run.i
    BY <1>1, <1>2, <2>1, <2>7, PromotionList
  <2>8. ProgressInv'
    BY <1>1, <2>1, <2>3, <2>4, <2>7, ProgressKept
       DEF FromAcquired, FromRegistered, FromMapped, Gates
  <2> QED
    BY <1>1, <1>4, <2>1, <2>3, <2>4, <2>5, <2>6, <2>8, MoveKeeps DEF PipelineInv
<1> QED
  BY <1>3, <1>4 DEF LoopNode

LEMMA LoopDoneKeeps ==
  ASSUME TypeOK, PipelineInv, UNCHANGED process, LoopDone
  PROVE  TypeOK' /\ PipelineInv'
<1>1. run \in Run /\ run # Idle /\ run.pc \in {"acquire", "extract", "type"}
  BY RunType DEF LoopDone, LoopStages
<1>2. /\ run' \in Run /\ run'.pc = LoopNext[run.pc] /\ run'.i = 1 /\ run'.input = run.input
  <2>1. LoopNext[run.pc] \in {"extract", "type", "register"}
    BY <1>1 DEF LoopNext
  <2>2. run' = [run EXCEPT !.pc = LoopNext[run.pc], !.i = 1]
    BY DEF LoopDone
  <2> DEFINE next == LoopNext[run.pc]
  <2>3. next \in FromAcquired
    BY <2>1 DEF FromAcquired
  <2> HIDE DEF next
  <2>4. [run EXCEPT !.pc = next, !.i = 1] \in Run
    <3>1. next \in FromAcquired \cup {"init", "acquire"} /\ 1 \in Nat \ {0}
      BY <2>3
    <3> QED  BY <1>1, <3>1 DEF Run
  <2>5. run' \in Run
    BY <2>2, <2>4 DEF next
  <2>6. run'.pc = LoopNext[run.pc] /\ run'.i = 1 /\ run'.input = run.input
    BY <1>1, <2>2 DEF Run
  <2> QED  BY <2>5, <2>6
<1>3. \A k \in DOMAIN run.input : ~(k < 1) /\ k < run.i
  BY <1>1, PromotionList DEF LoopDone, Run
<1>4. UNCHANGED <<registry, ledger, count, outcome>>
  BY DEF LoopDone
<1>5. /\ run'.pc \in {"extract", "type", "register"}
      /\ run.pc = "acquire" \/ run.pc \in FromAcquired
  BY <1>1, <1>2 DEF LoopNext, FromAcquired
<1>6. ProgressInv'
  BY <1>1, <1>2, <1>3, <1>4, <1>5, ProgressKept DEF FromRegistered, FromMapped, Gates
<1> QED
  BY <1>1, <1>2, <1>4, <1>6, QuietKeeps

LEMMA RegisterTraceKeeps ==
  ASSUME TypeOK, PipelineInv, UNCHANGED process, RegisterTrace
  PROVE  TypeOK' /\ PipelineInv'
<1>1. run \in Run /\ run # Idle /\ run.pc = "register" /\ run.input \in Inputs
  BY RunType DEF RegisterTrace, Run
<1>2. run.pc \in FromAcquired
  BY <1>1 DEF FromAcquired
<1>3. CASE run.i <= Len(run.input)
  <2> DEFINE row == derive_artifact(Trace(run.input[run.i]), "INFERRED", Packets(run.input))
  <2>1. /\ run' = [run EXCEPT !.i = @ + 1] /\ registry' = registry \cup {row}
        /\ UNCHANGED <<ledger, count, outcome>>
    BY <1>3 DEF RegisterTrace
  <2>2. /\ run' \in Run /\ run'.pc = run.pc /\ run'.i = run.i + 1 /\ run'.input = run.input
    BY <1>1, <2>1 DEF Run
  <2>3. run.i \in DOMAIN run.input
    BY <1>1, <1>3, PromotionList DEF Run
  <2>4. /\ Trace(run.input[run.i]) \in Ids /\ Trace(run.input[run.i])[1] = "trace"
        /\ Packets(run.input) \in SUBSET Ids
    BY <1>1, <2>3, IdTypes DEF Trace
  <2>5. /\ row \in Row /\ row.id = Trace(run.input[run.i]) /\ row.state = "INFERRED"
        /\ row.captured = count /\ row.parents = Packets(run.input)
    BY <2>4, DerivedType
  <2> HIDE DEF row
  <2>6. Lineage(row)
    BY <2>4, <2>5 DEF Lineage
  <2>7. ASSUME NEW k \in DOMAIN run.input, k < run'.i
        PROVE  k < run.i \/ k = run.i
    BY <1>1, <2>2, <2>3, <2>7, PromotionList
  <2>8. ProgressInv'
    BY <1>1, <1>2, <2>1, <2>2, <2>5, <2>7, ProgressKept DEF FromRegistered, FromMapped, Gates
  <2> QED
    BY <1>1, <2>1, <2>2, <2>5, <2>6, <2>8, StoreKeeps
<1>4. CASE ~(run.i <= Len(run.input))
  <2>1. run' = [run EXCEPT !.pc = "freeze"] /\ UNCHANGED <<registry, ledger, count, outcome>>
    BY <1>4 DEF RegisterTrace
  <2>2. /\ run' \in Run /\ run'.pc = "freeze" /\ run'.input = run.input
    BY <1>1, <2>1 DEF Run, FromAcquired, FromRegistered
  <2>3. \A k \in DOMAIN run.input : k < run.i
    BY <1>1, <1>4, PromotionList DEF Run
  <2>4. ProgressInv'
    BY <1>1, <1>2, <2>1, <2>2, <2>3, ProgressKept DEF FromMapped
  <2> QED
    BY <1>1, <2>1, <2>2, <2>4, QuietKeeps
<1> QED
  BY <1>3, <1>4

LEMMA FreezeCheckKeeps ==
  ASSUME TypeOK, PipelineInv, UNCHANGED process, FreezeCheck
  PROVE  TypeOK' /\ PipelineInv'
<1>1. run \in Run /\ run # Idle /\ run.pc = "freeze"
  BY RunType DEF FreezeCheck
<1>2. CASE Ends("UNFROZEN")
  BY <1>1, <1>2, SilentEndKeeps DEF FreezeCheck, Outcomes
<1>3. CASE run' = [run EXCEPT !.pc = "auth"] /\ UNCHANGED outcome
  <2>1. /\ run' \in Run /\ run'.pc = "auth" /\ run'.input = run.input
    BY <1>1, <1>3 DEF Run, FromAcquired, FromRegistered, Gates
  <2>2. UNCHANGED <<registry, ledger, count, outcome>>
    BY <1>3 DEF FreezeCheck
  <2>3. run.pc \in FromRegistered /\ run.pc \in FromAcquired
    BY <1>1 DEF FromRegistered, FromAcquired
  <2>4. ProgressInv'
    BY <1>1, <2>1, <2>2, <2>3, ProgressKept DEF FromMapped
  <2> QED
    BY <1>1, <2>1, <2>2, <2>4, QuietKeeps
<1> QED
  BY <1>2, <1>3 DEF FreezeCheck
LEMMA ValidateKeeps ==
  ASSUME TypeOK, PipelineInv, UNCHANGED process, NEW severities, Validate(severities)
  PROVE  TypeOK' /\ PipelineInv'
<1>1. run \in Run /\ run # Idle /\ run.pc \in Gates /\ run.input \in Inputs
  BY RunType DEF Validate, GateNext, Gates, Run
<1>2. CASE halt /\ UNCHANGED registry
  BY <1>1, <1>2, HaltKeeps DEF Validate
<1>3. CASE Ends("RAISED") /\ UNCHANGED <<ledger, registry>>
  BY <1>1, <1>3, SilentEndKeeps DEF Validate, Outcomes
<1>4. CASE /\ registry' = registry \cup
                {derive_artifact(Report(run.pc), ReportState(run.pc, severities),
                                 ReportParents(run.pc))}
           /\ run' = [run EXCEPT !.pc = GateNext[run.pc]]
           /\ UNCHANGED <<ledger, outcome>>
  <2> DEFINE st == ReportState(run.pc, severities)
             row == derive_artifact(Report(run.pc), st, ReportParents(run.pc))
             next == GateNext[run.pc]
  <2>1. next \in Gates \cup {"map"}
    BY <1>1 DEF GateNext, Gates
  <2> HIDE DEF next
  <2>2. /\ [run EXCEPT !.pc = next] \in Run
        /\ [run EXCEPT !.pc = next].pc = next
        /\ [run EXCEPT !.pc = next].input = run.input
    BY <1>1, <2>1 DEF Run, FromAcquired, FromRegistered
  <2>3. run' \in Run /\ run'.pc = next /\ run'.input = run.input
    BY <1>4, <2>2 DEF next
  <2>4. /\ Report(run.pc) \in Ids
        /\ Report(run.pc)[1] \notin {"trace", "graph", "spec"}
    BY <1>1, IdTypes DEF Report, Gates
  <2>5. ReportParents(run.pc) \in SUBSET Ids
    <3>1. Traces(run.input) \subseteq Ids /\ \A gate \in Gates : Report(gate) \in Ids
      BY <1>1, IdTypes
    <3> QED  BY <1>1, <3>1 DEF ReportParents, Gates
  <2>6. st \in {"OBSERVED", "INFERRED", "CONTESTED"} /\ st # "VERIFIED"
    BY DEF ReportState
  <2> HIDE DEF st
  <2>7. row \in Row /\ row.id = Report(run.pc) /\ row.state = st /\ row.captured = count
    BY <2>4, <2>5, <2>6, DerivedType
  <2>8. registry' = registry \cup {row} /\ UNCHANGED <<ledger, count, outcome>>
    BY <1>4 DEF Validate, st
  <2> HIDE DEF row
  <2>9. Lineage(row)
    BY <2>4, <2>7 DEF Lineage
  <2>10. run.pc \in FromRegistered /\ run.pc \in FromAcquired /\ run'.pc \notin FromMapped
    BY <1>1, <2>1, <2>3 DEF FromRegistered, FromAcquired, FromMapped, Gates
  <2>11. run'.pc \notin {"init", "verify", "promote", "register", "acquire"}
    BY <2>1, <2>3 DEF Gates
  <2>12. ProgressInv'
    BY <1>1, <2>3, <2>8, <2>10, <2>11, ProgressKept
  <2> QED
    BY <1>1, <2>3, <2>6, <2>7, <2>8, <2>9, <2>12, StoreKeeps
<1> QED
  BY <1>2, <1>3, <1>4 DEF Validate

LEMMA MapFlowKeeps ==
  ASSUME TypeOK, PipelineInv, UNCHANGED process, NEW output, MapFlow(output)
  PROVE  TypeOK' /\ PipelineInv'
<1>1. run \in Run /\ run # Idle /\ run.pc = "map" /\ run.input \in Inputs
  BY RunType DEF MapFlow, Run
<1>2. CASE halt /\ UNCHANGED registry
  BY <1>1, <1>2, HaltKeeps DEF MapFlow
<1>3. CASE /\ run' = [run EXCEPT !.pc = "synthesize", !.state = "ASSEMBLING_IR"]
           /\ registry' = registry \cup
                 {derive_artifact(Graph(run.input), "INFERRED", Traces(run.input))}
           /\ UNCHANGED <<ledger, outcome>>
  <2> DEFINE row == derive_artifact(Graph(run.input), "INFERRED", Traces(run.input))
  <2>1. run' \in Run /\ run'.pc = "synthesize" /\ run'.input = run.input
    BY <1>1, <1>3 DEF Run, FromAcquired, FromRegistered, FromMapped
  <2>2. Graph(run.input) \in Ids /\ Graph(run.input)[1] = "graph" /\ Traces(run.input) \in SUBSET Ids
    BY <1>1, IdTypes DEF Graph
  <2>3. /\ row \in Row /\ row.id = Graph(run.input) /\ row.state = "INFERRED"
        /\ row.captured = count /\ row.parents = Traces(run.input)
    BY <2>2, DerivedType
  <2>4. registry' = registry \cup {row} /\ UNCHANGED <<ledger, count, outcome>>
    BY <1>3 DEF MapFlow
  <2> HIDE DEF row
  <2>5. Lineage(row)
    BY <2>2, <2>3 DEF Lineage
  <2>6. run.pc \in FromRegistered /\ run.pc \in FromAcquired
    BY <1>1 DEF FromRegistered, FromAcquired
  <2>7. ProgressInv'
    BY <1>1, <2>1, <2>3, <2>4, <2>6, ProgressKept
  <2> QED
    BY <1>1, <2>1, <2>3, <2>4, <2>5, <2>7, StoreKeeps
<1> QED
  BY <1>2, <1>3 DEF MapFlow

LEMMA SynthesizeKeeps ==
  ASSUME TypeOK, PipelineInv, UNCHANGED process, NEW output, Synthesize(output)
  PROVE  TypeOK' /\ PipelineInv'
<1>1. run \in Run /\ run # Idle /\ run.pc = "synthesize" /\ run.input \in Inputs
  BY RunType DEF Synthesize, Run
<1>2. CASE halt /\ UNCHANGED registry
  BY <1>1, <1>2, HaltKeeps DEF Synthesize
<1>3. CASE /\ run' = [run EXCEPT !.pc = "verify", !.state = "GENERATING_SPEC"]
           /\ registry' = registry \cup
                 {derive_artifact(Spec_(run.input), "INFERRED",
                                  Traces(run.input) \cup {Graph(run.input)})}
           /\ UNCHANGED <<ledger, outcome>>
  <2> DEFINE parents == Traces(run.input) \cup {Graph(run.input)}
             row == derive_artifact(Spec_(run.input), "INFERRED", parents)
  <2>1. run' \in Run /\ run'.pc = "verify" /\ run'.input = run.input
    BY <1>1, <1>3 DEF Run, FromAcquired, FromRegistered, FromMapped
  <2>2. Spec_(run.input) \in Ids /\ Spec_(run.input)[1] = "spec" /\ parents \in SUBSET Ids
    BY <1>1, IdTypes DEF Spec_
  <2>3. /\ row \in Row /\ row.id = Spec_(run.input) /\ row.state = "INFERRED"
        /\ row.captured = count /\ row.parents = parents
    BY <2>2, DerivedType
  <2>4. registry' = registry \cup {row} /\ UNCHANGED <<ledger, count, outcome>>
    BY <1>3 DEF Synthesize
  <2> HIDE DEF row
  <2>5. Lineage(row)
    BY <2>2, <2>3 DEF Lineage
  <2>6. run.pc \in FromMapped /\ run.pc \in FromRegistered /\ run.pc \in FromAcquired
    BY <1>1 DEF FromMapped, FromRegistered, FromAcquired
  <2>7. ProgressInv'
    BY <1>1, <2>1, <2>3, <2>4, <2>6, ProgressKept
  <2> QED
    BY <1>1, <2>1, <2>3, <2>4, <2>5, <2>7, StoreKeeps
<1> QED
  BY <1>2, <1>3 DEF Synthesize

LEMMA VerifyKeeps ==
  ASSUME TypeOK, PipelineInv, UNCHANGED process, NEW output, NEW passed \in BOOLEAN, Verify(output, passed)
  PROVE  TypeOK' /\ PipelineInv'
<1>1. run \in Run /\ run # Idle /\ run.pc = "verify"
  BY RunType DEF Verify
<1>2. CASE halt
  BY <1>1, <1>2, HaltKeeps DEF Verify
<1>3. CASE /\ run' = [run EXCEPT !.pc = "promote", !.state = "COMPLETED", !.i = 1, !.passed = passed]
           /\ UNCHANGED <<ledger, outcome>>
  <2>1. run' \in Run /\ run'.pc = "promote" /\ run'.input = run.input /\ run'.i = 1
    <3>1. "promote" \in FromAcquired \cup {"init", "acquire"} /\ 1 \in Nat \ {0}
      BY DEF FromAcquired, FromRegistered, FromMapped
    <3>2. run' \in Run
      BY <1>1, <1>3, <3>1 DEF Run
    <3>3. run'.pc = "promote" /\ run'.input = run.input /\ run'.i = 1
      BY <1>1, <1>3 DEF Run
    <3> QED  BY <3>2, <3>3
  <2>2. UNCHANGED <<registry, ledger, count, outcome>>
    BY <1>3 DEF Verify
  <2>3. run.pc \in FromMapped /\ run.pc \in FromRegistered /\ run.pc \in FromAcquired
    BY <1>1 DEF FromMapped, FromRegistered, FromAcquired
  <2>4. ASSUME run'.passed, NEW k \in DOMAIN Promotions(run')
        PROVE  ~(k < run'.i)
    <3>1. Promotions(run') \in Seq(Ids)
      BY <2>1, <2>4, PromotionList
    <3>2. k \in Nat \ {0}
      BY <3>1, LenProperties
    <3> QED  BY <2>1, <3>2
  <2>5. ProgressInv'
    BY <1>1, <2>1, <2>2, <2>3, <2>4, ProgressKept
  <2> QED
    BY <1>1, <2>1, <2>2, <2>5, QuietKeeps
<1> QED
  BY <1>2, <1>3 DEF Verify
\* The row a promotion starts from is the one this run derived.
LEMMA DerivedRow ==
  ASSUME TypeOK, NEW id, HasDerived(id)
  PROVE  /\ Derived(id) \in registry /\ Derived(id) \in Row
         /\ Derived(id).id = id
         /\ Derived(id).captured = count
         /\ Derived(id).state = "INFERRED"
<1>1. \E row \in Rows(id) : row.captured = count /\ row.state = "INFERRED"
  BY DEF HasDerived
<1>2. /\ Derived(id) \in Rows(id) /\ Derived(id).captured = count
      /\ Derived(id).state = "INFERRED"
  BY <1>1 DEF Derived
<1> QED
  BY <1>2 DEF Rows, TypeOK

\* Bottom-up promotion: when its turn comes, the parents of an artifact are settled.
LEMMA ParentsSettled ==
  ASSUME TypeOK, PipelineInv, run \in Run, run # Idle, run.pc = "promote", run.passed,
         run.i <= Len(Promotions(run))
  PROVE  LET id == Promotions(run)[run.i]
         IN  /\ HasDerived(id)
             /\ \A p \in Derived(id).parents : \E a \in Rows(p) : Settled(a)
<1> DEFINE n == Len(run.input)
           id == Promotions(run)[run.i]
<1>1. /\ n \in Nat /\ DOMAIN run.input = 1..n /\ run.i \in Nat \ {0}
      /\ Len(Promotions(run)) = n + 2
      /\ DOMAIN Promotions(run) = 1..n + 2
      /\ \A k \in 1..n : Promotions(run)[k] = Trace(run.input[k])
      /\ Promotions(run)[n + 1] = Graph(run.input)
      /\ Promotions(run)[n + 2] = Spec_(run.input)
  <2>1. run.i \in Nat \ {0}
    BY DEF Run
  <2>2. run.input \in Seq(Traffic) /\ Promotions(run) \in Seq(Ids)
    BY PromotionList
  <2>3. DOMAIN run.input = 1..n /\ DOMAIN Promotions(run) = 1..Len(Promotions(run))
    BY <2>2, LenProperties
  <2> QED  BY <2>1, <2>3, PromotionList
<1>2. /\ \A k \in 1..n : \E row \in Rows(Packet(run.input[k])) : row.state = "OBSERVED"
      /\ \A k \in 1..n : HasDerived(Trace(run.input[k]))
      /\ HasDerived(Graph(run.input))
      /\ HasDerived(Spec_(run.input))
      /\ \A k \in 1..n + 2 : k < run.i => HasVerified(Promotions(run)[k])
  <2>1. run.pc \in FromAcquired /\ run.pc \in FromRegistered /\ run.pc \in FromMapped
    BY DEF FromAcquired, FromRegistered, FromMapped
  <2> QED  BY <1>1, <2>1 DEF PipelineInv, ProgressInv
<1>3. ASSUME NEW x, HasVerified(x)
      PROVE  \E a \in Rows(x) : Settled(a)
  BY <1>3 DEF HasVerified, Settled
<1>4. CASE run.i \in 1..n
  <2>1. id = Trace(run.input[run.i]) /\ HasDerived(id) /\ id[1] = "trace"
    <3>1. id = Trace(run.input[run.i])
      BY <1>1, <1>4
    <3>2. HasDerived(id)
      BY <1>2, <3>1, <1>4
    <3>3. Trace(run.input[run.i])[1] = "trace"
      BY DEF Trace
    <3> QED  BY <3>1, <3>2, <3>3
  <2>2. Derived(id).parents = Packets(run.input)
    BY <2>1, DerivedRow DEF PipelineInv, LineageInv
  <2>3. ASSUME NEW p \in Packets(run.input)
        PROVE  \E a \in Rows(p) : Settled(a)
    <3>1. PICK k \in 1..n : p = Packet(run.input[k])
      BY <1>1, <2>3 DEF Packets
    <3>2. PICK a \in Rows(p) : a.state = "OBSERVED"
      BY <1>2, <3>1
    <3> QED  BY <3>2 DEF Settled
  <2> QED  BY <2>1, <2>2, <2>3
<1>5. ASSUME n < run.i, NEW p \in Traces(run.input)
      PROVE  \E a \in Rows(p) : Settled(a)
  <2>1. PICK k \in 1..n : p = Trace(run.input[k])
    BY <1>1, <1>5 DEF Traces
  <2>2. k \in 1..n + 2 /\ k < run.i /\ Promotions(run)[k] = p
    BY <1>1, <1>5, <2>1
  <2> QED  BY <1>2, <1>3, <2>2
<1>6. CASE run.i = n + 1
  <2>1. id = Graph(run.input) /\ HasDerived(id) /\ id[1] = "graph" /\ n < run.i
    <3>1. id = Graph(run.input) /\ n < run.i
      BY <1>1, <1>6
    <3>2. HasDerived(id)
      BY <1>2, <3>1, <1>6
    <3>3. Graph(run.input)[1] = "graph"
      BY DEF Graph
    <3> QED  BY <3>1, <3>2, <3>3
  <2>2. Derived(id).parents = Traces(run.input)
    BY <2>1, DerivedRow DEF PipelineInv, LineageInv
  <2> QED  BY <1>5, <2>1, <2>2
<1>7. CASE run.i = n + 2
  <2>1. id = Spec_(run.input) /\ HasDerived(id) /\ id[1] = "spec" /\ n < run.i
    <3>1. id = Spec_(run.input) /\ n < run.i
      BY <1>1, <1>7
    <3>2. HasDerived(id)
      BY <1>2, <3>1, <1>7
    <3>3. Spec_(run.input)[1] = "spec"
      BY DEF Spec_
    <3> QED  BY <3>1, <3>2, <3>3
  <2>2. Derived(id).parents = Traces(run.input) \cup {Graph(run.input)}
    BY <2>1, DerivedRow DEF PipelineInv, LineageInv
  <2>3. HasVerified(Graph(run.input))
    <3>1. n + 1 \in 1..n + 2 /\ n + 1 < run.i
      BY <1>1, <1>7
    <3> QED  BY <1>1, <1>2, <3>1
  <2> QED  BY <1>3, <1>5, <2>1, <2>2, <2>3
<1>8. run.i \in 1..n \/ run.i = n + 1 \/ run.i = n + 2
  BY <1>1
<1> QED
  BY <1>4, <1>6, <1>7, <1>8

LEMMA PromoteKeeps ==
  ASSUME TypeOK, PipelineInv, UNCHANGED process, Promote
  PROVE  TypeOK' /\ PipelineInv'
<1>1. /\ run \in Run /\ run # Idle /\ run.pc = "promote" /\ run.passed \in BOOLEAN
      /\ run.i <= Len(Promotions(run)) /\ run.i \in Nat \ {0}
  BY RunType DEF Promote, Run
<1> DEFINE id == Promotions(run)[run.i]
           row == Derived(id)
           st == IF run.passed THEN "VERIFIED" ELSE "CONTESTED"
           copy == promote(row, st)
<1>2. CASE halt /\ UNCHANGED registry
  BY <1>1, <1>2, HaltKeeps DEF Promote
<1>3. CASE /\ registry' = registry \cup {copy}
           /\ run' = [run EXCEPT !.i = @ + 1]
           /\ UNCHANGED <<ledger, outcome>>
  <2>1. /\ run' \in Run /\ run'.pc = "promote" /\ run'.input = run.input
        /\ run'.i = run.i + 1 /\ run'.passed = run.passed
    BY <1>1, <1>3 DEF Run
  <2>2. UNCHANGED <<ledger, count, outcome>>
    BY <1>3 DEF Promote
  <2>3. run.pc \in FromAcquired /\ run.pc \in FromRegistered /\ run.pc \in FromMapped
    BY <1>1 DEF FromAcquired, FromRegistered, FromMapped
  <2>4. HasDerived(id)
    <3>1. CASE run.passed
      BY <1>1, <3>1, ParentsSettled
    <3>2. CASE ~run.passed
      <4>1. Promotions(run) = <<Spec_(run.input)>>
        BY <1>1, <3>2, PromotionList
      <4>2. run.i = 1
        BY <1>1, <4>1
      <4>3. id = Spec_(run.input)
        BY <4>1, <4>2
      <4> QED  BY <1>1, <4>3 DEF PipelineInv, ProgressInv
    <3> QED  BY <3>1, <3>2
  <2>5. row \in registry /\ row \in Row /\ row.id = id /\ row.captured = count
    BY <2>4, DerivedRow
  <2>6. st \in {"VERIFIED", "CONTESTED"}
    OBVIOUS
  <2>7. /\ copy \in Row /\ copy.id = id /\ copy.state = st /\ copy.parents = row.parents
        /\ copy.captured = count
    <3> HIDE DEF row, st
    <3> QED  BY <2>5, <2>6, PromoteType
  <2>8. Lineage(row)
    BY <1>1, <2>5 DEF PipelineInv, LineageInv, Lineage
  <2>9. st = "VERIFIED" => \A p \in row.parents : \E a \in Rows(p) : Settled(a)
    BY <1>1, ParentsSettled
  <2>10. ASSUME run'.passed, NEW k \in DOMAIN Promotions(run'), k < run'.i
         PROVE  \/ run.passed /\ k < run.i
                \/ copy.id = Promotions(run')[k] /\ copy.state = "VERIFIED"
    <3>1. run.passed /\ Promotions(run') = Promotions(run)
      BY <2>1, <2>10 DEF Promotions
    <3>2. Promotions(run) \in Seq(Ids)
      BY <1>1, <3>1, PromotionList
    <3>3. k \in Nat
      BY <2>10, <3>1, <3>2, LenProperties
    <3>4. k < run.i \/ k = run.i
      BY <1>1, <2>1, <2>10, <3>3
    <3> QED  BY <2>7, <3>1, <3>4
  <2> HIDE DEF row, st, copy
  <2>11. Lineage(copy)
    BY <2>5, <2>7, <2>8 DEF Lineage
  <2>12. copy \in registry' /\ registry \subseteq registry'
    BY <1>3
  <2>13. ProgressInv'
    BY <1>1, <2>1, <2>2, <2>3, <2>7, <2>10, <2>12, ProgressKept
  <2> QED
    BY <1>1, <1>3, <2>1, <2>2, <2>7, <2>9, <2>11, <2>13, StoreKeeps
<1> QED
  BY <1>2, <1>3 DEF Promote

LEMMA FinishKeeps ==
  ASSUME TypeOK, PipelineInv, UNCHANGED process, Finish
  PROVE  TypeOK' /\ PipelineInv'
<1>1. /\ run \in Run /\ run # Idle /\ run.pc = "promote" /\ run.passed \in BOOLEAN
      /\ run.i > Len(Promotions(run)) /\ run.i \in Nat
  BY RunType DEF Finish, Run
<1> DEFINE s == IF run.passed THEN "SUCCESS" ELSE "VERIFICATION_FAILURE"
<1>2. /\ run' = Idle /\ outcome' = Append(outcome, s)
      /\ ledger' = Append(ledger, [run |-> count, valid |-> run.passed])
      /\ UNCHANGED <<registry, count>>
  BY DEF Finish, Ends, log_trace
<1>3. s \in Outcomes /\ (run.passed => s = "SUCCESS")
  BY DEF Outcomes
<1>4. ASSUME run.passed, NEW kind \in {"graph", "spec"}
      PROVE  \E row \in registry : /\ row.id[1] = kind /\ row.state = "VERIFIED"
                                   /\ row.captured = count
  <2> DEFINE n == Len(run.input)
  <2>1. /\ n \in Nat /\ Promotions(run) \in Seq(Ids) /\ Len(Promotions(run)) = n + 2
        /\ Promotions(run)[n + 1] = Graph(run.input)
        /\ Promotions(run)[n + 2] = Spec_(run.input)
    BY <1>1, <1>4, PromotionList
  <2>2. DOMAIN Promotions(run) = 1..n + 2
    BY <2>1, LenProperties
  <2>3. \A k \in 1..n + 2 : k < run.i => HasVerified(Promotions(run)[k])
    BY <1>1, <1>4, <2>2 DEF PipelineInv, ProgressInv
  <2>4. HasVerified(Graph(run.input)) /\ HasVerified(Spec_(run.input))
    <3>1. n + 1 \in 1..n + 2 /\ n + 2 \in 1..n + 2 /\ n + 1 < run.i /\ n + 2 < run.i
      BY <1>1, <2>1
    <3> QED  BY <2>1, <2>3, <3>1
  <2>5. Graph(run.input)[1] = "graph" /\ Spec_(run.input)[1] = "spec"
    BY DEF Graph, Spec_
  <2>6. CASE kind = "graph"
    BY <2>4, <2>5, <2>6 DEF HasVerified, Rows
  <2>7. CASE kind = "spec"
    BY <2>4, <2>5, <2>7 DEF HasVerified, Rows
  <2> QED  BY <2>6, <2>7
<1> HIDE DEF s
<1> QED
  BY <1>1, <1>2, <1>3, <1>4, EndKeeps

\* The end of a process takes an in-memory registry with it: the rows that remain
\* valid are those of runs whose registry is a file.
LEMMA ProcessEndKeeps ==
  ASSUME TypeOK, PipelineInv, ProcessEnds, run' = Idle, outcome' \in Seq(Outcomes),
         count = Len(outcome'), Len(outcome) <= Len(outcome'),
         \A k \in 1..Len(outcome) : outcome'[k] = outcome[k]
  PROVE  TypeOK' /\ PipelineInv'
<1>1. /\ registry' = (IF registry_path = "file" THEN registry ELSE {})
      /\ opened' = count /\ UNCHANGED <<ledger, count, registry_path>>
  BY DEF ProcessEnds
<1>2. registry' \subseteq registry
  BY <1>1
<1>3. TypeOK'
  BY <1>1, <1>2 DEF TypeOK, Outcomes
<1>4. /\ Len(outcome) \in Nat /\ Len(outcome') \in Nat /\ count \in Nat
      /\ \A k \in DOMAIN ledger : ledger[k].run \in 1..Len(outcome)
  BY <1>3 DEF TypeOK, PipelineInv, ClockInv
<1>5. \A k \in DOMAIN ledger : ledger[k].run \in 1..Len(outcome') /\ ~(ledger[k].run > count)
  BY <1>4
<1>6. ClockInv'
  BY <1>1, <1>2, <1>5 DEF PipelineInv, ClockInv
<1>7. LineageInv' /\ ProgressInv'
  BY DEF LineageInv, ProgressInv
<1>8. VerifiedRestsOnSettled'
  <2>1. CASE registry' = registry
    BY <2>1 DEF PipelineInv, VerifiedRestsOnSettled, Rows
  <2>2. CASE registry' = {}
    BY <2>2 DEF VerifiedRestsOnSettled
  <2> QED  BY <1>1, <2>1, <2>2
<1>9. ValidRowsBacked'
  <2> SUFFICES ASSUME NEW k \in DOMAIN ledger, ledger[k].valid
               PROVE  /\ outcome'[ledger[k].run] = "SUCCESS"
                      /\ registry_path = "file" \/ ledger[k].run > count =>
                            \A kind \in {"graph", "spec"} :
                               \E row \in registry' : /\ row.id[1] = kind /\ row.state = "VERIFIED"
                                                      /\ row.captured = ledger[k].run
    BY <1>1 DEF ValidRowsBacked, RegistryKept
  <2> QED
    BY <1>1, <1>4, <1>5 DEF PipelineInv, ValidRowsBacked, RegistryKept
<1> QED
  BY <1>3, <1>6, <1>7, <1>8, <1>9 DEF PipelineInv

LEMMA ExitKeeps ==
  ASSUME TypeOK, PipelineInv, Exit
  PROVE  TypeOK' /\ PipelineInv'
<1>1. /\ ProcessEnds /\ run' = Idle /\ outcome' = outcome
      /\ outcome \in Seq(Outcomes) /\ Len(outcome) \in Nat /\ count = Len(outcome)
  BY DEF Exit, TypeOK, PipelineInv, ClockInv, Outcomes
<1> QED
  BY <1>1, ProcessEndKeeps

LEMMA CrashKeeps ==
  ASSUME TypeOK, PipelineInv, Crash
  PROVE  TypeOK' /\ PipelineInv'
<1>1. /\ ProcessEnds /\ run' = Idle /\ outcome' = Append(outcome, "CRASHED")
      /\ outcome \in Seq(Outcomes) /\ Len(outcome) \in Nat /\ count = Len(outcome) + 1
  BY DEF Crash, Ends, TypeOK, PipelineInv, ClockInv, Outcomes
<1>2. /\ outcome' \in Seq(Outcomes) /\ Len(outcome') = Len(outcome) + 1
      /\ \A k \in 1..Len(outcome) : outcome'[k] = outcome[k]
  BY <1>1 DEF Outcomes
<1> QED
  BY <1>1, <1>2, ProcessEndKeeps

-----------------------------------------------------------------------------
(* The theorems *)

LEMMA InitPipeline == Init => TypeOK /\ PipelineInv
  BY DEF Init, TypeOK, PipelineInv, ClockInv, LineageInv, ProgressInv, VerifiedRestsOnSettled,
         ValidRowsBacked

LEMMA NextPipeline == TypeOK /\ PipelineInv /\ [Next]_vars => TypeOK' /\ PipelineInv'
<1> SUFFICES ASSUME TypeOK, PipelineInv, [Next]_vars
             PROVE  TypeOK' /\ PipelineInv'
  OBVIOUS
<1>1. CASE UNCHANGED vars
  BY <1>1 DEF vars, TypeOK, PipelineInv, ClockInv, LineageInv, ProgressInv, HasDerived,
     HasVerified, Rows, VerifiedRestsOnSettled, ValidRowsBacked, RegistryKept, process,
     Packets, Traces
<1>2. CASE Exit \/ Crash
  BY <1>2, ExitKeeps, CrashKeeps
<1>3. CASE Step /\ UNCHANGED process
  BY <1>3, InitKernelKeeps, LoopNodeKeeps, MapFlowKeeps, SynthesizeKeeps, LoopDoneKeeps,
     RegisterTraceKeeps, FreezeCheckKeeps, ValidateKeeps, VerifyKeeps, PromoteKeeps, FinishKeeps
  DEF Step
<1> QED
  BY <1>1, <1>2, <1>3, StartKeeps DEF Next

\* Every variable of the pipeline keeps its shape: rows of the registry and the
\* ledger are well formed and the driver is idle or in a stage of run.
THEOREM PipelineTypeCorrect == Spec => []TypeOK
  BY InitPipeline, NextPipeline, PTL DEF Spec

\* "No artifact may transition INFERRED -> VERIFIED without provenance closure": for
\* inputs of any length, and wherever the process dies, every VERIFIED artifact has
\* only parents that are OBSERVED or VERIFIED, although can_promote asks less.
THEOREM ProvenanceCorrect == Spec => []VerifiedRestsOnSettled
<1>1. PipelineInv => VerifiedRestsOnSettled
  BY DEF PipelineInv
<1> QED
  BY <1>1, InitPipeline, NextPipeline, PTL DEF Spec

\* A ledger row that says a run was valid belongs to a run that returned SUCCESS, and
\* the registry holds its verified graph and specification: for ever when it is a
\* file, and until the process ends when it is in memory.
THEOREM LedgerCorrect == Spec => []ValidRowsBacked
<1>1. PipelineInv => ValidRowsBacked
  BY DEF PipelineInv
<1> QED
  BY <1>1, InitPipeline, NextPipeline, PTL DEF Spec
=============================================================================

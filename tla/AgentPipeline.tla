--------------------------- MODULE AgentPipeline ----------------------------
(***************************************************************************)
(* The agent chain's pipeline (src/src/pi_agent_chain/pipeline.py): a      *)
(* driver takes captured traffic through the nodes of a DAG, each of them  *)
(* mediated by the governance kernel, through four validators, and, once   *)
(* the specification is verified against the live API, promotes what it    *)
(* derived.  Artifacts are rows of a content-addressed append-only         *)
(* registry, the outcome of a run is a row of the state ledger.            *)
(*                                                                         *)
(* A driver runs one trace at a time.  The ledger is a file.  The registry *)
(* is a database in memory unless the driver is given a path, and then it  *)
(* ends with the process, by an exit between runs or by a crash between    *)
(* any two commits.                                                        *)
(***************************************************************************)
EXTENDS Integers, Sequences, FiniteSets, FiniteSetsExt

CONSTANTS Traffic,    \* contents of a captured request and response
          Freezable,  \* those whose fields all reach the confidence threshold
          FieldsOf,   \* content -> number of fields the typer finds in it
          EndpointOf, \* content -> its method and endpoint template
          Inputs,     \* lists of traffic pairs handed to run
          MaxClaims,  \* bounds.max_quorum_claims
          MaxNodes,   \* bounds.max_fsm_nodes
          MaxRuns     \* bound: runs of the driver

ASSUME PipelineAssumption ==
    /\ Freezable \subseteq Traffic
    /\ FieldsOf \in [Traffic -> Nat]
    /\ Inputs \subseteq Seq(Traffic)
    /\ DOMAIN EndpointOf = Traffic
    /\ MaxClaims \in Nat /\ MaxNodes \in Nat /\ MaxRuns \in Nat

VARIABLES
    run,       \* the current run: [pc, input, state, i, passed]
    registry,  \* table artifacts, a set of rows
    ledger,    \* table execution_trace, in id order
    count,     \* runs started so far; the clock of captured_at
    outcome,   \* history: number of a run -> what run() returned
    registry_path,  \* where the registry lives
    opened     \* runs started before the current process made its driver

process == <<registry_path, opened>>
vars == <<run, registry, ledger, count, outcome, process>>

Idle == [pc |-> "idle"]

Init ==
    /\ run = Idle
    /\ registry = {}
    /\ ledger = << >>
    /\ count = 0
    /\ outcome = << >>
    /\ registry_path \in {":memory:", "file"}
    /\ opened = 0

-----------------------------------------------------------------------------
(* ArtifactRegistry *)

\* Ids are hashes of the content without its volatile fields: the same traffic
\* gives the same ids in every run.  Reports carry the trace id.
Packet(c) == <<"packet", c>>
Trace(c)  == <<"trace", c>>
Graph(in) == <<"graph", in>>
Spec_(in) == <<"spec", in>>
Report(gate) == <<gate, count>>

Packets(in) == {Packet(in[k]) : k \in DOMAIN in}
Traces(in)  == {Trace(in[k]) : k \in DOMAIN in}

derive_artifact(id, state, parents) ==
    [id |-> id, state |-> state, parents |-> parents, captured |-> count]

\* promote stores a copy with the new state and the original's capture time.
promote(row, state) == [row EXCEPT !.state = state]

Rows(id) == {row \in registry : row.id = id}

\* The rows _find_artifact_by_id may return: the scan is in descending order of
\* captured_at, and a row and its promoted copies tie.
find_artifact_by_id(id) ==
    {row \in Rows(id) : \A other \in Rows(id) : other.captured <= row.captured}

-----------------------------------------------------------------------------
(* ProvenanceValidator.can_promote.  Evidence references name parents. *)

Settled(row) == row.state \in {"OBSERVED", "VERIFIED"}

MaxAncestry == 20

\* The rows the closure walk meets: it does not go past settled ones.
Walk(row) ==
    LET W[d \in 0..MaxAncestry] ==
          IF d = 0 THEN {row}
          ELSE LET met == W[d-1]
                   open == {a \in met : ~Settled(a)}
               IN  met \cup UNION {find_artifact_by_id(p) : p \in UNION {a.parents : a \in open}}
    IN  W[MaxAncestry]

Closed(row) ==
    \A a \in Walk(row) :
        /\ a.state = "INFERRED" => a.parents # {}
        /\ ~Settled(a) => \A p \in a.parents : Rows(p) # {}

can_promote(row, state) ==
    state = "VERIFIED" /\ row.state = "INFERRED" =>
        row.parents # {} /\ (\A p \in row.parents : Rows(p) # {}) /\ Closed(row)

-----------------------------------------------------------------------------
(* GovernanceKernel *)

\* The transitions that ask for a worker's SUCCESS: the others are refused with
\* STATUS_MISMATCH, since the gate is asked before the worker has run.
CANONICAL_TRANSITIONS ==
    {<<"REGISTERED", "SCOPED">>, <<"SCOPED", "CAPTURE_READY">>,
     <<"CAPTURE_READY", "CAPTURING">>, <<"CAPTURING", "NORMALIZING">>,
     <<"NORMALIZING", "EXTRACTING">>, <<"EXTRACTING", "ASSEMBLING_IR">>,
     <<"ASSEMBLING_IR", "GENERATING_SPEC">>, <<"GENERATING_SPEC", "COMPLETED">>}

\* Workers with an output schema; the payload must be an object.
WORKER_OUTPUT_SCHEMAS ==
    {"acquisition_gateway", "structural_extractor", "semantic_typer",
     "flow_mapper", "spec_synthesizer", "verifier"}

\* A worker's output never carries a key of the objective's scope.
OutputKeys == {"payload", "type"}
ScopeKeys  == {"domain", "mode", "trace_id"}

\* Status of the response; the state advances on SUCCESS alone.
execute(worker, state, target, output) ==
    IF <<state, target>> \notin CANONICAL_TRANSITIONS THEN "BRANCH_OVERFLOW"
    ELSE IF output = "raises" THEN "FAILURE"
    ELSE IF worker \in WORKER_OUTPUT_SCHEMAS /\ output # "object" THEN "INVALID_OUTPUT"
    ELSE IF ScopeKeys \cap OutputKeys # {} THEN "OBJECTIVE_DRIFT_DETECTED"
    ELSE "SUCCESS"

-----------------------------------------------------------------------------
(* PipelineDriver.run *)

Ends(status) ==
    /\ run' = Idle
    /\ outcome' = Append(outcome, status)

log_trace(valid) == ledger' = Append(ledger, [run |-> count, valid |-> valid])

halt == Ends("HALTED") /\ log_trace(FALSE)

Start(in) ==
    /\ run = Idle /\ count < MaxRuns
    /\ count' = count + 1
    /\ run' = [pc |-> "init", input |-> in, state |-> "REGISTERED", i |-> 1, passed |-> FALSE]
    /\ UNCHANGED <<registry, ledger, outcome>>

InitKernel ==
    /\ run.pc = "init"
    /\ IF /\ execute("runtime_orchestrator", run.state, "SCOPED", "none") = "SUCCESS"
          /\ execute("runtime_orchestrator", "SCOPED", "CAPTURE_READY", "none") = "SUCCESS"
         THEN /\ run' = [run EXCEPT !.pc = "acquire", !.state = "CAPTURE_READY"]
              /\ UNCHANGED <<ledger, outcome>>
         ELSE halt
    /\ UNCHANGED <<registry, count>>

\* The nodes that run once per packet: worker, state they lead to, next stage.
LoopStages == {"acquire", "extract", "type"}
LoopWorker == [acquire |-> "acquisition_gateway", extract |-> "structural_extractor",
               type |-> "semantic_typer"]
LoopTarget == [acquire |-> "CAPTURING", extract |-> "NORMALIZING", type |-> "EXTRACTING"]
LoopNext   == [acquire |-> "extract", extract |-> "type", type |-> "register"]

\* One packet; the acquisition stores it as OBSERVED.
LoopNode(output) ==
    /\ run.pc \in LoopStages
    /\ run.i <= Len(run.input)
    /\ IF execute(LoopWorker[run.pc], run.state, LoopTarget[run.pc], output) = "SUCCESS"
         THEN /\ run' = [run EXCEPT !.i = @ + 1, !.state = LoopTarget[run.pc]]
              /\ registry' = IF run.pc = "acquire"
                    THEN registry \cup {derive_artifact(Packet(run.input[run.i]), "OBSERVED", {})}
                    ELSE registry
              /\ UNCHANGED <<ledger, outcome>>
         ELSE halt /\ UNCHANGED registry
    /\ UNCHANGED count

LoopDone ==
    /\ run.pc \in LoopStages
    /\ run.i > Len(run.input)
    /\ run' = [run EXCEPT !.pc = LoopNext[run.pc], !.i = 1]
    /\ UNCHANGED <<registry, ledger, count, outcome>>

\* The traces are stored one commit each; all packets are parents of each.
RegisterTrace ==
    /\ run.pc = "register"
    /\ IF run.i <= Len(run.input)
         THEN /\ registry' = registry \cup
                    {derive_artifact(Trace(run.input[run.i]), "INFERRED", Packets(run.input))}
              /\ run' = [run EXCEPT !.i = @ + 1]
         ELSE run' = [run EXCEPT !.pc = "freeze"] /\ UNCHANGED registry
    /\ UNCHANGED <<ledger, count, outcome>>

\* The fail-closed check returns without a ledger row.
FreezeCheck ==
    /\ run.pc = "freeze"
    /\ IF \A k \in DOMAIN run.input : run.input[k] \in Freezable
         THEN run' = [run EXCEPT !.pc = "auth"] /\ UNCHANGED outcome
         ELSE Ends("UNFROZEN")
    /\ UNCHANGED <<registry, ledger, count>>

\* Every trace row of the registry is a claim per field, those of earlier runs
\* and the promoted copies too.
TraceRows == {row \in registry : row.id[1] = "trace"}
Claims == MapThenSumSet(LAMBDA row : FieldsOf[row.id[2]], TraceRows)

\* Severities of the rules over the machine's edges: too many (CRITICAL), too deep
\* (CRITICAL), too many from one node (ERROR), seen five times and never replayed
\* (WARNING).  Edges join different endpoints, in an order that depends on the
\* second each packet was captured in.
EdgeSeverities(endpoints) ==
    IF Cardinality(endpoints) < 2 THEN {{}} ELSE SUBSET {"WARNING", "ERROR", "CRITICAL"}

\* Severities the validators may report.  The auth validator has no CRITICAL
\* rule.  In a first run each path has one claim and the entropy cannot grow; with
\* rows of other runs agreeing claims are merged, and it may.
Severities(gate) ==
    CASE gate = "auth" -> {{}, {"ERROR"}}
      [] gate = "fsm" ->
           LET endpoints == {EndpointOf[run.input[k]] : k \in DOMAIN run.input}
           IN  {(IF Cardinality(endpoints) > MaxNodes THEN {"CRITICAL"} ELSE {}) \cup e :
                  e \in EdgeSeverities(endpoints)}
      [] gate = "quorum" ->
           {(IF Claims > MaxClaims THEN {"CRITICAL"} ELSE {}) \cup e :
              e \in IF \E row \in TraceRows : row.captured < count THEN {{}, {"ERROR"}} ELSE {{}}}
      [] gate = "entropy" -> {{}, {"ERROR"}, {"CRITICAL"}}

Halting(gate) == IF gate \in {"quorum", "entropy"} THEN {"CRITICAL", "ERROR"} ELSE {"CRITICAL"}

GateNext == [auth |-> "fsm", fsm |-> "quorum", quorum |-> "entropy", entropy |-> "map"]
ReportParents(gate) ==
    CASE gate = "auth" -> Traces(run.input)
      [] gate = "fsm" -> Traces(run.input) \cup {Report("auth")}
      [] gate = "quorum" -> Traces(run.input) \cup {Report("auth"), Report("fsm")}
      [] gate = "entropy" -> {Report("quorum"), Report("fsm")}

\* A machine is INFERRED, or CONTESTED when any rule was violated; the reports have
\* no state of their own and count as OBSERVED.
ReportState(gate, severities) ==
    CASE gate # "fsm" -> "OBSERVED"
      [] gate = "fsm" /\ severities = {} -> "INFERRED"
      [] gate = "fsm" /\ severities # {} -> "CONTESTED"

\* A CRITICAL machine makes the driver read auth_report.passed, which
\* the report does not have: run raises.
Validate(severities) ==
    /\ run.pc \in DOMAIN GateNext
    /\ severities \in Severities(run.pc)
    /\ IF severities \cap Halting(run.pc) # {}
         THEN /\ IF run.pc = "fsm" THEN Ends("RAISED") /\ UNCHANGED ledger ELSE halt
              /\ UNCHANGED registry
         ELSE /\ registry' = registry \cup
                   {derive_artifact(Report(run.pc), ReportState(run.pc, severities),
                                    ReportParents(run.pc))}
              /\ run' = [run EXCEPT !.pc = GateNext[run.pc]]
              /\ UNCHANGED <<ledger, outcome>>
    /\ UNCHANGED count

MapFlow(output) ==
    /\ run.pc = "map"
    /\ IF execute("flow_mapper", run.state, "ASSEMBLING_IR", output) = "SUCCESS"
         THEN /\ run' = [run EXCEPT !.pc = "synthesize", !.state = "ASSEMBLING_IR"]
              /\ registry' = registry \cup
                    {derive_artifact(Graph(run.input), "INFERRED", Traces(run.input))}
              /\ UNCHANGED <<ledger, outcome>>
         ELSE halt /\ UNCHANGED registry
    /\ UNCHANGED count

Synthesize(output) ==
    /\ run.pc = "synthesize"
    /\ IF execute("spec_synthesizer", run.state, "GENERATING_SPEC", output) = "SUCCESS"
         THEN /\ run' = [run EXCEPT !.pc = "verify", !.state = "GENERATING_SPEC"]
              /\ registry' = registry \cup
                    {derive_artifact(Spec_(run.input), "INFERRED",
                                     Traces(run.input) \cup {Graph(run.input)})}
              /\ UNCHANGED <<ledger, outcome>>
         ELSE halt /\ UNCHANGED registry
    /\ UNCHANGED count

\* The live API confirms every endpoint, or not.
Verify(output, passed) ==
    /\ run.pc = "verify"
    /\ IF execute("verifier", run.state, "COMPLETED", output) = "SUCCESS"
         THEN /\ run' = [run EXCEPT !.pc = "promote", !.state = "COMPLETED", !.i = 1, !.passed = passed]
              /\ UNCHANGED <<ledger, outcome>>
         ELSE halt
    /\ UNCHANGED <<registry, count>>

\* Mutant: the specification first.
PromotionsTopDown(r) ==
    IF r.passed
      THEN <<Spec_(r.input), Graph(r.input)>> \o [k \in DOMAIN r.input |-> Trace(r.input[k])]
      ELSE <<Spec_(r.input)>>

\* Bottom-up: traces, graph, specification; a contested specification alone.
Promotions(r) ==
    IF r.passed
      THEN [k \in DOMAIN r.input |-> Trace(r.input[k])] \o <<Graph(r.input), Spec_(r.input)>>
      ELSE <<Spec_(r.input)>>

\* The artifact the run derived, as it was before any promotion.
Derived(id) ==
    CHOOSE row \in Rows(id) : row.captured = count /\ row.state = "INFERRED"

Promote ==
    /\ run.pc = "promote"
    /\ run.i <= Len(Promotions(run))
    /\ LET row   == Derived(Promotions(run)[run.i])
           state == IF run.passed THEN "VERIFIED" ELSE "CONTESTED"
       IN  IF can_promote(row, state)
             THEN /\ registry' = registry \cup {promote(row, state)}
                  /\ run' = [run EXCEPT !.i = @ + 1]
                  /\ UNCHANGED <<ledger, outcome>>
             ELSE halt /\ UNCHANGED registry
    /\ UNCHANGED count

\* Mutant: the outcome is logged before the promotions are committed.
FinishBeforePromoting ==
    /\ run.pc = "promote"
    /\ log_trace(run.passed)
    /\ Ends(IF run.passed THEN "SUCCESS" ELSE "VERIFICATION_FAILURE")
    /\ UNCHANGED <<registry, count>>

\* The replay check compares a passed trace with itself: no mutation, no violation.
Finish ==
    /\ run.pc = "promote"
    /\ run.i > Len(Promotions(run))
    /\ log_trace(run.passed)
    /\ Ends(IF run.passed THEN "SUCCESS" ELSE "VERIFICATION_FAILURE")
    /\ UNCHANGED <<registry, count>>

\* The end of the process: the next one makes a driver and a registry of its own.
ProcessEnds ==
    /\ registry' = IF registry_path = "file" THEN registry ELSE {}
    /\ opened' = count
    /\ UNCHANGED <<ledger, count, registry_path>>

\* Between two runs.
Exit ==
    /\ run = Idle /\ opened < count
    /\ ProcessEnds
    /\ UNCHANGED <<run, outcome>>

\* Between two commits.
Crash ==
    /\ run # Idle
    /\ Ends("CRASHED")
    /\ ProcessEnds

-----------------------------------------------------------------------------
Step ==
    \/ InitKernel
    \/ \E output \in {"object", "raises"} :
          LoopNode(output) \/ MapFlow(output) \/ Synthesize(output)
    \/ LoopDone
    \/ RegisterTrace
    \/ FreezeCheck
    \/ \E severities \in SUBSET {"WARNING", "ERROR", "CRITICAL"} : Validate(severities)
    \/ \E output \in {"object", "raises"}, passed \in BOOLEAN : Verify(output, passed)
    \/ Promote
    \/ Finish

Next ==
    \/ ((\E in \in Inputs : Start(in)) \/ Step) /\ UNCHANGED process
    \/ Exit
    \/ Crash

Spec == Init /\ [][Next]_vars

-----------------------------------------------------------------------------
(* Properties *)

\* "No artifact may transition INFERRED -> VERIFIED without provenance closure"
\* (provenance_validator.py:6): whatever is VERIFIED rests on parents that are OBSERVED
\* or VERIFIED themselves, also after a crash in the middle of the promotions.
VerifiedRestsOnSettled ==
    \A row \in registry : row.state = "VERIFIED" =>
        \A p \in row.parents : \E a \in Rows(p) : Settled(a)

\* The registry that a run wrote to is still there: it is a file, or the process that
\* ran it is alive.
RegistryKept(r) == registry_path = "file" \/ r > opened

\* A valid row of the ledger belongs to a run that returned SUCCESS, and, as long as
\* its registry is there, to a specification and a graph the run derived and verified.
\* The two databases are written by separate commits.
ValidRowsBacked ==
    \A k \in DOMAIN ledger : ledger[k].valid =>
        /\ outcome[ledger[k].run] = "SUCCESS"
        /\ RegistryKept(ledger[k].run) =>
              \A kind \in {"graph", "spec"} :
                 \E row \in registry : /\ row.id[1] = kind /\ row.state = "VERIFIED"
                                       /\ row.captured = ledger[k].run

\* The driver takes "an array of [raw_request, raw_response] pairs" (cli.py:39): the
\* kernel never refuses a transition of a run over a list of pairs.
NoTransitionRefused ==
    run.pc \in LoopStages /\ run.i <= Len(run.input) =>
        <<run.state, LoopTarget[run.pc]>> \in CANONICAL_TRANSITIONS

-----------------------------------------------------------------------------
(* Types, and the inductive strengthening used by the proofs. *)

Gates == {"auth", "fsm", "quorum", "entropy"}

Ids == ({"packet", "trace"} \X Traffic) \cup ({"graph", "spec"} \X Inputs) \cup (Gates \X Nat)

Row == [id : Ids, state : {"OBSERVED", "INFERRED", "VERIFIED", "CONTESTED"},
        parents : SUBSET Ids, captured : Nat]

\* The stages of a run, from its first packet on.
FromMapped     == {"synthesize", "verify", "promote"}
FromRegistered == FromMapped \cup Gates \cup {"freeze", "map"}
FromAcquired   == FromRegistered \cup {"extract", "type", "register"}

Run == [pc : FromAcquired \cup {"init", "acquire"}, input : Inputs,
        state : {"REGISTERED", "SCOPED", "CAPTURE_READY", "CAPTURING", "NORMALIZING",
                 "EXTRACTING", "ASSEMBLING_IR", "GENERATING_SPEC", "COMPLETED"},
        i : Nat \ {0}, passed : BOOLEAN]

\* Every variable has the shape the driver, the registry or the ledger gives it.
TypeOK ==
    /\ run \in {Idle} \cup Run
    /\ registry \subseteq Row
    /\ ledger \in Seq([run : Nat, valid : BOOLEAN])
    /\ count \in Nat
    /\ outcome \in Seq({"HALTED", "UNFROZEN", "RAISED", "SUCCESS", "VERIFICATION_FAILURE",
                        "CRASHED"})
    /\ registry_path \in {":memory:", "file"}
    /\ opened \in Nat

\* Runs are numbered by the clock: the current one has no outcome yet, and neither
\* the registry nor the ledger knows of a later one.
ClockInv ==
    /\ run = Idle => count = Len(outcome)
    /\ run # Idle => count = Len(outcome) + 1
    /\ \A row \in registry : row.captured <= count
    /\ \A k \in DOMAIN ledger : ledger[k].run \in 1..Len(outcome)

\* The parents of what the current run derived follow from its input.
LineageInv ==
    run # Idle =>
        \A row \in registry : row.captured = count =>
            /\ row.id[1] = "trace" => row.parents = Packets(run.input)
            /\ row.id[1] = "graph" => row.parents = Traces(run.input)
            /\ row.id[1] = "spec" => row.parents = Traces(run.input) \cup {Graph(run.input)}

HasDerived(id) == \E row \in Rows(id) : row.captured = count /\ row.state = "INFERRED"
HasVerified(id) == \E row \in Rows(id) : row.captured = count /\ row.state = "VERIFIED"

\* What the current run has stored by the stage it is in.
ProgressInv ==
    run # Idle =>
        /\ run.pc = "init" => run.i = 1
        /\ \A k \in DOMAIN run.input :
              run.pc \in FromAcquired \/ (run.pc = "acquire" /\ k < run.i) =>
                  \E row \in Rows(Packet(run.input[k])) : row.state = "OBSERVED"
        /\ \A k \in DOMAIN run.input :
              run.pc \in FromRegistered \/ (run.pc = "register" /\ k < run.i) =>
                  HasDerived(Trace(run.input[k]))
        /\ run.pc \in FromMapped => HasDerived(Graph(run.input))
        /\ run.pc \in {"verify", "promote"} => HasDerived(Spec_(run.input))
        /\ run.pc = "promote" /\ run.passed =>
              \A k \in DOMAIN Promotions(run) : k < run.i => HasVerified(Promotions(run)[k])

PipelineInv ==
    ClockInv /\ LineageInv /\ ProgressInv /\ VerifiedRestsOnSettled /\ ValidRowsBacked
=============================================================================

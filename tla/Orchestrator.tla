----------------------------- MODULE Orchestrator -----------------------------
(***************************************************************************)
(* PiOrchestrator.execute_goal for one goal: the gates in their order, the *)
(* compilation of a chain of agents, the chain engine or the single route, *)
(* and the outcome.  Every agent is consulted through the consensus gate.  *)
(* Three parts of the code read the same environment variable              *)
(* PI_ORCHESTRATOR_STRICT_MODE in three ways (CoreStrict, ChainStrict and  *)
(* GateStrict below), which is what makes the outcome hard to predict.     *)
(***************************************************************************)
EXTENDS ConsensusGate, Sequences

CONSTANTS Targets,        \* registered agents a single route leads to
          ChainAgents,    \* agents a caller or a goal text strings together
          MaxSteps        \* longest such chain

ASSUME AgentsAssumption == Targets \cup ChainAgents \subseteq AgentNames /\ MaxSteps \in Nat

VARIABLES
    env,        \* PI_ORCHESTRATOR_STRICT_MODE: "unset", "true", "TRUE" or "false"
    config,     \* what the configuration files say when it is unset
    defensive,  \* PI_ORCHESTRATOR_DEFENSIVE_ONLY: "false", "true" or "TRUE"
    payload,    \* the context holds a command or code
    unsafe,     \* what of it the shields object to
    injected,   \* the context holds mock_consensus_runs
    pc,         \* next gate or stage of execute_goal
    spend,      \* what the spend hunter answered
    chain,      \* compiled chain, <<>> when a single route handles the goal
    target,     \* agent the router resolved
    step,       \* chain step to run next
    ran,        \* agents consulted so far
    rows,       \* step traces in the state ledger
    worst,      \* largest risk on a chain receipt
    outcome     \* the answer: success and risk

vars == <<env, config, defensive, payload, unsafe, injected, pc, spend, chain, target,
          step, ran, rows, worst, outcome>>
input == <<env, config, defensive, payload, unsafe, injected>>
work == <<chain, target, step, ran, rows, worst>>

NoOutcome == [success |-> FALSE, risk |-> -1]
NoRoute == "PiMasterGeneralistFallback"
Ended == {"returned", "raised"}

CoreStrict == IF env = "unset" THEN config ELSE env \in {"true", "TRUE"}
ChainStrict == env # "false"
GateStrict == env = "true"

\* Playbooks: the agents a keyword of the goal strings together.
Templates ==
    {<<"PiOracleDivergenceAudit", "PiGasGuzzlerDetector", "PiPublisherDispatch">>,
     <<"PiReentrancySentry", "PiAssemblyLethalWeapons", "PiArithmeticAuditor">>,
     <<"PiAccessControlShadow", "PiApiAuthHardcodedTokenSentry", "PiZeroTrustExecutionDomain">>,
     <<"PiERC4626VaultGuard", "PiStorageLayoutDrift", "PiToPrdValidator">>,
     <<"PiNginxReverseProxyHeaderSentry", "PiDockerComposeSecuritySentry",
       "PiDockerSocketPrivilegeSentry">>,
     <<"PiLLMHallucinationDetector", "PiPromptLeakBuster", "PiLLMPromptEgressLeakDetector">>,
     <<"PiGithubActionsUnpinnedVersion", "PiGitSafetyGuardrail", "PiChangelogAuditor">>,
     <<"PiZKNonPrimeFieldRangeSentry", "PiZKSignalUnconstrainedConstraint",
       "PiZKUnusedConstraintVariables">>,
     <<"PiRustSolanaAccountDataValidation", "PiRustSolanaCPIInstructionSentry",
       "PiRustSolanaOwnerVerificationGuard">>,
     <<"PiMockDataTaintingSentry", "PiDatabaseMigrationUnindexedSentry", "PiTddMockingSanityChecker">>,
     <<"PiWebVulnScanner", "PiSelfHealingPatchAgent", "PiDeploymentSafetyGuard">>,
     <<"PiCloudCostAnalyzer", "PiIdleResourceSentry", "PiBudgetAnomalyGuard">>,
     <<"PiAPIRateLimitSentry", "PiApiAuthHardcodedTokenSentry", "PiEndpointAbuseGuard">>,
     <<"PiSlowQueryDetector", "PiSQLInjectionSentry", "PiIndexRecommendationEngine">>,
     <<"PiDockerImageScanner", "PiDockerComposeSecuritySentry", "PiContainerEscapeDetector">>,
     <<"PiGithubActionsUnpinnedVersion", "PiGitSecretLeakSentry", "PiPipelineIntegrityAuditor">>,
     <<"PiNPMDependencyVulnScanner", "PiGitSecScanner", "PiTreeShakingOptimizer">>,
     <<"PiLLMOutputSanitizer", "PiLLMHallucinationDetector", "PiLLMPromptEgressLeakDetector">>,
     <<"PiDataFlowPrivacyMapper", "PiSensitiveDataScanner", "PiAutomatedAnonymizer">>,
     <<"PiSensitiveLogLeakSentry", "PiGitSecretEntropyLeakSentry", "PiStructuredLoggingEnforcer">>,
     <<"PiIAMOverPermissionSentry", "PiAccessControlShadow", "PiLeastPrivilegeRemediator">>,
     <<"PiDocsOutdatedChecker", "PiReadmeValidator", "PiAutoDocsGenerator">>,
     <<"PiMemoryLeakDetector", "PiHotPathAllocationAuditor", "PiBottleneckOptimizer">>,
     <<"PiMobilePermissionSentry", "PiAppDataLeakDetector", "PiRuntimeHardeningGuard">>,
     <<"PiNetworkTrafficSentry", "PiDDoSPatternDetector", "PiTrafficOptimizer">>,
     <<"PiBackupIntegritySentry", "PiRecoveryTimeAuditor", "PiAutomatedRestoreTester">>,
     <<"PiAccessibilityScanner", "PiContrastRatioAuditor", "PiAutoRemediationEngine">>,
     <<"PiHardcodedSecretDetector", "PiGitSecretLeakSentry", "PiAutomatedRotationEngine">>,
     <<"PiTerraformDriftDetector", "PiTerraformStateCredentialSentry",
       "PiInfrastructureComplianceAuditor">>,
     <<"PiLighthouseAuditor", "PiBundleSizeSentry", "PiCoreWebVitalsOptimizer">>,
     <<"PiMagicNumberScanner", "PiHardcodedSecretDetector", "PiApiReverseEngineeredAuth",
       "PiGrpcProtocolInterceptor", "PiDependencyVulnScanner", "PiThreatModelGenerator",
       "PiRuntimeAnomalySentry", "PiSensitiveLogLeakSentry", "PiAuditLogTamperDetector">>,
     <<"PiMagicNumberScanner", "PiHardcodedSecretDetector", "PiApiReverseEngineeredAuth",
       "PiGrpcProtocolInterceptor", "PiDependencyVulnScanner", "PiThreatModelGenerator",
       "PiRuntimeAnomalySentry">>,
     <<"PiGrpcProtocolInterceptor", "PiGrpcWireProtocolInsecureSentry", "PiApiReverseEngineeredAuth",
       "PiRuntimeAnomalySentry", "PiThreatModelGenerator">>,
     <<"PiMagicNumberScanner", "PiHardcodedSecretDetector", "PiDependencyVulnScanner",
       "PiThreatModelGenerator">>}

\* Chains spelled out in the context or in the goal's text.
Explicit == UNION {[1..n -> ChainAgents] : n \in 2..MaxSteps}

\* Goal decomposition puts scanners before healers, auditors, and the publisher last.
precedence_order(a) ==
    CASE a = "PiPromptShield" -> 1
      [] a = "PiGitSecScanner" -> 2
      [] a = "PiSelfHealingPatchAgent" -> 3
      [] a = "PiPublisherDispatch" -> 5
      [] OTHER -> 4

Decomposed ==
    {c \in Explicit : \A i, j \in DOMAIN c :
        i < j => c[i] # c[j] /\ precedence_order(c[i]) <= precedence_order(c[j])}

compile_chain == Templates \cup Explicit \cup Decomposed

\* Agents that are given code as data: the chain engine's list, and the longer
\* one of execute_goal.
ChainExempt ==
    {"PiGitSecScanner", "PiSelfHealingPatchAgent", "PiReentrancySentry", "PiAccessControlVerifier",
     "PiFlashLoanDefender", "PiArithmeticAuditor", "PiDelegateCallGuard", "PiSignatureReplayScout",
     "PiBytecodeDecompiler", "PiVyperSecScanner", "PiSelfDestructHunter", "PiOracleDivergenceAudit",
     "PiTokenTaxDetector", "PiTxOriginSentry", "PiReadOnlyReentrancySentry",
     "PiUninitializedStateSentry", "PiShadowedVariableDetector", "PiBlockTimestampSentry",
     "PiStorageLayoutDrift", "PiERC4626VaultGuard", "PiCrossChainBridgeAuditor", "PiGasGuzzlerDetector",
     "PiAssemblyLethalWeapons", "PiLogicGatekeeper", "PiPhishingShield", "PiExternalContractGuard",
     "PiCentralizationSentry", "PiFloatingPragmaSentry", "PiUpgradeDefectDetector",
     "PiDoSGasLimitsSentry", "PiDeFiSlippageGuard", "PiConstantTimeAuditor", "PiMemoryZeroizeSentry",
     "PiDimensionalAnalysisSentry", "PiAgentToolExecutionGuard", "PiHotPathAllocationAuditor"}
CoreExempt == ChainExempt \cup
    {"PiCavemanTokenCompressor", "PiGrillMeQuestionnaire", "PiHandoffCheckpointSentry",
     "PiToPrdValidator", "PiToIssuesBreakdown", "PiTriageBugLabels", "PiZoomOutSystemExplainer",
     "PiDesignAnInterfaceValidator", "PiRequestRefactorPlanVerifier", "PiTddTestFileVerifier",
     "PiTddAssertionCoverage", "PiTddMockingSanityChecker", "PiGitSafetyGuardrail",
     "PiTypeScriptWizardryCheck", "PiArchitectureImportBoundarySentry", "PiDepreciationScanner",
     "PiDeadCodePruner", "PiMockDataTaintingSentry", "PiReadmeValidator", "PiChangelogAuditor",
     "PiAstDepthGuard", "PiUncontrolledRecursionSentry", "PiMagicNumberScanner",
     "PiErrorHandlingCatchAllGuard", "PiSemanticCommitMessageLinter"}

\* What run_with_consensus can answer for an agent, from real or injected runs.
Answers(a) ==
    IF injected THEN InjectedDecisions(a, GateStrict)
    ELSE UNION {Decisions(a, s, GateStrict) : s \in BOOLEAN}

\* The spend hunter's answers; execute_goal takes CACHE_HIT for PROCEED.
check_request == {"PROCEED", "BLOCKED_PROMPT_BLOAT", "BLOCKED_CIRCUIT_BREAKER"}

-----------------------------------------------------------------------------
Init ==
    /\ env \in {"unset", "true", "TRUE", "false"}
    /\ config \in IF env = "unset" THEN BOOLEAN ELSE {FALSE}
    /\ defensive \in {"false", "true", "TRUE"}
    /\ payload \in BOOLEAN
    /\ unsafe \in SUBSET (IF payload THEN {"command", "code"} ELSE {})
    /\ injected \in BOOLEAN
    /\ pc = "defensive"
    /\ spend = "PROCEED"
    /\ chain = <<>> /\ target = NoRoute
    /\ step = 1 /\ ran = 0 /\ rows = 0 /\ worst = 0
    /\ outcome = NoOutcome

Goto(stage) == pc' = stage /\ UNCHANGED outcome
Return(ok, risk) == pc' = "returned" /\ outcome' = [success |-> ok, risk |-> risk]
Raise == pc' = "raised" /\ UNCHANGED outcome

DefensiveGate ==
    /\ pc = "defensive"
    /\ IF defensive = "true" /\ payload THEN Return(FALSE, 100) ELSE Goto("injection")
    /\ UNCHANGED <<input, spend, work>>

InjectionGate ==
    /\ pc = "injection"
    /\ \E r \in {0, 90, 95, 99} :
           IF r >= 70 /\ CoreStrict THEN Return(FALSE, r) ELSE Goto("spend")
    /\ UNCHANGED <<input, spend, work>>

SpendGate ==
    /\ pc = "spend"
    /\ spend' \in check_request
    /\ IF spend' \in {"BLOCKED_PROMPT_BLOAT", "BLOCKED_SPEND_LIMIT_EXCEEDED"} /\ CoreStrict
       THEN Return(FALSE, 90)
       ELSE Goto("route")
    /\ UNCHANGED <<input, work>>

\* The target plays no part when a chain was compiled.
Route ==
    /\ pc = "route"
    /\ \/ chain' \in compile_chain /\ UNCHANGED target
       \/ target' \in Targets \cup {NoRoute} /\ UNCHANGED chain
    /\ Goto("command")
    /\ UNCHANGED <<input, spend, step, ran, rows, worst>>

CommandGate ==
    /\ pc = "command"
    /\ IF "command" \in unsafe /\ CoreStrict
       THEN \E r \in {80, 95} : Return(FALSE, r)
       ELSE Goto(IF chain # <<>> THEN "chain" ELSE "ast")
    /\ UNCHANGED <<input, spend, work>>

AstGate ==
    /\ pc = "ast"
    /\ IF target \notin CoreExempt /\ "code" \in unsafe /\ CoreStrict
       THEN Return(FALSE, 90)
       ELSE Goto("single")
    /\ UNCHANGED <<input, spend, work>>

\* Mutant of Egress: no gate on the way out.
EgressOpen(ok, risk) == Return(ok, risk)

Egress(ok, risk) == Return(ok /\ ~(CoreStrict /\ risk >= HighRisk), risk)

Fallback ==
    /\ pc = "single" /\ target = NoRoute
    /\ Egress(TRUE, 0)
    /\ UNCHANGED <<input, spend, work>>

\* The leak buster is asked once and directly; the curation pipeline publishes
\* through the consensus gate under the publisher's name.
Consult ==
    /\ pc = "single" /\ target # NoRoute
    /\ ran' = ran + 1
    /\ IF target = "PiPromptLeakBuster"
       THEN \E s \in BOOLEAN : \E o \in Outputs(target, s) : Egress(o.verdict = "pass", o.risk)
       ELSE \E d \in Answers(IF target = "NicheCurationPipelineChain"
                             THEN "PiPublisherDispatch" ELSE target) : Egress(d.success, d.risk)
    /\ UNCHANGED <<input, spend, chain, target, step, rows, worst>>

\* An exception on the single route leaves execute_goal, with or without a run.
ConsultRaises ==
    /\ pc = "single" /\ target # NoRoute
    /\ ran' \in {ran, ran + 1}
    /\ Raise
    /\ UNCHANGED <<input, spend, chain, target, step, rows, worst>>

-----------------------------------------------------------------------------
(* execute_chain *)

\* Mutant of ChainDeadline: the loop ends without marking the failure.
ChainDeadlineIgnored ==
    /\ pc = "chain"
    /\ Return(TRUE, worst)
    /\ UNCHANGED <<input, spend, work>>

\* The chain's time is up: a skipped receipt of risk 0 ends it.
ChainDeadline ==
    /\ pc = "chain"
    /\ Return(FALSE, worst)
    /\ UNCHANGED <<input, spend, work>>

\* Mutant of StepBlocked: no look at code inside a chain.
StepBlockedCommands ==
    \/ defensive # "false"
    \/ ChainStrict /\ "command" \in unsafe

\* The shields see the previous output under the context, the agent the context under
\* the output.  No output has a field that a shield or an input reads, so both come
\* to the caller's payload.
StepBlocked ==
    \/ defensive # "false"
    \/ ChainStrict /\ "command" \in unsafe
    \/ ChainStrict /\ "code" \in unsafe /\ chain[step] \notin ChainExempt

StepGate ==
    /\ pc = "chain" /\ StepBlocked
    /\ Return(FALSE, 100)
    /\ UNCHANGED <<input, spend, work>>

\* Mutant of StepStops: it reads the flag as the consensus gate does.
StepStopsExact(d) == ~d.success \/ (GateStrict /\ d.risk >= HighRisk)

StepStops(d) == ~d.success \/ (ChainStrict /\ d.risk >= HighRisk)

ChainStep ==
    /\ pc = "chain" /\ ~StepBlocked
    /\ ran' = ran + 1
    /\ rows' = rows + 1
    /\ \E d \in Answers(chain[step]) :
        /\ worst' = IF d.risk > worst THEN d.risk ELSE worst
        /\ IF StepStops(d)
           THEN Return(FALSE, worst') /\ UNCHANGED step
           ELSE IF step = Len(chain)
           THEN Return(TRUE, worst') /\ UNCHANGED step
           ELSE step' = step + 1 /\ Goto("chain")
    /\ UNCHANGED <<input, spend, chain, target>>

\* Mapping the input, the agent, or the ledger append of its trace raises.
StepRaises ==
    /\ pc = "chain" /\ ~StepBlocked
    /\ ran' \in {ran, ran + 1}
    /\ Return(FALSE, 100)
    /\ UNCHANGED <<input, spend, chain, target, step, rows, worst>>

Next ==
    \/ DefensiveGate \/ InjectionGate \/ SpendGate \/ Route \/ CommandGate \/ AstGate
    \/ Fallback \/ Consult \/ ConsultRaises
    \/ ChainDeadline \/ StepGate \/ ChainStep \/ StepRaises

Spec == Init /\ [][Next]_vars

-----------------------------------------------------------------------------
\* core.py, chain_engine.py, consensus.py: with the orchestrator strict, no exit
\* reports success for a goal whose reported risk is 80 or more, although the
\* chain exit has no gate of its own and the three parts read the flag apart.
StrictNeverPassesRisk == (CoreStrict /\ outcome.success) => ~(outcome.risk >= HighRisk)

\* chain_engine.py: a chain is reported as a success only when each of its agents
\* was consulted and each has its trace in the ledger.
ChainSuccessComplete ==
    (outcome.success /\ chain # <<>>) => ran = Len(chain) /\ rows = Len(chain)

\* shield.py, core.py, chain_engine.py: a strict orchestrator consults no agent
\* about a context with an unsafe command, forbidden code reaches only the agents
\* that take code as data, and a defensive-only orchestrator consults none about
\* any payload, although execute_goal skips its own code check for a chain.
PayloadsScreened ==
    /\ CoreStrict /\ "command" \in unsafe => ran = 0
    /\ defensive = "true" /\ payload => ran = 0
    /\ CoreStrict /\ "code" \in unsafe /\ ran > 0 =>
           IF chain # <<>> THEN \A i \in 1..ran : chain[i] \in ChainExempt ELSE target \in CoreExempt

\* chain_engine.py: once a receipt carries a risk of 80 or more, a strict
\* orchestrator consults no further agent, so nothing is published after an alarm.
NoAgentAfterAlarm == [][CoreStrict /\ worst >= HighRisk => ran' = ran]_vars
=============================================================================

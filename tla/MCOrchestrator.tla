---------------------------- MODULE MCOrchestrator ----------------------------
(* Targets: the agents execute_goal or the gate names, and of the others one *)
(* per distinct set of outputs and per side of the exemption list, so that   *)
(* every registered agent behaves like one of them.  Chains: a scanner, its  *)
(* healer, an auditor that is not exempt in chains, and the publisher.       *)
EXTENDS Orchestrator

MCTargets ==
    {"PiGitSecScanner", "PiPromptLeakBuster", "NicheCurationPipelineChain", "PiPublisherDispatch",
     "PiMempoolSentry", "PiArbitrageGuard", "PiOracleSentry", "PiSelfHealingPatchAgent",
     "PiReentrancySentry", "PiBytecodeDecompiler", "PiTokenTaxDetector", "PiShadowedVariableDetector",
     "PiStorageLayoutDrift", "PiERC4626VaultGuard", "PiCrossChainBridgeAuditor",
     "PiReentrancyGuardSpec", "PiUniswapV3PoolSentry", "PiSolidityCompilerBugsSentry",
     "PiLLMHallucinationDetector", "PiSolidityReentrancyMutexSentry", "PiZKCircomDivisionSentry",
     "PiSolidityERC20TransferRecipientSentry", "PiSemanticSchemaRegistry",
     "PiSolidityConstantPragmaValidation", "PiRustSolanaSysvarClockVerification",
     "PiAgentToolExecutionGuard", "PiHotPathAllocationAuditor", "PiCavemanTokenCompressor",
     "PiTriageBugLabels", "PiTddMockingSanityChecker", "PiDepreciationScanner", "PiDeadCodePruner",
     "PiReadmeValidator", "PiChangelogAuditor", "PiAstDepthGuard", "PiMagicNumberScanner",
     "PiWebVulnScanner", "PiDeploymentSafetyGuard", "PiPipelineIntegrityAuditor", "PiCloudCostAnalyzer",
     "PiDockerImageScanner", "PiContainerEscapeDetector", "PiLLMOutputSanitizer",
     "PiDataFlowPrivacyMapper", "PiSensitiveDataScanner", "PiSensitiveLogLeakSentry",
     "PiStructuredLoggingEnforcer", "PiHardcodedSecretDetector", "PiIaCScanner",
     "PiDependencyVulnScanner", "PiCloudConfigAuditor", "PiRBACPermissionMapper",
     "PiEncryptionComplianceChecker", "PiSBOMValidator", "PiSupplyChainIntegrityChecker",
     "PiAPIOWASPScanner", "PiKubernetesSecurityAuditor", "PiZeroTrustVerifier",
     "PiCertificateRotationWatcher", "PiFirewallRuleAuditor", "PiAuditLogTamperDetector",
     "PiMisconfigPatternMatcher", "PiThreatModelGenerator", "PiSecretsManagerCompletenessChecker",
     "PiCodeSigningEnforcer", "PiDataRetentionPolicyEnforcer", "PiRuntimeAnomalySentry",
     "PiHipaaComplianceAuditor", "PiPciDssAuditor", "PiMobileSecurityAuditor",
     "PiBotDetectionEvasionSentry", "PiSshCertificateSecurityAuditor"}
MCChainAgents ==
    {"PiGitSecScanner", "PiSelfHealingPatchAgent", "PiReadmeValidator", "PiPublisherDispatch"}
=============================================================================

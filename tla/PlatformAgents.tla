--------------------------- MODULE PlatformAgents ---------------------------
(***************************************************************************)
(* The agents of registrations 15 to 25: models, pipelines, clouds and     *)
(* compliance.                                                             *)
(***************************************************************************)
EXTENDS AgentVerdicts

\* Registrations 15: PiLLMPairwiseAdversarialValidator to PiKubernetesRootExecutionLinter.
PiLLMPairwiseAdversarialValidator(s) == Strictly({80}, s)
PiLLMNegativeConstraintEvasion(s) == Strictly({75}, s)
PiLLMBase64EncodingDeobfuscator(s) == Strictly({85}, s)
PiLLMChainOfThoughtBypassSentry(s) == Strictly({70}, s)
PiLLMPromptEgressLeakDetector(s) == Strictly({90}, s)
PiLLMContextWindowDriftSentry(s) == Strictly({60}, s)
PiLLMRecursiveRefinementJailbreak(s) == Strictly({65}, s)
PiDockerSocketPrivilegeSentry(s) == Strictly({95}, s)
PiKubernetesRootExecutionLinter(s) == Strictly({80}, s)
Routes15(s) ==
    [PiLLMPairwiseAdversarialValidator |-> PiLLMPairwiseAdversarialValidator(s),
     PiLLMNegativeConstraintEvasion |-> PiLLMNegativeConstraintEvasion(s),
     PiLLMBase64EncodingDeobfuscator |-> PiLLMBase64EncodingDeobfuscator(s),
     PiLLMChainOfThoughtBypassSentry |-> PiLLMChainOfThoughtBypassSentry(s),
     PiLLMPromptEgressLeakDetector |-> PiLLMPromptEgressLeakDetector(s),
     PiLLMContextWindowDriftSentry |-> PiLLMContextWindowDriftSentry(s),
     PiLLMRecursiveRefinementJailbreak |-> PiLLMRecursiveRefinementJailbreak(s),
     PiDockerSocketPrivilegeSentry |-> PiDockerSocketPrivilegeSentry(s),
     PiKubernetesRootExecutionLinter |-> PiKubernetesRootExecutionLinter(s)]

\* Registrations 16: PiGitSecretEntropyLeakSentry to PiApiAuthHardcodedTokenSentry.
PiGitSecretEntropyLeakSentry(s) == Strictly({85}, s)
PiDockerComposePortExposureSentry(s) == Strictly({80}, s)
PiGithubActionsUnpinnedVersion(s) == Strictly({70}, s)
PiTerraformStateCredentialSentry(s) == Strictly({90}, s)
PiNginxReverseProxyHeaderSentry(s) == Strictly({65}, s)
PiDatabaseMigrationUnindexedSentry(s) == Strictly({60}, s)
PiApiAuthJWTNoneAlgorithmSentry(s) == Strictly({95}, s)
PiSemanticSchemaDynamicFieldCheck(s) == Strictly({65}, s)
PiApiAuthHardcodedTokenSentry(s) == Strictly({90}, s)
Routes16(s) ==
    [PiGitSecretEntropyLeakSentry |-> PiGitSecretEntropyLeakSentry(s),
     PiDockerComposePortExposureSentry |-> PiDockerComposePortExposureSentry(s),
     PiGithubActionsUnpinnedVersion |-> PiGithubActionsUnpinnedVersion(s),
     PiTerraformStateCredentialSentry |-> PiTerraformStateCredentialSentry(s),
     PiNginxReverseProxyHeaderSentry |-> PiNginxReverseProxyHeaderSentry(s),
     PiDatabaseMigrationUnindexedSentry |-> PiDatabaseMigrationUnindexedSentry(s),
     PiApiAuthJWTNoneAlgorithmSentry |-> PiApiAuthJWTNoneAlgorithmSentry(s),
     PiSemanticSchemaDynamicFieldCheck |-> PiSemanticSchemaDynamicFieldCheck(s),
     PiApiAuthHardcodedTokenSentry |-> PiApiAuthHardcodedTokenSentry(s)]

\* Registrations 17: PiGrpcWireProtocolInsecureSentry to PiToPrdValidator.
PiGrpcWireProtocolInsecureSentry(s) == Strictly({80}, s)
PiConstantTimeAuditor(s) == Strictly({95}, s)
PiMemoryZeroizeSentry(s) == Strictly({80}, s)
PiDimensionalAnalysisSentry(s) == Strictly({85}, s)
PiAgentToolExecutionGuard(s) == Strictly({100}, s)
PiHotPathAllocationAuditor(s) == Strictly({75}, s)
PiCavemanTokenCompressor(s) == {Clean}
PiGrillMeQuestionnaire(s) == Strictly({90}, s)
PiHandoffCheckpointSentry(s) == Strictly({80}, s)
PiToPrdValidator(s) == Strictly({85}, s)
Routes17(s) ==
    [PiGrpcWireProtocolInsecureSentry |-> PiGrpcWireProtocolInsecureSentry(s),
     PiConstantTimeAuditor |-> PiConstantTimeAuditor(s), PiMemoryZeroizeSentry |-> PiMemoryZeroizeSentry(s),
     PiDimensionalAnalysisSentry |-> PiDimensionalAnalysisSentry(s),
     PiAgentToolExecutionGuard |-> PiAgentToolExecutionGuard(s),
     PiHotPathAllocationAuditor |-> PiHotPathAllocationAuditor(s),
     PiCavemanTokenCompressor |-> PiCavemanTokenCompressor(s), PiGrillMeQuestionnaire |-> PiGrillMeQuestionnaire(s),
     PiHandoffCheckpointSentry |-> PiHandoffCheckpointSentry(s), PiToPrdValidator |-> PiToPrdValidator(s)]

\* Registrations 18: PiToIssuesBreakdown to PiTypeScriptWizardryCheck.
PiToIssuesBreakdown(s) == Strictly({75}, s)
PiTriageBugLabels(s) == Strictly({Unscored}, s)
PiZoomOutSystemExplainer(s) == Strictly({Unscored}, s)
PiDesignAnInterfaceValidator(s) == Strictly({Unscored}, s)
PiRequestRefactorPlanVerifier(s) == Strictly({Unscored}, s)
PiTddTestFileVerifier(s) == Strictly({Unscored}, s)
PiTddAssertionCoverage(s) == Strictly({Unscored}, s)
PiTddMockingSanityChecker(s) == Strictly({70}, s)
PiGitSafetyGuardrail(s) == Strictly({100}, s)
PiTypeScriptWizardryCheck(s) == Strictly({75}, s)
Routes18(s) ==
    [PiToIssuesBreakdown |-> PiToIssuesBreakdown(s), PiTriageBugLabels |-> PiTriageBugLabels(s),
     PiZoomOutSystemExplainer |-> PiZoomOutSystemExplainer(s),
     PiDesignAnInterfaceValidator |-> PiDesignAnInterfaceValidator(s),
     PiRequestRefactorPlanVerifier |-> PiRequestRefactorPlanVerifier(s),
     PiTddTestFileVerifier |-> PiTddTestFileVerifier(s), PiTddAssertionCoverage |-> PiTddAssertionCoverage(s),
     PiTddMockingSanityChecker |-> PiTddMockingSanityChecker(s), PiGitSafetyGuardrail |-> PiGitSafetyGuardrail(s),
     PiTypeScriptWizardryCheck |-> PiTypeScriptWizardryCheck(s)]

\* Registrations 19: PiArchitectureImportBoundarySentry to PiMagicNumberScanner.
PiArchitectureImportBoundarySentry(s) == Strictly({90}, s)
PiDepreciationScanner(s) == Strictly({60}, s)
PiDeadCodePruner(s) == Strictly({50}, s)
PiMockDataTaintingSentry(s) == Strictly({85}, s)
PiReadmeValidator(s) == Strictly({40}, s)
PiChangelogAuditor(s) == Strictly({45}, s)
PiAstDepthGuard(s) == Strictly({65}, s)
PiUncontrolledRecursionSentry(s) == Strictly({80}, s)
PiMagicNumberScanner(s) == Strictly({55}, s)
Routes19(s) ==
    [PiArchitectureImportBoundarySentry |-> PiArchitectureImportBoundarySentry(s),
     PiDepreciationScanner |-> PiDepreciationScanner(s), PiDeadCodePruner |-> PiDeadCodePruner(s),
     PiMockDataTaintingSentry |-> PiMockDataTaintingSentry(s), PiReadmeValidator |-> PiReadmeValidator(s),
     PiChangelogAuditor |-> PiChangelogAuditor(s), PiAstDepthGuard |-> PiAstDepthGuard(s),
     PiUncontrolledRecursionSentry |-> PiUncontrolledRecursionSentry(s),
     PiMagicNumberScanner |-> PiMagicNumberScanner(s)]

\* Registrations 20: PiErrorHandlingCatchAllGuard to PiDockerImageScanner.
PiErrorHandlingCatchAllGuard(s) == Strictly({70}, s)
PiSemanticCommitMessageLinter(s) == Strictly({50}, s)
PiWebVulnScanner(s) == Always({50, 80, 85})
PiDeploymentSafetyGuard(s) == Always({75, 90})
PiPipelineIntegrityAuditor(s) == Always({65, 90})
PiDockerImageScanner(s) ==
    Summed({15 * a + 20 * b + 25 * c + 30 * d : a \in Once, b, c, d \in Often})
Routes20(s) ==
    [PiErrorHandlingCatchAllGuard |-> PiErrorHandlingCatchAllGuard(s),
     PiSemanticCommitMessageLinter |-> PiSemanticCommitMessageLinter(s), PiWebVulnScanner |-> PiWebVulnScanner(s),
     PiDeploymentSafetyGuard |-> PiDeploymentSafetyGuard(s),
     PiPipelineIntegrityAuditor |-> PiPipelineIntegrityAuditor(s), PiCloudCostAnalyzer |-> GenericStubAgent(s),
     PiIdleResourceSentry |-> GenericStubAgent(s), PiBudgetAnomalyGuard |-> GenericStubAgent(s),
     PiAPIRateLimitSentry |-> GenericStubAgent(s), PiEndpointAbuseGuard |-> GenericStubAgent(s),
     PiSlowQueryDetector |-> GenericStubAgent(s), PiSQLInjectionSentry |-> GenericStubAgent(s),
     PiIndexRecommendationEngine |-> GenericStubAgent(s), PiDockerImageScanner |-> PiDockerImageScanner(s)]

\* Registrations 21: PiContainerEscapeDetector to PiAppDataLeakDetector.
PiContainerEscapeDetector(s) == Summed({20 * a + 25 * b + 35 * c + 40 * d : a, b, c, d \in Once})
PiLLMOutputSanitizer(s) == Summed({45 * a + 35 * b : a \in Once, b \in Often})
PiDataFlowPrivacyMapper(s) == Summed({40 * a : a \in Often})
PiSensitiveDataScanner(s) == Summed({20 * a + 45 * b + 50 * c : a, b, c \in Once})
PiAutomatedAnonymizer(s) == {Clean}
PiSensitiveLogLeakSentry(s) == Summed({40 * a + 45 * b + 50 * c : a, b, c \in Once})
PiStructuredLoggingEnforcer(s) == {Out(p <= 10, p, p > 0) : p \in {Cap(15 * n) : n \in 0..7}}
Routes21(s) ==
    [PiContainerEscapeDetector |-> PiContainerEscapeDetector(s), PiNPMDependencyVulnScanner |-> GenericStubAgent(s),
     PiTreeShakingOptimizer |-> GenericStubAgent(s), PiLLMOutputSanitizer |-> PiLLMOutputSanitizer(s),
     PiDataFlowPrivacyMapper |-> PiDataFlowPrivacyMapper(s), PiSensitiveDataScanner |-> PiSensitiveDataScanner(s),
     PiAutomatedAnonymizer |-> PiAutomatedAnonymizer(s), PiSensitiveLogLeakSentry |-> PiSensitiveLogLeakSentry(s),
     PiStructuredLoggingEnforcer |-> PiStructuredLoggingEnforcer(s),
     PiIAMOverPermissionSentry |-> GenericStubAgent(s), PiLeastPrivilegeRemediator |-> GenericStubAgent(s),
     PiDocsOutdatedChecker |-> GenericStubAgent(s), PiAutoDocsGenerator |-> GenericStubAgent(s),
     PiMemoryLeakDetector |-> GenericStubAgent(s), PiBottleneckOptimizer |-> GenericStubAgent(s),
     PiMobilePermissionSentry |-> GenericStubAgent(s), PiAppDataLeakDetector |-> GenericStubAgent(s)]

\* Registrations 22: PiRuntimeHardeningGuard to PiBundleSizeSentry.
PiHardcodedSecretDetector(s) == Summed({45 * a + 50 * b + 35 * c : a, b \in Once, c \in Often})
PiAutomatedRotationEngine(s) == {Clean}
Routes22(s) ==
    [PiRuntimeHardeningGuard |-> GenericStubAgent(s), PiNetworkTrafficSentry |-> GenericStubAgent(s),
     PiDDoSPatternDetector |-> GenericStubAgent(s), PiTrafficOptimizer |-> GenericStubAgent(s),
     PiBackupIntegritySentry |-> GenericStubAgent(s), PiRecoveryTimeAuditor |-> GenericStubAgent(s),
     PiAutomatedRestoreTester |-> GenericStubAgent(s), PiAccessibilityScanner |-> GenericStubAgent(s),
     PiContrastRatioAuditor |-> GenericStubAgent(s), PiAutoRemediationEngine |-> GenericStubAgent(s),
     PiHardcodedSecretDetector |-> PiHardcodedSecretDetector(s),
     PiAutomatedRotationEngine |-> PiAutomatedRotationEngine(s), PiTerraformDriftDetector |-> GenericStubAgent(s),
     PiInfrastructureComplianceAuditor |-> GenericStubAgent(s), PiLighthouseAuditor |-> GenericStubAgent(s),
     PiBundleSizeSentry |-> GenericStubAgent(s)]

\* Registrations 23: PiCoreWebVitalsOptimizer to PiKubernetesSecurityAuditor.
PiIaCScanner(s) == OverThirty({40, 75, 85, 90}, s)
PiDependencyVulnScanner(s) == OverThirty({60, 80, 100}, s)
PiCloudConfigAuditor(s) == OverThirty({45, 50, 80, 85}, s)
PiRBACPermissionMapper(s) == OverThirty({70, 90, 95}, s)
PiEncryptionComplianceChecker(s) == OverThirty({80, 85, 90}, s)
PiSBOMValidator(s) == OverThirty({50, 60, 85}, s)
PiSupplyChainIntegrityChecker(s) == OverThirty({75, 90}, s)
PiAPIOWASPScanner(s) == OverThirty({60, 70, 85}, s)
PiKubernetesSecurityAuditor(s) == OverThirty({40, 60, 80, 95}, s)
Routes23(s) ==
    [PiCoreWebVitalsOptimizer |-> GenericStubAgent(s), PiIaCScanner |-> PiIaCScanner(s),
     PiDependencyVulnScanner |-> PiDependencyVulnScanner(s), PiCloudConfigAuditor |-> PiCloudConfigAuditor(s),
     PiRBACPermissionMapper |-> PiRBACPermissionMapper(s),
     PiEncryptionComplianceChecker |-> PiEncryptionComplianceChecker(s), PiSBOMValidator |-> PiSBOMValidator(s),
     PiSupplyChainIntegrityChecker |-> PiSupplyChainIntegrityChecker(s), PiAPIOWASPScanner |-> PiAPIOWASPScanner(s),
     PiKubernetesSecurityAuditor |-> PiKubernetesSecurityAuditor(s)]

\* Registrations 24: PiZeroTrustVerifier to PiRuntimeAnomalySentry.
PiZeroTrustVerifier(s) == OverThirty({70, 80, 85}, s)
PiCertificateRotationWatcher(s) == OverThirty({75, 80, 90}, s)
PiFirewallRuleAuditor(s) == OverThirty({85, 90, 95}, s)
PiBackupIntegrityChecker(s) == OverThirty({60, 70, 85}, s)
PiAuditLogTamperDetector(s) == OverThirty({80, 90, 95}, s)
PiMisconfigPatternMatcher(s) == OverThirty({60, 85, 90}, s)
PiThreatModelGenerator(s) == OverThirty({50, 60, 80}, s)
PiSecretsManagerCompletenessChecker(s) == OverThirty({50, 70, 85}, s)
PiCodeSigningEnforcer(s) == OverThirty({65, 85, 90}, s)
PiDataRetentionPolicyEnforcer(s) == OverThirty({80, 90}, s)
PiRuntimeAnomalySentry(s) == OverThirty({70, 80, 95}, s)
Routes24(s) ==
    [PiZeroTrustVerifier |-> PiZeroTrustVerifier(s),
     PiCertificateRotationWatcher |-> PiCertificateRotationWatcher(s),
     PiFirewallRuleAuditor |-> PiFirewallRuleAuditor(s), PiBackupIntegrityChecker |-> PiBackupIntegrityChecker(s),
     PiAuditLogTamperDetector |-> PiAuditLogTamperDetector(s),
     PiMisconfigPatternMatcher |-> PiMisconfigPatternMatcher(s),
     PiThreatModelGenerator |-> PiThreatModelGenerator(s),
     PiSecretsManagerCompletenessChecker |-> PiSecretsManagerCompletenessChecker(s),
     PiCodeSigningEnforcer |-> PiCodeSigningEnforcer(s),
     PiDataRetentionPolicyEnforcer |-> PiDataRetentionPolicyEnforcer(s),
     PiRuntimeAnomalySentry |-> PiRuntimeAnomalySentry(s)]

\* Registrations 25: PiHipaaComplianceAuditor to PiSshCertificateSecurityAuditor.
PiHipaaComplianceAuditor(s) == Strictly({45, 55, 75, 80, 85, 90}, s) \cup {Out(TRUE, 40, FALSE)}
PiPciDssAuditor(s) == Strictly({40, 60, 80, 85, 90, 95, 100}, s)
PiMobileSecurityAuditor(s) == Strictly({55, 60, 65, 70, 75, 80, 85, 90, 95}, s)
PiBotDetectionEvasionSentry(s) == Strictly({40, 55, 60, 65, 70, 75, 80, 85, 90}, s)
PiSshCertificateSecurityAuditor(s) == Strictly({50, 55, 65, 70, 75, 80}, s)
Routes25(s) ==
    [PiHipaaComplianceAuditor |-> PiHipaaComplianceAuditor(s), PiPciDssAuditor |-> PiPciDssAuditor(s),
     PiMobileSecurityAuditor |-> PiMobileSecurityAuditor(s),
     PiBotDetectionEvasionSentry |-> PiBotDetectionEvasionSentry(s),
     PiSshCertificateSecurityAuditor |-> PiSshCertificateSecurityAuditor(s)]

-----------------------------------------------------------------------------
=============================================================================

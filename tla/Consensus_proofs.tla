-------------------------- MODULE Consensus_proofs --------------------------
(***************************************************************************)
(* Proofs about the registry of agents and about run_with_consensus.       *)
(***************************************************************************)
EXTENDS Consensus, FiniteSetTheorems, TLAPS

-----------------------------------------------------------------------------
(* The scoring rules the agents share *)

\* An output fails closed when its three fields say so.
LEMMA OutFailsClosed ==
    ASSUME NEW b \in BOOLEAN, NEW r \in Int, NEW f \in BOOLEAN, NEW s \in BOOLEAN,
           s /\ f /\ r >= HighRisk => ~b
    PROVE  FailsClosed(Out(b, r, f), s)
  <1>1. Out(b, r, f) \in OutputType
    BY DEF Out, OutputType
  <1>2. /\ Out(b, r, f).verdict = IF b THEN "pass" ELSE "fail"
        /\ Out(b, r, f).risk = r
        /\ Out(b, r, f).found = f
    BY DEF Out
  <1> QED  BY <1>1, <1>2 DEF FailsClosed

\* Nothing detected is no risk.
LEMMA CleanFailsClosed == \A s \in BOOLEAN : FailsClosed(Clean, s)
  BY DEF Clean, Out, FailsClosed, OutputType

\* The common verdict: a detection is insecure under a strict flag.
LEMMA StrictlyFailsClosed ==
    ASSUME NEW R \in SUBSET Int, NEW s \in BOOLEAN
    PROVE  AllFailClosed(Strictly(R, s), s)
  <1>1. \A r \in R : FailsClosed(Out(~s, r, TRUE), s)
    BY OutFailsClosed
  <1> QED  BY <1>1, CleanFailsClosed DEF Strictly, AllFailClosed

\* A threshold that is not above HighRisk.
LEMMA AtLeastFailsClosed ==
    ASSUME NEW R \in SUBSET Int, NEW s \in BOOLEAN, NEW t \in Int, t <= HighRisk
    PROVE  AllFailClosed(AtLeast(t, R, s), s)
  <1>1. \A r \in R : FailsClosed(Out(~(s /\ r >= t), r, TRUE), s)
    <2> TAKE r \in R
    <2>1. s /\ TRUE /\ r >= HighRisk => ~~(s /\ r >= t)
      BY DEF HighRisk
    <2> QED  BY <2>1, OutFailsClosed
  <1> QED  BY <1>1, CleanFailsClosed DEF AtLeast, AllFailClosed

\* The fixed threshold, which is lower still.
LEMMA OverThirtyFailsClosed ==
    ASSUME NEW R \in SUBSET Int, NEW s \in BOOLEAN
    PROVE  AllFailClosed(OverThirty(R, s), s)
  <1>1. \A r \in R : FailsClosed(Out(~(s /\ r > 30), r, TRUE), s)
    <2> TAKE r \in R
    <2>1. s /\ TRUE /\ r >= HighRisk => ~~(s /\ r > 30)
      BY DEF HighRisk
    <2> QED  BY <2>1, OutFailsClosed
  <1> QED  BY <1>1, CleanFailsClosed DEF OverThirty, AllFailClosed

\* Detections that are insecure whatever the flag.
LEMMA AlwaysFailsClosed ==
    ASSUME NEW R \in SUBSET Int, NEW s \in BOOLEAN
    PROVE  AllFailClosed(Always(R), s)
  <1>1. \A r \in R : FailsClosed(Out(FALSE, r, TRUE), s)
    BY OutFailsClosed
  <1> QED  BY <1>1, CleanFailsClosed DEF Always, AllFailClosed

\* Weights that add up.
LEMMA SummedFailsClosed ==
    ASSUME NEW S \in SUBSET Int, NEW s \in BOOLEAN
    PROVE  AllFailClosed(Summed(S), s)
  <1>1. \A a \in S : FailsClosed(Out(Cap(a) < 40, Cap(a), Cap(a) > 0), s)
    <2> TAKE a \in S
    <2>1. Cap(a) \in Int
      BY DEF Cap
    <2>2. s /\ Cap(a) > 0 /\ Cap(a) >= HighRisk => ~(Cap(a) < 40)
      BY <2>1 DEF HighRisk
    <2>3. (Cap(a) < 40) \in BOOLEAN /\ (Cap(a) > 0) \in BOOLEAN
      BY <2>1
    <2> QED  BY <2>1, <2>2, <2>3, OutFailsClosed, Zenon
  <1> QED  BY <1>1 DEF Summed, AllFailClosed

\* An output whose score is left out of the envelope has none to wave through.
LEMMA UnpricedFailsClosed ==
    ASSUME NEW O, NEW s \in BOOLEAN, AllFailClosed(O, s)
    PROVE  AllFailClosed(Unpriced(O), s)
  <1>1. \A o \in O : FailsClosed([o EXCEPT !.risk = Unscored], s)
    <2> TAKE o \in O
    <2>1. o \in OutputType
      BY DEF AllFailClosed, FailsClosed
    <2>2. [o EXCEPT !.risk = Unscored] \in OutputType /\ [o EXCEPT !.risk = Unscored].risk = 0
      BY <2>1 DEF OutputType, Unscored
    <2> QED  BY <2>2 DEF FailsClosed, HighRisk
  <1> QED  BY <1>1 DEF Unpriced, AllFailClosed

\* The agents with a rule of their own.
LEMMA SpecialFailsClosed ==
    ASSUME NEW s \in BOOLEAN
    PROVE  /\ AllFailClosed(GenericStubAgent(s), s)
           /\ AllFailClosed(PiArbitrageGuard(s), s)
           /\ AllFailClosed(PiSelfHealingPatchAgent(s), s)
           /\ AllFailClosed(PiStructuredLoggingEnforcer(s), s)
           /\ AllFailClosed(PiPublisherDispatch(s), s)
           /\ AllFailClosed(PiOracleSentry(s), s)
           /\ AllFailClosed(PiStorageLayoutDrift(s), s)
           /\ AllFailClosed(PiERC4626VaultGuard(s), s)
           /\ AllFailClosed(PiCrossChainBridgeAuditor(s), s)
           /\ AllFailClosed(PiHipaaComplianceAuditor(s), s)
  <1>1. /\ FailsClosed(Out(TRUE, 0, FALSE), s) /\ FailsClosed(Out(FALSE, 0, FALSE), s)
        /\ FailsClosed(Out(FALSE, 0, TRUE), s) /\ FailsClosed(Out(~s, 0, TRUE), s)
        /\ FailsClosed(Out(TRUE, 50, FALSE), s) /\ FailsClosed(Out(FALSE, 40, TRUE), s)
        /\ FailsClosed(Out(TRUE, 25, FALSE), s) /\ FailsClosed(Out(TRUE, 40, FALSE), s)
    BY DEF Out, FailsClosed, OutputType
  <1>2. \A R \in SUBSET Int : AllFailClosed(Strictly(R, s), s)
    BY StrictlyFailsClosed
  <1>3. AllFailClosed(GenericStubAgent(s), s)
    BY CleanFailsClosed DEF GenericStubAgent, AllFailClosed
  <1>4. AllFailClosed(PiArbitrageGuard(s), s)
    BY <1>1 DEF PiArbitrageGuard, AllFailClosed
  <1>5. AllFailClosed(PiSelfHealingPatchAgent(s), s)
    BY <1>1, CleanFailsClosed DEF PiSelfHealingPatchAgent, AllFailClosed
  <1>6. AllFailClosed(PiStructuredLoggingEnforcer(s), s)
    <2>1. ASSUME NEW n \in 0..7
          PROVE  FailsClosed(Out(Cap(15 * n) <= 10, Cap(15 * n), Cap(15 * n) > 0), s)
      <3>1. Cap(15 * n) \in Int
        BY DEF Cap
      <3>2. s /\ Cap(15 * n) > 0 /\ Cap(15 * n) >= HighRisk => ~(Cap(15 * n) <= 10)
        BY <3>1 DEF HighRisk
      <3>3. (Cap(15 * n) <= 10) \in BOOLEAN /\ (Cap(15 * n) > 0) \in BOOLEAN
        BY <3>1
      <3> QED  BY <3>1, <3>2, <3>3, OutFailsClosed, Zenon
    <2> QED  BY <2>1 DEF PiStructuredLoggingEnforcer, AllFailClosed
  <1>7. AllFailClosed(PiPublisherDispatch(s), s) /\ AllFailClosed(PiOracleSentry(s), s)
    <2>1. AllFailClosed(AtLeast(70, {95}, s), s) /\ AllFailClosed(AtLeast(80, {85, 90, 99}, s), s)
      BY AtLeastFailsClosed DEF HighRisk
    <2> QED  BY <2>1, UnpricedFailsClosed DEF PiPublisherDispatch, PiOracleSentry
  <1>8. ASSUME NEW R \in SUBSET Int, NEW o, FailsClosed(o, s)
        PROVE  AllFailClosed(Strictly(R, s) \cup {o}, s)
    BY <1>2, <1>8 DEF AllFailClosed
  <1>9. {95} \in SUBSET Int /\ {90} \in SUBSET Int /\ {72, 84, 98} \in SUBSET Int
           /\ {45, 55, 75, 80, 85, 90} \in SUBSET Int
    OBVIOUS
  <1>10. AllFailClosed(PiStorageLayoutDrift(s), s) /\ AllFailClosed(PiERC4626VaultGuard(s), s)
    BY <1>1, <1>8, <1>9, Zenon DEF PiStorageLayoutDrift, PiERC4626VaultGuard
  <1>11. AllFailClosed(PiCrossChainBridgeAuditor(s), s) /\ AllFailClosed(PiHipaaComplianceAuditor(s), s)
    BY <1>1, <1>8, <1>9, Zenon DEF PiCrossChainBridgeAuditor, PiHipaaComplianceAuditor
  <1> QED  BY <1>3, <1>4, <1>5, <1>6, <1>7, <1>10, <1>11

-----------------------------------------------------------------------------
(* The registry, group by group *)

\* Registrations 1: PiGitSecScanner to PiArithmeticAuditor.
LEMMA Group01 ==
    ASSUME NEW s \in BOOLEAN, NEW t \in BOOLEAN
    PROVE  GroupFailsClosed(Routes01(s), Routes01(t), t)
  BY AtLeastFailsClosed, SpecialFailsClosed, StrictlyFailsClosed
    DEF GroupFailsClosed, Routes01, PiGitSecScanner, PiPromptLeakBuster,
        NicheCurationPipelineChain, PiMempoolSentry, PiReentrancySentry,
        PiAccessControlVerifier, PiFlashLoanDefender, PiArithmeticAuditor, HighRisk

\* Registrations 2: PiDelegateCallGuard to PiBlockTimestampSentry.
LEMMA Group02 ==
    ASSUME NEW s \in BOOLEAN, NEW t \in BOOLEAN
    PROVE  GroupFailsClosed(Routes02(s), Routes02(t), t)
  BY StrictlyFailsClosed
    DEF GroupFailsClosed, Routes02, PiDelegateCallGuard, PiSignatureReplayScout,
        PiBytecodeDecompiler, PiVyperSecScanner, PiSelfDestructHunter, PiOracleDivergenceAudit,
        PiTokenTaxDetector, PiTxOriginSentry, PiReadOnlyReentrancySentry,
        PiUninitializedStateSentry, PiShadowedVariableDetector, PiBlockTimestampSentry

\* Registrations 3: PiStorageLayoutDrift to PiCentralizationSentry.
LEMMA Group03 ==
    ASSUME NEW s \in BOOLEAN, NEW t \in BOOLEAN
    PROVE  GroupFailsClosed(Routes03(s), Routes03(t), t)
  BY StrictlyFailsClosed, SpecialFailsClosed
    DEF GroupFailsClosed, Routes03, PiGasGuzzlerDetector, PiAssemblyLethalWeapons,
        PiLogicGatekeeper, PiPhishingShield, PiExternalContractGuard, PiCentralizationSentry

\* Registrations 4: PiFloatingPragmaSentry to PiSolidityCompilerBugsSentry.
LEMMA Group04 ==
    ASSUME NEW s \in BOOLEAN, NEW t \in BOOLEAN
    PROVE  GroupFailsClosed(Routes04(s), Routes04(t), t)
  BY StrictlyFailsClosed
    DEF GroupFailsClosed, Routes04, PiFloatingPragmaSentry, PiUpgradeDefectDetector,
        PiDoSGasLimitsSentry, PiDeFiSlippageGuard, PiReentrancyGuardSpec, PiUniswapV3PoolSentry,
        PiSandwichMEVShield, PiSolidityCompilerBugsSentry

\* Registrations 5: PiAccessControlShadow to PiEIP712SignatureLinter.
LEMMA Group05 ==
    ASSUME NEW s \in BOOLEAN, NEW t \in BOOLEAN
    PROVE  GroupFailsClosed(Routes05(s), Routes05(t), t)
  BY StrictlyFailsClosed
    DEF GroupFailsClosed, Routes05, PiAccessControlShadow, PiLLMHallucinationDetector,
        PiERC20PermitPhishingGuard, PiSolidityReentrancyMutexSentry, PiDeFiMathRoundingSentry,
        PiCrossChainMessageReplaySentry, PiSolidityTransientStorageSentry,
        PiEIP712SignatureLinter

\* Registrations 6: PiReadOnlyOracleManipulationSentry to PiVyperExternalCallSentry.
LEMMA Group06 ==
    ASSUME NEW s \in BOOLEAN, NEW t \in BOOLEAN
    PROVE  GroupFailsClosed(Routes06(s), Routes06(t), t)
  BY StrictlyFailsClosed
    DEF GroupFailsClosed, Routes06, PiReadOnlyOracleManipulationSentry,
        PiRustAnchorSecuritySentry, PiEIP4337AccountAbstractionSentry,
        PiZeroKnowledgeCircuitSentry, PiERC7702DelegationGuard, PiLLMPromptInjectionSentry,
        PiVyperStateLockSentry, PiSolidityUpgradeableInitializerSentry,
        PiVyperExternalCallSentry

\* Registrations 7: PiSoliditySignatureMalleabilitySentry to PiSolidityERC7702CodeSentry.
LEMMA Group07 ==
    ASSUME NEW s \in BOOLEAN, NEW t \in BOOLEAN
    PROVE  GroupFailsClosed(Routes07(s), Routes07(t), t)
  BY StrictlyFailsClosed
    DEF GroupFailsClosed, Routes07, PiSoliditySignatureMalleabilitySentry,
        PiZKCircomDivisionSentry, PiEIP712DomainSeparatorSentry,
        PiSolidityArbitraryTransferSentry, PiSolidityDelegatecallStorageSentry,
        PiSolidityOracleLivenessSentry, PiLLMSystemPromptDriftSentry,
        PiSolidityDirtyMemorySentry, PiSolidityERC7702CodeSentry

\* Registrations 8: PiSolidityTransientStorageReentrancySentry to PiSolidityCreate2SaltCollisionSentry.
LEMMA Group08 ==
    ASSUME NEW s \in BOOLEAN, NEW t \in BOOLEAN
    PROVE  GroupFailsClosed(Routes08(s), Routes08(t), t)
  BY StrictlyFailsClosed
    DEF GroupFailsClosed, Routes08, PiSolidityTransientStorageReentrancySentry,
        PiSolidityL2GasFeeSentry, PiZKCircomUnderconstrainedSentry,
        PiRustSolanaReentrancySentry, PiSolidityPriceFeedSequencerSentry,
        PiSolidityERC20TransferRecipientSentry, PiSolidityEIP712TypehashMismatchSentry,
        PiSolidityCreate2SaltCollisionSentry

\* Registrations 9: PiSolidityArrayLengthSentry to PiVyperStorageLayoutCollisionSentry.
LEMMA Group09 ==
    ASSUME NEW s \in BOOLEAN, NEW t \in BOOLEAN
    PROVE  GroupFailsClosed(Routes09(s), Routes09(t), t)
  BY StrictlyFailsClosed
    DEF GroupFailsClosed, Routes09, PiSolidityArrayLengthSentry,
        PiLLMPromptInjectionNegativeConstraintSentry, PiSolidityDelegateCallToSelfSentry,
        PiSolidityBlockTimestampIntervalSentry, PiSolidityAssemblyMemorySafeSentry,
        PiRustSolanaSignerAssertionSentry, PiZKCircomShadowSignalSentry,
        PiSolidityPriceFeedFallbackSentry, PiVyperStorageLayoutCollisionSentry

\* Registrations 10: PiLLMPromptInjectionSystemPromptOverrideSentry to PiSolidityFlashLoanAttack.
LEMMA Group10 ==
    ASSUME NEW s \in BOOLEAN, NEW t \in BOOLEAN
    PROVE  GroupFailsClosed(Routes10(s), Routes10(t), t)
  BY StrictlyFailsClosed
    DEF GroupFailsClosed, Routes10, PiLLMPromptInjectionSystemPromptOverrideSentry,
        PiDockerComposeSecuritySentry, PiGitSecretLeakSentry, PiRustTuiResourceLimit,
        PiGrpcProtocolInterceptor, PiDeterministicOutputValid, PiZeroTrustExecutionDomain,
        PiSolidityFlashLoanAttack

\* Registrations 11: PiZKProofPublicInputVerif to PiSolidityExternalContractsReturnCheck.
LEMMA Group11 ==
    ASSUME NEW s \in BOOLEAN, NEW t \in BOOLEAN
    PROVE  GroupFailsClosed(Routes11(s), Routes11(t), t)
  BY StrictlyFailsClosed
    DEF GroupFailsClosed, Routes11, PiZKProofPublicInputVerif, PiAdversarialEvaluatorSim,
        PiRustTokioDeadlockSentry, PiApiReverseEngineeredAuth, PiSemanticSchemaRegistry,
        PiSolidityReentrancyGuardOverlapSentry, PiSolidityTxOriginCallCheckSentry,
        PiSolidityArrayLengthMutationSentry, PiSolidityExternalContractsReturnCheck

\* Registrations 12: PiSolidityUnboundedLoopsInStateMutation to PiSolidityYulMemoryOffsetAudit.
LEMMA Group12 ==
    ASSUME NEW s \in BOOLEAN, NEW t \in BOOLEAN
    PROVE  GroupFailsClosed(Routes12(s), Routes12(t), t)
  BY StrictlyFailsClosed
    DEF GroupFailsClosed, Routes12, PiSolidityUnboundedLoopsInStateMutation,
        PiSolidityDivideBeforeMultiplyAuditor, PiSolidityInitializableGapSentry,
        PiSoliditySelfdestructCodeEraseSentry, PiSoliditySignatureOmittedReplaySentry,
        PiSolidityOwnerTimelockSentry, PiSolidityERC20SafeApproveAuditor,
        PiSolidityUndeclaredReturnVariableSentry, PiSolidityYulMemoryOffsetAudit

\* Registrations 13: PiSolidityProxyCallTargetCheck to PiRustSolanaReentrancyCrossProgramSentry.
LEMMA Group13 ==
    ASSUME NEW s \in BOOLEAN, NEW t \in BOOLEAN
    PROVE  GroupFailsClosed(Routes13(s), Routes13(t), t)
  BY StrictlyFailsClosed
    DEF GroupFailsClosed, Routes13, PiSolidityProxyCallTargetCheck,
        PiSolidityConstantPragmaValidation, PiRustSolanaAccountDataValidation,
        PiRustSolanaMissingSignerAssert, PiRustSolanaArithmeticOverflowCheck,
        PiRustSolanaOwnerVerificationGuard, PiRustSolanaCPIInstructionSentry,
        PiRustSolanaBorshSerializationLeak, PiRustSolanaReentrancyCrossProgramSentry

\* Registrations 14: PiRustSolanaSysvarClockVerification to PiLLMSystemPromptHijackSentry.
LEMMA Group14 ==
    ASSUME NEW s \in BOOLEAN, NEW t \in BOOLEAN
    PROVE  GroupFailsClosed(Routes14(s), Routes14(t), t)
  BY StrictlyFailsClosed
    DEF GroupFailsClosed, Routes14, PiRustSolanaSysvarClockVerification,
        PiZKSignalUnconstrainedConstraint, PiZKDivByZeroConstraintAuditor,
        PiZKSignalShadowingSignalSentry, PiZKPublicInputLeakageAuditor,
        PiZKNonPrimeFieldRangeSentry, PiZKUnusedConstraintVariables,
        PiZKProofForgingValidationSentry, PiLLMSystemPromptHijackSentry

\* Registrations 15: PiLLMPairwiseAdversarialValidator to PiKubernetesRootExecutionLinter.
LEMMA Group15 ==
    ASSUME NEW s \in BOOLEAN, NEW t \in BOOLEAN
    PROVE  GroupFailsClosed(Routes15(s), Routes15(t), t)
  BY StrictlyFailsClosed
    DEF GroupFailsClosed, Routes15, PiLLMPairwiseAdversarialValidator,
        PiLLMNegativeConstraintEvasion, PiLLMBase64EncodingDeobfuscator,
        PiLLMChainOfThoughtBypassSentry, PiLLMPromptEgressLeakDetector,
        PiLLMContextWindowDriftSentry, PiLLMRecursiveRefinementJailbreak,
        PiDockerSocketPrivilegeSentry, PiKubernetesRootExecutionLinter

\* Registrations 16: PiGitSecretEntropyLeakSentry to PiApiAuthHardcodedTokenSentry.
LEMMA Group16 ==
    ASSUME NEW s \in BOOLEAN, NEW t \in BOOLEAN
    PROVE  GroupFailsClosed(Routes16(s), Routes16(t), t)
  BY StrictlyFailsClosed
    DEF GroupFailsClosed, Routes16, PiGitSecretEntropyLeakSentry,
        PiDockerComposePortExposureSentry, PiGithubActionsUnpinnedVersion,
        PiTerraformStateCredentialSentry, PiNginxReverseProxyHeaderSentry,
        PiDatabaseMigrationUnindexedSentry, PiApiAuthJWTNoneAlgorithmSentry,
        PiSemanticSchemaDynamicFieldCheck, PiApiAuthHardcodedTokenSentry

\* Registrations 17: PiGrpcWireProtocolInsecureSentry to PiToPrdValidator.
LEMMA Group17 ==
    ASSUME NEW s \in BOOLEAN, NEW t \in BOOLEAN
    PROVE  GroupFailsClosed(Routes17(s), Routes17(t), t)
  BY StrictlyFailsClosed, CleanFailsClosed
    DEF GroupFailsClosed, Routes17, PiGrpcWireProtocolInsecureSentry, PiConstantTimeAuditor,
        PiMemoryZeroizeSentry, PiDimensionalAnalysisSentry, PiAgentToolExecutionGuard,
        PiHotPathAllocationAuditor, PiCavemanTokenCompressor, PiGrillMeQuestionnaire,
        PiHandoffCheckpointSentry, PiToPrdValidator, AllFailClosed

\* Registrations 18: PiToIssuesBreakdown to PiTypeScriptWizardryCheck.
LEMMA Group18 ==
    ASSUME NEW s \in BOOLEAN, NEW t \in BOOLEAN
    PROVE  GroupFailsClosed(Routes18(s), Routes18(t), t)
  BY StrictlyFailsClosed
    DEF GroupFailsClosed, Routes18, PiToIssuesBreakdown, PiTriageBugLabels,
        PiZoomOutSystemExplainer, PiDesignAnInterfaceValidator, PiRequestRefactorPlanVerifier,
        PiTddTestFileVerifier, PiTddAssertionCoverage, PiTddMockingSanityChecker,
        PiGitSafetyGuardrail, PiTypeScriptWizardryCheck

\* Registrations 19: PiArchitectureImportBoundarySentry to PiMagicNumberScanner.
LEMMA Group19 ==
    ASSUME NEW s \in BOOLEAN, NEW t \in BOOLEAN
    PROVE  GroupFailsClosed(Routes19(s), Routes19(t), t)
  BY StrictlyFailsClosed
    DEF GroupFailsClosed, Routes19, PiArchitectureImportBoundarySentry, PiDepreciationScanner,
        PiDeadCodePruner, PiMockDataTaintingSentry, PiReadmeValidator, PiChangelogAuditor,
        PiAstDepthGuard, PiUncontrolledRecursionSentry, PiMagicNumberScanner

\* Registrations 20: PiErrorHandlingCatchAllGuard to PiDockerImageScanner.
LEMMA Group20 ==
    ASSUME NEW s \in BOOLEAN, NEW t \in BOOLEAN
    PROVE  GroupFailsClosed(Routes20(s), Routes20(t), t)
  BY StrictlyFailsClosed, AlwaysFailsClosed, SummedFailsClosed, SpecialFailsClosed
    DEF GroupFailsClosed, Routes20, PiErrorHandlingCatchAllGuard, PiSemanticCommitMessageLinter,
        PiWebVulnScanner, PiDeploymentSafetyGuard, PiPipelineIntegrityAuditor,
        PiDockerImageScanner, Once, Often

\* Registrations 21: PiContainerEscapeDetector to PiAppDataLeakDetector.
LEMMA Group21 ==
    ASSUME NEW s \in BOOLEAN, NEW t \in BOOLEAN
    PROVE  GroupFailsClosed(Routes21(s), Routes21(t), t)
  BY SummedFailsClosed, CleanFailsClosed, SpecialFailsClosed
    DEF GroupFailsClosed, Routes21, PiContainerEscapeDetector, PiLLMOutputSanitizer,
        PiDataFlowPrivacyMapper, PiSensitiveDataScanner, PiAutomatedAnonymizer,
        PiSensitiveLogLeakSentry, Once, Often, AllFailClosed

\* Registrations 22: PiRuntimeHardeningGuard to PiBundleSizeSentry.
LEMMA Group22 ==
    ASSUME NEW s \in BOOLEAN, NEW t \in BOOLEAN
    PROVE  GroupFailsClosed(Routes22(s), Routes22(t), t)
  BY SummedFailsClosed, CleanFailsClosed, SpecialFailsClosed
    DEF GroupFailsClosed, Routes22, PiHardcodedSecretDetector, PiAutomatedRotationEngine, Once,
        Often, AllFailClosed

\* Registrations 23: PiCoreWebVitalsOptimizer to PiKubernetesSecurityAuditor.
LEMMA Group23 ==
    ASSUME NEW s \in BOOLEAN, NEW t \in BOOLEAN
    PROVE  GroupFailsClosed(Routes23(s), Routes23(t), t)
  BY OverThirtyFailsClosed, SpecialFailsClosed
    DEF GroupFailsClosed, Routes23, PiIaCScanner, PiDependencyVulnScanner, PiCloudConfigAuditor,
        PiRBACPermissionMapper, PiEncryptionComplianceChecker, PiSBOMValidator,
        PiSupplyChainIntegrityChecker, PiAPIOWASPScanner, PiKubernetesSecurityAuditor

\* Registrations 24: PiZeroTrustVerifier to PiRuntimeAnomalySentry.
LEMMA Group24 ==
    ASSUME NEW s \in BOOLEAN, NEW t \in BOOLEAN
    PROVE  GroupFailsClosed(Routes24(s), Routes24(t), t)
  BY OverThirtyFailsClosed
    DEF GroupFailsClosed, Routes24, PiZeroTrustVerifier, PiCertificateRotationWatcher,
        PiFirewallRuleAuditor, PiBackupIntegrityChecker, PiAuditLogTamperDetector,
        PiMisconfigPatternMatcher, PiThreatModelGenerator, PiSecretsManagerCompletenessChecker,
        PiCodeSigningEnforcer, PiDataRetentionPolicyEnforcer, PiRuntimeAnomalySentry

\* Registrations 25: PiHipaaComplianceAuditor to PiSshCertificateSecurityAuditor.
LEMMA Group25 ==
    ASSUME NEW s \in BOOLEAN, NEW t \in BOOLEAN
    PROVE  GroupFailsClosed(Routes25(s), Routes25(t), t)
  BY StrictlyFailsClosed, SpecialFailsClosed
    DEF GroupFailsClosed, Routes25, PiPciDssAuditor, PiMobileSecurityAuditor,
        PiBotDetectionEvasionSentry, PiSshCertificateSecurityAuditor

-----------------------------------------------------------------------------
(* The registry as a whole *)

\* No agent is registered under the name that stands for none.
LEMMA GroupNames ==
    ASSUME NEW s \in BOOLEAN, NEW k \in 1..25
    PROVE  NoAgent \notin DOMAIN Routes(s)[k]
  <1> DEFINE Unnamed(f) == NoAgent \notin DOMAIN f
  <1>1. /\ Unnamed(Routes01(s))
        /\ Unnamed(Routes02(s))
        /\ Unnamed(Routes03(s))
        /\ Unnamed(Routes04(s))
        /\ Unnamed(Routes05(s))
        /\ Unnamed(Routes06(s))
        /\ Unnamed(Routes07(s))
        /\ Unnamed(Routes08(s))
        /\ Unnamed(Routes09(s))
        /\ Unnamed(Routes10(s))
        /\ Unnamed(Routes11(s))
        /\ Unnamed(Routes12(s))
        /\ Unnamed(Routes13(s))
        /\ Unnamed(Routes14(s))
        /\ Unnamed(Routes15(s))
        /\ Unnamed(Routes16(s))
        /\ Unnamed(Routes17(s))
        /\ Unnamed(Routes18(s))
        /\ Unnamed(Routes19(s))
        /\ Unnamed(Routes20(s))
        /\ Unnamed(Routes21(s))
        /\ Unnamed(Routes22(s))
        /\ Unnamed(Routes23(s))
        /\ Unnamed(Routes24(s))
        /\ Unnamed(Routes25(s))
    BY DEF NoAgent, Routes01, Routes02, Routes03, Routes04, Routes05, Routes06, Routes07, Routes08,
        Routes09, Routes10, Routes11, Routes12, Routes13, Routes14, Routes15, Routes16,
        Routes17, Routes18, Routes19, Routes20, Routes21, Routes22, Routes23, Routes24,
        Routes25
  <1> HIDE DEF Unnamed
  <1>2. Unnamed(Routes(s)[k])
    BY <1>1 DEF Routes
  <1> QED  BY <1>2 DEF Unnamed

\* The 25 groups at once: names read under flag s, outputs under flag t.
LEMMA GroupsFailClosed ==
    ASSUME NEW s \in BOOLEAN, NEW t \in BOOLEAN, NEW k \in 1..25
    PROVE  GroupFailsClosed(Routes(s)[k], Routes(t)[k], t)
  BY Group01, Group02, Group03, Group04, Group05, Group06, Group07, Group08, Group09,
         Group10, Group11, Group12, Group13, Group14, Group15, Group16, Group17, Group18,
         Group19, Group20, Group21, Group22, Group23, Group24, Group25
     DEF Routes

\* An entry of the registry, with both sets of outputs.
LEMMA RegisteredFailsClosed ==
    ASSUME NEW r \in Registered
    PROVE  r[1] # NoAgent /\ AllFailClosed(r[2], TRUE) /\ AllFailClosed(r[3], FALSE)
  <1>1. PICK k \in DOMAIN Strict : r \in {<<a, Strict[k][a], Advisory[k][a]>> : a \in DOMAIN Strict[k]}
    BY DEF Registered
  <1>2. PICK a \in DOMAIN Strict[k] : r = <<a, Strict[k][a], Advisory[k][a]>>
    BY <1>1
  <1>3. k \in 1..25
    BY DEF Strict, Routes
  <1>6. a # NoAgent
    BY <1>3, GroupNames DEF Strict
  <1>4. AllFailClosed(Strict[k][a], TRUE)
    BY <1>3, GroupsFailClosed DEF Strict, GroupFailsClosed
  <1>5. AllFailClosed(Advisory[k][a], FALSE)
    BY <1>3, GroupsFailClosed DEF Strict, Advisory, GroupFailsClosed
  <1> QED  BY <1>2, <1>4, <1>5, <1>6

\* router.py and strict_mode.py: whatever a registered agent returns is a Boolean
\* verdict, and under its strict flag a vulnerability scored 80 or more fails.
THEOREM RegistryFailsClosed ==
    \A a \in AgentNames, s \in BOOLEAN : AllFailClosed(Outputs(a, s), s)
  <1> SUFFICES ASSUME NEW a \in AgentNames, NEW s \in BOOLEAN
               PROVE  AllFailClosed(Outputs(a, s), s)
    OBVIOUS
  <1> DEFINE r == CHOOSE r \in Registered : r[1] = a
  <1>1. r \in Registered
    BY DEF AgentNames
  <1>2. AllFailClosed(r[2], TRUE) /\ AllFailClosed(r[3], FALSE)
    BY <1>1, RegisteredFailsClosed
  <1>3. Outputs(a, s) = IF s THEN r[2] ELSE r[3]
    BY DEF Outputs
  <1>4. CASE s = TRUE
    BY <1>2, <1>3, <1>4, Zenon
  <1>5. CASE s = FALSE
    BY <1>2, <1>3, <1>5, Zenon
  <1> QED  BY <1>4, <1>5

-----------------------------------------------------------------------------
(* The three runs *)

\* An answer, real or injected, is not mistaken for a run that is going or raised.
LEMMA AnswersProduced ==
    ASSUME TypeOK, agent # NoAgent
    PROVE  /\ mode # "mock" => \A o \in Outputs(agent, strict) : FailsClosed(o, strict)
           /\ \A o \in Answers : o \notin {Pending, Raised}
  <1>1. agent \in AgentNames /\ strict \in BOOLEAN
    BY SubjectsAssumption DEF TypeOK
  <1>2. \A o \in Outputs(agent, strict) : FailsClosed(o, strict)
    BY <1>1, RegistryFailsClosed DEF AllFailClosed
  <1>3. Pending.verdict = "pending" /\ Raised.verdict = "raised"
    BY DEF Pending, Raised, NoVerdict
  <1>4. \A o \in Outputs(agent, strict) : o.verdict \in {"pass", "fail"}
    BY <1>2 DEF FailsClosed, OutputType
  <1>5. \A o \in MockOutputs : o.verdict \in {"pass", "fail", "none"}
    BY DEF MockOutputs, NoVerdict, Out
  <1> QED  BY <1>2, <1>3, <1>4, <1>5 DEF Answers

\* Before the call.
LEMMA ConsensusInit == Init => ConsensusInv
  <1> SUFFICES ASSUME Init PROVE ConsensusInv
    OBVIOUS
  <1>1. DOMAIN outs = Runs /\ \A k \in Runs : outs[k] = Pending
    BY DEF Init
  <1>2. TypeOK
    <2>1. strict \in BOOLEAN /\ envTrue \in BOOLEAN /\ failed \in BOOLEAN
      BY DEF Init
    <2>2. agent \in Subjects \cup {NoAgent} /\ mode \in {"pool", "sequential", "mock"}
      BY DEF Init
    <2>3. next \in 1..4
      BY DEF Init
    <2> QED  BY <1>1, <2>1, <2>2, <2>3, Zenon DEF TypeOK
  <1>3. IdleInv
    BY DEF Init, IdleInv
  <1>4. CollectInv
    BY DEF Init, CollectInv, Runs
  <1>5. ResultInv
    BY DEF Init, ResultInv
  <1> QED  BY <1>2, <1>3, <1>4, <1>5 DEF ConsensusInv

\* The call begins: injected outputs stand in for all three runs at once.
LEMMA BeginStep ==
    ASSUME ConsensusInv, NEW a \in Subjects, Begin(a)
    PROVE  ConsensusInv'
  <1>1. a # NoAgent /\ a \in AgentNames
    <2>1. PICK r \in Registered : a = r[1]
      BY SubjectsAssumption DEF AgentNames
    <2> QED  BY <2>1, RegisteredFailsClosed, SubjectsAssumption
  <1>2. /\ agent' = a /\ strict' = strict /\ envTrue' = envTrue /\ mode' = mode
        /\ result' = result
        /\ next = 1 /\ ~failed /\ result = NoResult /\ outs = [k \in Runs |-> Pending]
    BY DEF Begin, ConsensusInv, IdleInv
  <1>3. CASE outs' \in [Runs -> MockOutputs] /\ next' = 4 /\ failed' = failed /\ mode = "mock"
    <2>1. outs' \in [Runs -> MockOutputs] /\ next' = 4 /\ failed' = failed
      BY <1>3
    <2>2. TypeOK'
      BY <1>1, <1>2, <1>3, <2>1 DEF ConsensusInv, TypeOK, Answers
    <2>3. \A k \in Runs : Produced(k)'
      <3>1. \A o \in MockOutputs : o.verdict \in {"pass", "fail", "none"}
        BY DEF MockOutputs, NoVerdict, Out
      <3>2. Pending.verdict = "pending" /\ Raised.verdict = "raised"
        BY DEF Pending, Raised, NoVerdict
      <3> QED  BY <2>1, <3>1, <3>2 DEF Produced
    <2> QED  BY <1>1, <1>2, <2>1, <2>2, <2>3 DEF ConsensusInv, IdleInv, CollectInv, ResultInv
  <1>4. CASE /\ outs' = outs /\ next' = next
             /\ (failed' = failed /\ mode # "mock") \/ failed' = TRUE
    <2>1. outs' = outs /\ next' = next
      BY <1>4
    <2>2. TypeOK'
      BY <1>1, <1>2, <1>4, <2>1 DEF ConsensusInv, TypeOK, Runs
    <2> QED  BY <1>1, <1>2, <1>4, <2>1, <2>2 DEF ConsensusInv, IdleInv, CollectInv, ResultInv, Runs
  <1> QED  BY <1>3, <1>4 DEF Begin

\* A run ends: none of those the caller went past, and none of a call that is over.
LEMMA RunEndsStep ==
    ASSUME ConsensusInv, NEW k \in Runs, RunEnds(k)
    PROVE  ConsensusInv'
  <1>1. PICK o \in Outputs(agent, strict) \cup {Raised} : outs' = [outs EXCEPT ![k] = o]
    BY DEF RunEnds
  <1>2. /\ agent # NoAgent /\ outs[k] = Pending
        /\ UNCHANGED <<agent, strict, envTrue, mode, next, failed, result>>
    BY DEF RunEnds
  <1>3. ~(k < next) /\ next # 4 /\ mode # "mock"
    BY <1>2 DEF ConsensusInv, CollectInv, TypeOK, Produced, Runs, RunEnds
  <1>4. /\ DOMAIN outs' = Runs /\ outs'[k] = o
        /\ \A j \in Runs : j # k => outs'[j] = outs[j]
    BY <1>1 DEF ConsensusInv, TypeOK
  <1>5. TypeOK'
    BY <1>2, <1>3, <1>4 DEF ConsensusInv, TypeOK, Answers
  <1>6. IdleInv'
    BY <1>2 DEF IdleInv
  <1>7. CollectInv'
    BY <1>2, <1>3, <1>4 DEF ConsensusInv, CollectInv, Produced
  <1>8. o # Pending
    <2>1. o \in Answers \/ o = Raised
      BY <1>1, <1>3 DEF Answers
    <2>2. Raised # Pending
      BY DEF Raised, Pending, NoVerdict
    <2> QED  BY <2>1, <2>2, <1>2, AnswersProduced DEF ConsensusInv
  <1>9. ResultInv'
    BY <1>2, <1>3, <1>4, <1>8 DEF ConsensusInv, ResultInv
  <1> QED  BY <1>5, <1>6, <1>7, <1>9 DEF ConsensusInv

\* The caller's own steps.
LEMMA CallerStep ==
    ASSUME ConsensusInv, Collect \/ ResultTimeout \/ PoolExit \/ Conclude
    PROVE  ConsensusInv'
  <1>1. UNCHANGED <<agent, strict, envTrue, mode, outs>>
    BY DEF Collect, ResultTimeout, PoolExit, Conclude
  <1>2. Answers' = Answers /\ \A k \in Runs : Produced(k)' = Produced(k)
    BY <1>1 DEF Answers, Produced
  <1>3. next \in 1..4 /\ failed \in BOOLEAN
    BY DEF ConsensusInv, TypeOK
  <1>4. agent # NoAgent
    BY DEF ConsensusInv, IdleInv, Collect, ResultTimeout, PoolExit, Conclude
  <1>5. TypeOK'
    <2>1. next' \in 1..4
      BY <1>3 DEF Collect, ResultTimeout, PoolExit, Conclude, Runs
    <2>2. failed' = failed \/ failed' = TRUE
      BY DEF Collect, ResultTimeout, PoolExit, Conclude
    <2>3. failed' \in BOOLEAN
      BY <1>3, <2>2, Zenon
    <2> QED  BY <1>1, <1>2, <2>1, <2>3 DEF ConsensusInv, TypeOK
  <1>6. IdleInv'
    BY <1>1, <1>4 DEF IdleInv
  <1>7. CollectInv'
    BY <1>1, <1>2, <1>3
       DEF ConsensusInv, CollectInv, Collect, ResultTimeout, PoolExit, Conclude, Runs
  <1>8. ResultInv'
    <2>1. CASE Collect \/ ResultTimeout
      <3>1. result' = result /\ ~failed /\ next # 4
        BY <2>1, 4 \notin 1..3 DEF Collect, ResultTimeout, Runs
      <3>2. result = NoResult
        BY <3>1 DEF ConsensusInv, ResultInv
      <3> QED  BY <3>1, <3>2 DEF ResultInv
    <2>2. CASE PoolExit
      BY <1>1, <2>2 DEF PoolExit, ResultInv
    <2>3. CASE Conclude
      BY <1>1, <2>3 DEF Conclude, ResultInv
    <2> QED  BY <2>1, <2>2, <2>3
  <1> QED  BY <1>5, <1>6, <1>7, <1>8 DEF ConsensusInv

\* consensus.py: whatever order the three threads end in, the caller passes only
\* runs that produced an output and decides on outputs that no longer change.
THEOREM GateInvariant == Spec => []ConsensusInv
  <1>1. ASSUME ConsensusInv, [Next]_vars
        PROVE  ConsensusInv'
    <2>1. CASE UNCHANGED vars
      <3>1. Answers' = Answers /\ \A k \in Runs : Produced(k)' = Produced(k)
        BY <2>1 DEF vars, Answers, Produced
      <3> QED  BY <1>1, <2>1, <3>1
                  DEF vars, ConsensusInv, TypeOK, IdleInv, CollectInv, ResultInv
    <2> QED  BY <1>1, <2>1, BeginStep, RunEndsStep, CallerStep DEF Next
  <1> QED  BY <1>1, ConsensusInit, PTL DEF Spec

-----------------------------------------------------------------------------
(* What the gate promises *)

\* consensus.py: no thread is still running when the call has returned or raised.
THEOREM RunsJoined == Spec => []NoRunOutlivesCall
  <1>1. ConsensusInv => NoRunOutlivesCall
    BY DEF ConsensusInv, TypeOK, CollectInv, ResultInv, NoRunOutlivesCall, Produced, Runs
  <1> QED  BY <1>1, GateInvariant, PTL

\* A call that concluded decided on three outputs that stand.
LEMMA Decided ==
    ASSUME ConsensusInv, Concluded
    PROVE  /\ agent # NoAgent
           /\ \A k \in Runs : outs[k] \in Answers
           /\ \E d \in Divergences(mode # "mock") : result = Decide(agent, outs, d, envTrue)
  <1>1. /\ agent # NoAgent /\ next = 4
        /\ \E d \in Divergences(mode # "mock") : result = Decide(agent, outs, d, envTrue)
    BY DEF ConsensusInv, ResultInv, Concluded
  <1>2. \A k \in Runs : Produced(k)
    BY <1>1 DEF ConsensusInv, CollectInv, Runs
  <1> QED  BY <1>1, <1>2 DEF ConsensusInv, TypeOK, Produced

\* The run that speaks for the majority agrees with another one.
LEMMA MajorityAgrees ==
    ASSUME NEW votes, Achieved(votes)
    PROVE  /\ MajorityIdx(votes) \in Runs
           /\ votes[MajorityIdx(votes)].verdict # "none"
           /\ \E j \in Runs : /\ j # MajorityIdx(votes)
                               /\ votes[j].verdict = votes[MajorityIdx(votes)].verdict
  BY DEF Achieved, Same, MajorityIdx, Runs

\* A success is the verdict of two different runs.
LEMMA SuccessIsTwoPasses ==
    ASSUME ConsensusInv, Concluded, result.success
    PROVE  \E i, j \in Runs : i # j /\ outs[i].verdict = "pass" /\ outs[j].verdict = "pass"
  <1>1. PICK d \in Divergences(mode # "mock") : result = Decide(agent, outs, d, envTrue)
    BY Decided
  <1>2. ~(IsBroken(d) \/ ~Achieved(outs))
    <2> SUFFICES ASSUME IsBroken(d) \/ ~Achieved(outs) PROVE FALSE
      OBVIOUS
    <2>1. result = [success |-> FALSE, risk |-> d, status |-> "REJECTED_DIVERGENCE_ALARM"]
      BY <1>1 DEF Decide
    <2> QED  BY <2>1
  <1>3. outs[MajorityIdx(outs)].verdict = "pass"
    BY <1>1, <1>2 DEF Decide
  <1> QED  BY <1>2, <1>3, MajorityAgrees

\* Two of three runs are a majority, and leave at most one.
LEMMA TwoOfThree ==
    ASSUME NEW S \in SUBSET Runs, NEW i \in Runs, NEW j \in Runs, i # j
    PROVE  /\ IsFiniteSet(S)
           /\ i \in S /\ j \in S => Cardinality(S) >= 2
           /\ i \notin S /\ j \notin S => Cardinality(S) < 2
  <1>1. IsFiniteSet(Runs) /\ Cardinality(Runs) = 3
    <2>1. IsFiniteSet(1..3) /\ Cardinality(1..3) = IF 1 > 3 THEN 0 ELSE 3 - 1 + 1
      BY 1 \in Int, 3 \in Int, FS_Interval, Zenon
    <2> QED  BY <2>1 DEF Runs
  <1>2. IsFiniteSet(S) /\ Cardinality(S) \in Nat
    BY <1>1, FS_Subset, FS_CardinalityType
  <1>3. /\ IsFiniteSet(S \ {i}) /\ IsFiniteSet((S \ {i}) \ {j})
        /\ Cardinality((S \ {i}) \ {j}) \in Nat
    BY <1>2, FS_RemoveElement, FS_CardinalityType
  <1>4. ASSUME i \in S, j \in S PROVE Cardinality(S) >= 2
    <2>1. Cardinality(S \ {i}) = Cardinality(S) - 1
      BY <1>2, <1>4, FS_RemoveElement
    <2>2. Cardinality((S \ {i}) \ {j}) = Cardinality(S \ {i}) - 1
      BY <1>3, <1>4, FS_RemoveElement
    <2> QED  BY <1>2, <1>3, <2>1, <2>2
  <1>5. ASSUME i \notin S, j \notin S PROVE Cardinality(S) < 2
    <2>1. IsFiniteSet((Runs \ {i}) \ {j}) /\ Cardinality((Runs \ {i}) \ {j}) = 1
      <3>1. IsFiniteSet(Runs \ {i}) /\ Cardinality(Runs \ {i}) = 2
        BY <1>1, FS_RemoveElement
      <3> QED  BY <3>1, FS_RemoveElement
    <2>2. S \in SUBSET ((Runs \ {i}) \ {j})
      BY <1>5
    <2> QED  BY <1>2, <2>1, <2>2, FS_Subset
  <1> QED  BY <1>2, <1>4, <1>5

\* consensus.py: a success is carried by two runs that passed, however the threads
\* interleave and whoever supplied the outputs.
THEOREM MajorityDecides == Spec => []MajorityCarries
  <1>1. ASSUME ConsensusInv, Concluded, result.success
        PROVE  Cardinality({k \in Runs : outs[k].verdict = "pass"}) >= 2
    <2>1. PICK i, j \in Runs : i # j /\ outs[i].verdict = "pass" /\ outs[j].verdict = "pass"
      BY <1>1, SuccessIsTwoPasses
    <2> DEFINE S == {k \in Runs : outs[k].verdict = "pass"}
    <2>2. S \in SUBSET Runs /\ i \in S /\ j \in S
      BY <2>1
    <2> QED  BY <2>1, <2>2, TwoOfThree
  <1>2. ConsensusInv => MajorityCarries
    BY <1>1 DEF MajorityCarries
  <1> QED  BY <1>2, GateInvariant, PTL

\* strict_mode.py, for every agent of the registry: with its flag strict, the gate
\* reports no success when two of its runs found something they score 80 or more.
THEOREM HighRiskStopped == Spec => []HighRiskFailsClosed
  <1>1. ASSUME ConsensusInv, Concluded, mode # "mock", strict, result.success
        PROVE  Cardinality({k \in Runs : outs[k].found /\ outs[k].risk >= HighRisk}) < 2
    <2>1. PICK i, j \in Runs : i # j /\ outs[i].verdict = "pass" /\ outs[j].verdict = "pass"
      BY <1>1, SuccessIsTwoPasses
    <2>2. \A k \in Runs : outs[k] \in Outputs(agent, strict)
      BY <1>1, Decided DEF Answers
    <2>3. \A k \in Runs : FailsClosed(outs[k], strict)
      BY <1>1, <2>2, Decided, AnswersProduced DEF ConsensusInv
    <2> DEFINE S == {k \in Runs : outs[k].found /\ outs[k].risk >= HighRisk}
    <2>4. S \in SUBSET Runs /\ i \notin S /\ j \notin S
      BY <1>1, <2>1, <2>3 DEF FailsClosed
    <2> QED  BY <2>1, <2>4, TwoOfThree
  <1>2. ConsensusInv => HighRiskFailsClosed
    BY <1>1 DEF HighRiskFailsClosed
  <1> QED  BY <1>2, GateInvariant, PTL

\* The decision is the one three equal outputs, those of the majority, would give.
LEMMA DecideMajority ==
    ASSUME NEW name, NEW votes, NEW d, NEW e, ~IsBroken(d), Achieved(votes),
           NEW c, ~IsBroken(c)
    PROVE  Decide(name, votes, d, e)
             = Decide(name, Unanimous(votes[MajorityIdx(votes)]), c, e)
  <1> DEFINE o == votes[MajorityIdx(votes)]
             w == Unanimous(o)
  <1>1. o.verdict # "none"
    BY MajorityAgrees
  <1>2. \A k \in Runs : w[k] = o
    BY DEF Unanimous
  <1> HIDE DEF o, w
  <1>3. Achieved(w) /\ w[MajorityIdx(w)] = o
    BY <1>1, <1>2 DEF Achieved, Same, MajorityIdx, Runs
  <1>4. Decide(name, votes, d, e) = Decide(name, w, c, e)
    BY <1>3 DEF Decide, o
  <1> QED  BY <1>4 DEF o, w

\* consensus.py: the answer is one that the orchestrator's model of the gate allows,
\* for every registered agent, flag and interleaving; so a real run never ends in a
\* divergence alarm.
THEOREM AnswersAllowed == Spec => []AnswerAllowed
  <1>1. ASSUME ConsensusInv, Concluded, mode # "mock"
        PROVE  result \in Decisions(agent, strict, envTrue)
    <2>1. PICK d \in Divergences(mode # "mock") : result = Decide(agent, outs, d, envTrue)
      BY <1>1, Decided
    <2>2. ~IsBroken(d) /\ ~IsBroken(0)
      BY <1>1, <2>1 DEF Divergences, IsBroken, Threshold
    <2>3. \A k \in Runs : outs[k] \in Outputs(agent, strict) /\ outs[k].verdict \in {"pass", "fail"}
      <3>1. \A k \in Runs : outs[k] \in Outputs(agent, strict)
        BY <1>1, Decided DEF Answers
      <3> QED  BY <1>1, <3>1, Decided, AnswersProduced DEF ConsensusInv, FailsClosed, OutputType
    <2>4. Achieved(outs)
      BY <2>3 DEF Achieved, Same, Runs
    <2>5. outs[MajorityIdx(outs)] \in Outputs(agent, strict)
      BY <2>3, <2>4, MajorityAgrees
    <2>6. result = Decide(agent, Unanimous(outs[MajorityIdx(outs)]), 0, envTrue)
      BY <2>1, <2>2, <2>4, DecideMajority
    <2> QED  BY <2>5, <2>6 DEF Decisions
  <1>2. ASSUME ConsensusInv, Concluded, mode = "mock"
        PROVE  result \in InjectedDecisions(agent, envTrue)
    <2>1. PICK d \in Divergences(FALSE) : result = Decide(agent, outs, d, envTrue)
      BY <1>2, Decided DEF Divergences
    <2>2. CASE ~IsBroken(d) /\ Achieved(outs)
      <3>1. outs[MajorityIdx(outs)] \in MockOutputs
        BY <1>2, <2>2, Decided, MajorityAgrees DEF Answers
      <3>2. result = Decide(agent, Unanimous(outs[MajorityIdx(outs)]), d, envTrue)
        BY <2>1, <2>2, DecideMajority
      <3>3. \E o \in MockOutputs, c \in Divergences(FALSE) :
                result = Decide(agent, Unanimous(o), c, envTrue)
        BY <2>1, <3>1, <3>2, Zenon
      <3> QED  BY <3>3, SMT DEF InjectedDecisions, Divergences
    <2>3. CASE IsBroken(d) \/ ~Achieved(outs)
      <3>1. ~Achieved(Unanimous(NoVerdict))
        BY DEF Unanimous, Achieved, Same, Runs, NoVerdict
      <3>2. result = Decide(agent, Unanimous(NoVerdict), d, envTrue)
        BY <2>1, <2>3, <3>1 DEF Decide
      <3>3. NoVerdict \in MockOutputs
        BY DEF MockOutputs
      <3>4. \E o \in MockOutputs, c \in Divergences(FALSE) :
                result = Decide(agent, Unanimous(o), c, envTrue)
        BY <2>1, <3>2, <3>3, Zenon
      <3> QED  BY <3>4, SMT DEF InjectedDecisions, Divergences
    <2> QED  BY <2>2, <2>3
  <1>3. ConsensusInv => AnswerAllowed
    BY <1>1, <1>2 DEF AnswerAllowed
  <1> QED  BY <1>3, GateInvariant, PTL
=============================================================================

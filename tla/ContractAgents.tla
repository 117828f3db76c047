--------------------------- MODULE ContractAgents ---------------------------
(***************************************************************************)
(* The agents of registrations 1 to 14: contracts, bridges and ledgers.    *)
(***************************************************************************)
EXTENDS AgentVerdicts

\* Registrations 1: PiGitSecScanner to PiArithmeticAuditor.
PiGitSecScanner(s) == AtLeast(80, {75, 85, 90, 95}, s)
PiPromptLeakBuster(s) == AtLeast(80, {80, 85, 95}, s)
PiPublisherDispatch(s) == Unpriced(AtLeast(70, {95}, s))
PiMempoolSentry(s) == AtLeast(80, {75, 80, 85, 90}, s)
PiArbitrageGuard(s) ==
    {Out(TRUE, 0, FALSE), Out(FALSE, 0, FALSE)} \cup (IF s THEN {Out(FALSE, 0, TRUE)} ELSE {})
PiOracleSentry(s) == Unpriced(AtLeast(80, {85, 90, 99}, s))
PiSelfHealingPatchAgent(s) == {Clean, Out(FALSE, 0, FALSE)} \cup {Out(~s, 0, TRUE)}
PiReentrancySentry(s) == Strictly({95}, s)
PiAccessControlVerifier(s) == Strictly({95}, s)
PiFlashLoanDefender(s) == Strictly({95}, s)
PiArithmeticAuditor(s) == Strictly({95}, s)
NicheCurationPipelineChain(s) == PiPublisherDispatch(s)
Routes01(s) ==
    [PiGitSecScanner |-> PiGitSecScanner(s), PiPromptLeakBuster |-> PiPromptLeakBuster(s),
     NicheCurationPipelineChain |-> NicheCurationPipelineChain(s), PiPublisherDispatch |-> PiPublisherDispatch(s),
     PiMempoolSentry |-> PiMempoolSentry(s), PiArbitrageGuard |-> PiArbitrageGuard(s),
     PiOracleSentry |-> PiOracleSentry(s), PiSelfHealingPatchAgent |-> PiSelfHealingPatchAgent(s),
     PiReentrancySentry |-> PiReentrancySentry(s), PiAccessControlVerifier |-> PiAccessControlVerifier(s),
     PiFlashLoanDefender |-> PiFlashLoanDefender(s), PiArithmeticAuditor |-> PiArithmeticAuditor(s)]

\* Registrations 2: PiDelegateCallGuard to PiBlockTimestampSentry.
PiDelegateCallGuard(s) == Strictly({95}, s)
PiSignatureReplayScout(s) == Strictly({95}, s)
PiBytecodeDecompiler(s) == Strictly({90}, s)
PiVyperSecScanner(s) == Strictly({90}, s)
PiSelfDestructHunter(s) == Strictly({95}, s)
PiOracleDivergenceAudit(s) == Strictly({90}, s)
PiTokenTaxDetector(s) == Strictly({85}, s)
PiTxOriginSentry(s) == Strictly({90}, s)
PiReadOnlyReentrancySentry(s) == Strictly({90}, s)
PiUninitializedStateSentry(s) == Strictly({90}, s)
PiShadowedVariableDetector(s) == Strictly({80}, s)
PiBlockTimestampSentry(s) == Strictly({85}, s)
Routes02(s) ==
    [PiDelegateCallGuard |-> PiDelegateCallGuard(s), PiSignatureReplayScout |-> PiSignatureReplayScout(s),
     PiBytecodeDecompiler |-> PiBytecodeDecompiler(s), PiVyperSecScanner |-> PiVyperSecScanner(s),
     PiSelfDestructHunter |-> PiSelfDestructHunter(s), PiOracleDivergenceAudit |-> PiOracleDivergenceAudit(s),
     PiTokenTaxDetector |-> PiTokenTaxDetector(s), PiTxOriginSentry |-> PiTxOriginSentry(s),
     PiReadOnlyReentrancySentry |-> PiReadOnlyReentrancySentry(s),
     PiUninitializedStateSentry |-> PiUninitializedStateSentry(s),
     PiShadowedVariableDetector |-> PiShadowedVariableDetector(s),
     PiBlockTimestampSentry |-> PiBlockTimestampSentry(s)]

\* Registrations 3: PiStorageLayoutDrift to PiCentralizationSentry.
PiStorageLayoutDrift(s) == Strictly({95}, s) \cup {Out(TRUE, 50, FALSE)}
PiERC4626VaultGuard(s) == Strictly({90}, s) \cup {Out(FALSE, 40, TRUE)}
PiCrossChainBridgeAuditor(s) == Strictly({72, 84, 98}, s) \cup {Out(TRUE, 25, FALSE)}
PiGasGuzzlerDetector(s) == Strictly({80}, s)
PiAssemblyLethalWeapons(s) == Strictly({90}, s)
PiLogicGatekeeper(s) == Strictly({85}, s)
PiPhishingShield(s) == Strictly({85}, s)
PiExternalContractGuard(s) == Strictly({80}, s)
PiCentralizationSentry(s) == Strictly({80}, s)
Routes03(s) ==
    [PiStorageLayoutDrift |-> PiStorageLayoutDrift(s), PiERC4626VaultGuard |-> PiERC4626VaultGuard(s),
     PiCrossChainBridgeAuditor |-> PiCrossChainBridgeAuditor(s), PiGasGuzzlerDetector |-> PiGasGuzzlerDetector(s),
     PiAssemblyLethalWeapons |-> PiAssemblyLethalWeapons(s), PiLogicGatekeeper |-> PiLogicGatekeeper(s),
     PiPhishingShield |-> PiPhishingShield(s), PiExternalContractGuard |-> PiExternalContractGuard(s),
     PiCentralizationSentry |-> PiCentralizationSentry(s)]

\* Registrations 4: PiFloatingPragmaSentry to PiSolidityCompilerBugsSentry.
PiFloatingPragmaSentry(s) == Strictly({80}, s)
PiUpgradeDefectDetector(s) == Strictly({85}, s)
PiDoSGasLimitsSentry(s) == Strictly({80}, s)
PiDeFiSlippageGuard(s) == Strictly({90}, s)
PiReentrancyGuardSpec(s) == Strictly({90}, s)
PiUniswapV3PoolSentry(s) == Strictly({95}, s)
PiSandwichMEVShield(s) == Strictly({90}, s)
PiSolidityCompilerBugsSentry(s) == Strictly({85}, s)
Routes04(s) ==
    [PiFloatingPragmaSentry |-> PiFloatingPragmaSentry(s), PiUpgradeDefectDetector |-> PiUpgradeDefectDetector(s),
     PiDoSGasLimitsSentry |-> PiDoSGasLimitsSentry(s), PiDeFiSlippageGuard |-> PiDeFiSlippageGuard(s),
     PiReentrancyGuardSpec |-> PiReentrancyGuardSpec(s), PiUniswapV3PoolSentry |-> PiUniswapV3PoolSentry(s),
     PiSandwichMEVShield |-> PiSandwichMEVShield(s),
     PiSolidityCompilerBugsSentry |-> PiSolidityCompilerBugsSentry(s)]

\* Registrations 5: PiAccessControlShadow to PiEIP712SignatureLinter.
PiAccessControlShadow(s) == Strictly({90}, s)
PiLLMHallucinationDetector(s) == Strictly({75}, s)
PiERC20PermitPhishingGuard(s) == Strictly({90}, s)
PiSolidityReentrancyMutexSentry(s) == Strictly({80}, s)
PiDeFiMathRoundingSentry(s) == Strictly({90}, s)
PiCrossChainMessageReplaySentry(s) == Strictly({95}, s)
PiSolidityTransientStorageSentry(s) == Strictly({80}, s)
PiEIP712SignatureLinter(s) == Strictly({75}, s)
Routes05(s) ==
    [PiAccessControlShadow |-> PiAccessControlShadow(s),
     PiLLMHallucinationDetector |-> PiLLMHallucinationDetector(s),
     PiERC20PermitPhishingGuard |-> PiERC20PermitPhishingGuard(s),
     PiSolidityReentrancyMutexSentry |-> PiSolidityReentrancyMutexSentry(s),
     PiDeFiMathRoundingSentry |-> PiDeFiMathRoundingSentry(s),
     PiCrossChainMessageReplaySentry |-> PiCrossChainMessageReplaySentry(s),
     PiSolidityTransientStorageSentry |-> PiSolidityTransientStorageSentry(s),
     PiEIP712SignatureLinter |-> PiEIP712SignatureLinter(s)]

\* Registrations 6: PiReadOnlyOracleManipulationSentry to PiVyperExternalCallSentry.
PiReadOnlyOracleManipulationSentry(s) == Strictly({85}, s)
PiRustAnchorSecuritySentry(s) == Strictly({85}, s)
PiEIP4337AccountAbstractionSentry(s) == Strictly({75}, s)
PiZeroKnowledgeCircuitSentry(s) == Strictly({90}, s)
PiERC7702DelegationGuard(s) == Strictly({80}, s)
PiLLMPromptInjectionSentry(s) == Strictly({95}, s)
PiVyperStateLockSentry(s) == Strictly({80}, s)
PiSolidityUpgradeableInitializerSentry(s) == Strictly({90}, s)
PiVyperExternalCallSentry(s) == Strictly({80}, s)
Routes06(s) ==
    [PiReadOnlyOracleManipulationSentry |-> PiReadOnlyOracleManipulationSentry(s),
     PiRustAnchorSecuritySentry |-> PiRustAnchorSecuritySentry(s),
     PiEIP4337AccountAbstractionSentry |-> PiEIP4337AccountAbstractionSentry(s),
     PiZeroKnowledgeCircuitSentry |-> PiZeroKnowledgeCircuitSentry(s),
     PiERC7702DelegationGuard |-> PiERC7702DelegationGuard(s),
     PiLLMPromptInjectionSentry |-> PiLLMPromptInjectionSentry(s),
     PiVyperStateLockSentry |-> PiVyperStateLockSentry(s),
     PiSolidityUpgradeableInitializerSentry |-> PiSolidityUpgradeableInitializerSentry(s),
     PiVyperExternalCallSentry |-> PiVyperExternalCallSentry(s)]

\* Registrations 7: PiSoliditySignatureMalleabilitySentry to PiSolidityERC7702CodeSentry.
PiSoliditySignatureMalleabilitySentry(s) == Strictly({75}, s)
PiZKCircomDivisionSentry(s) == Strictly({70}, s)
PiEIP712DomainSeparatorSentry(s) == Strictly({80}, s)
PiSolidityArbitraryTransferSentry(s) == Strictly({75}, s)
PiSolidityDelegatecallStorageSentry(s) == Strictly({80}, s)
PiSolidityOracleLivenessSentry(s) == Strictly({80}, s)
PiLLMSystemPromptDriftSentry(s) == Strictly({90}, s)
PiSolidityDirtyMemorySentry(s) == Strictly({75}, s)
PiSolidityERC7702CodeSentry(s) == Strictly({80}, s)
Routes07(s) ==
    [PiSoliditySignatureMalleabilitySentry |-> PiSoliditySignatureMalleabilitySentry(s),
     PiZKCircomDivisionSentry |-> PiZKCircomDivisionSentry(s),
     PiEIP712DomainSeparatorSentry |-> PiEIP712DomainSeparatorSentry(s),
     PiSolidityArbitraryTransferSentry |-> PiSolidityArbitraryTransferSentry(s),
     PiSolidityDelegatecallStorageSentry |-> PiSolidityDelegatecallStorageSentry(s),
     PiSolidityOracleLivenessSentry |-> PiSolidityOracleLivenessSentry(s),
     PiLLMSystemPromptDriftSentry |-> PiLLMSystemPromptDriftSentry(s),
     PiSolidityDirtyMemorySentry |-> PiSolidityDirtyMemorySentry(s),
     PiSolidityERC7702CodeSentry |-> PiSolidityERC7702CodeSentry(s)]

\* Registrations 8: PiSolidityTransientStorageReentrancySentry to PiSolidityCreate2SaltCollisionSentry.
PiSolidityTransientStorageReentrancySentry(s) == Strictly({85}, s)
PiSolidityL2GasFeeSentry(s) == Strictly({70}, s)
PiZKCircomUnderconstrainedSentry(s) == Strictly({90}, s)
PiRustSolanaReentrancySentry(s) == Strictly({80}, s)
PiSolidityPriceFeedSequencerSentry(s) == Strictly({75}, s)
PiSolidityERC20TransferRecipientSentry(s) == Strictly({65}, s)
PiSolidityEIP712TypehashMismatchSentry(s) == Strictly({80}, s)
PiSolidityCreate2SaltCollisionSentry(s) == Strictly({75}, s)
Routes08(s) ==
    [PiSolidityTransientStorageReentrancySentry |-> PiSolidityTransientStorageReentrancySentry(s),
     PiSolidityL2GasFeeSentry |-> PiSolidityL2GasFeeSentry(s),
     PiZKCircomUnderconstrainedSentry |-> PiZKCircomUnderconstrainedSentry(s),
     PiRustSolanaReentrancySentry |-> PiRustSolanaReentrancySentry(s),
     PiSolidityPriceFeedSequencerSentry |-> PiSolidityPriceFeedSequencerSentry(s),
     PiSolidityERC20TransferRecipientSentry |-> PiSolidityERC20TransferRecipientSentry(s),
     PiSolidityEIP712TypehashMismatchSentry |-> PiSolidityEIP712TypehashMismatchSentry(s),
     PiSolidityCreate2SaltCollisionSentry |-> PiSolidityCreate2SaltCollisionSentry(s)]

\* Registrations 9: PiSolidityArrayLengthSentry to PiVyperStorageLayoutCollisionSentry.
PiSolidityArrayLengthSentry(s) == Strictly({70}, s)
PiLLMPromptInjectionNegativeConstraintSentry(s) == Strictly({90}, s)
PiSolidityDelegateCallToSelfSentry(s) == Strictly({85}, s)
PiSolidityBlockTimestampIntervalSentry(s) == Strictly({65}, s)
PiSolidityAssemblyMemorySafeSentry(s) == Strictly({80}, s)
PiRustSolanaSignerAssertionSentry(s) == Strictly({90}, s)
PiZKCircomShadowSignalSentry(s) == Strictly({75}, s)
PiSolidityPriceFeedFallbackSentry(s) == Strictly({70}, s)
PiVyperStorageLayoutCollisionSentry(s) == Strictly({80}, s)
Routes09(s) ==
    [PiSolidityArrayLengthSentry |-> PiSolidityArrayLengthSentry(s),
     PiLLMPromptInjectionNegativeConstraintSentry |-> PiLLMPromptInjectionNegativeConstraintSentry(s),
     PiSolidityDelegateCallToSelfSentry |-> PiSolidityDelegateCallToSelfSentry(s),
     PiSolidityBlockTimestampIntervalSentry |-> PiSolidityBlockTimestampIntervalSentry(s),
     PiSolidityAssemblyMemorySafeSentry |-> PiSolidityAssemblyMemorySafeSentry(s),
     PiRustSolanaSignerAssertionSentry |-> PiRustSolanaSignerAssertionSentry(s),
     PiZKCircomShadowSignalSentry |-> PiZKCircomShadowSignalSentry(s),
     PiSolidityPriceFeedFallbackSentry |-> PiSolidityPriceFeedFallbackSentry(s),
     PiVyperStorageLayoutCollisionSentry |-> PiVyperStorageLayoutCollisionSentry(s)]

\* Registrations 10: PiLLMPromptInjectionSystemPromptOverrideSentry to PiSolidityFlashLoanAttack.
PiLLMPromptInjectionSystemPromptOverrideSentry(s) == Strictly({95}, s)
PiDockerComposeSecuritySentry(s) == Strictly({90}, s)
PiGitSecretLeakSentry(s) == Strictly({95}, s)
PiRustTuiResourceLimit(s) == Strictly({70}, s)
PiGrpcProtocolInterceptor(s) == Strictly({75}, s)
PiDeterministicOutputValid(s) == Strictly({65}, s)
PiZeroTrustExecutionDomain(s) == Strictly({80}, s)
PiSolidityFlashLoanAttack(s) == Strictly({90}, s)
Routes10(s) ==
    [PiLLMPromptInjectionSystemPromptOverrideSentry |-> PiLLMPromptInjectionSystemPromptOverrideSentry(s),
     PiDockerComposeSecuritySentry |-> PiDockerComposeSecuritySentry(s),
     PiGitSecretLeakSentry |-> PiGitSecretLeakSentry(s), PiRustTuiResourceLimit |-> PiRustTuiResourceLimit(s),
     PiGrpcProtocolInterceptor |-> PiGrpcProtocolInterceptor(s),
     PiDeterministicOutputValid |-> PiDeterministicOutputValid(s),
     PiZeroTrustExecutionDomain |-> PiZeroTrustExecutionDomain(s),
     PiSolidityFlashLoanAttack |-> PiSolidityFlashLoanAttack(s)]

\* Registrations 11: PiZKProofPublicInputVerif to PiSolidityExternalContractsReturnCheck.
PiZKProofPublicInputVerif(s) == Strictly({80}, s)
PiAdversarialEvaluatorSim(s) == Strictly({85}, s)
PiRustTokioDeadlockSentry(s) == Strictly({75}, s)
PiApiReverseEngineeredAuth(s) == Strictly({80}, s)
PiSemanticSchemaRegistry(s) == Strictly({60}, s)
PiSolidityReentrancyGuardOverlapSentry(s) == Strictly({65}, s)
PiSolidityTxOriginCallCheckSentry(s) == Strictly({85}, s)
PiSolidityArrayLengthMutationSentry(s) == Strictly({90}, s)
PiSolidityExternalContractsReturnCheck(s) == Strictly({80}, s)
Routes11(s) ==
    [PiZKProofPublicInputVerif |-> PiZKProofPublicInputVerif(s),
     PiAdversarialEvaluatorSim |-> PiAdversarialEvaluatorSim(s),
     PiRustTokioDeadlockSentry |-> PiRustTokioDeadlockSentry(s),
     PiApiReverseEngineeredAuth |-> PiApiReverseEngineeredAuth(s),
     PiSemanticSchemaRegistry |-> PiSemanticSchemaRegistry(s),
     PiSolidityReentrancyGuardOverlapSentry |-> PiSolidityReentrancyGuardOverlapSentry(s),
     PiSolidityTxOriginCallCheckSentry |-> PiSolidityTxOriginCallCheckSentry(s),
     PiSolidityArrayLengthMutationSentry |-> PiSolidityArrayLengthMutationSentry(s),
     PiSolidityExternalContractsReturnCheck |-> PiSolidityExternalContractsReturnCheck(s)]

\* Registrations 12: PiSolidityUnboundedLoopsInStateMutation to PiSolidityYulMemoryOffsetAudit.
PiSolidityUnboundedLoopsInStateMutation(s) == Strictly({75}, s)
PiSolidityDivideBeforeMultiplyAuditor(s) == Strictly({70}, s)
PiSolidityInitializableGapSentry(s) == Strictly({80}, s)
PiSoliditySelfdestructCodeEraseSentry(s) == Strictly({80}, s)
PiSoliditySignatureOmittedReplaySentry(s) == Strictly({85}, s)
PiSolidityOwnerTimelockSentry(s) == Strictly({65}, s)
PiSolidityERC20SafeApproveAuditor(s) == Strictly({75}, s)
PiSolidityUndeclaredReturnVariableSentry(s) == Strictly({75}, s)
PiSolidityYulMemoryOffsetAudit(s) == Strictly({85}, s)
Routes12(s) ==
    [PiSolidityUnboundedLoopsInStateMutation |-> PiSolidityUnboundedLoopsInStateMutation(s),
     PiSolidityDivideBeforeMultiplyAuditor |-> PiSolidityDivideBeforeMultiplyAuditor(s),
     PiSolidityInitializableGapSentry |-> PiSolidityInitializableGapSentry(s),
     PiSoliditySelfdestructCodeEraseSentry |-> PiSoliditySelfdestructCodeEraseSentry(s),
     PiSoliditySignatureOmittedReplaySentry |-> PiSoliditySignatureOmittedReplaySentry(s),
     PiSolidityOwnerTimelockSentry |-> PiSolidityOwnerTimelockSentry(s),
     PiSolidityERC20SafeApproveAuditor |-> PiSolidityERC20SafeApproveAuditor(s),
     PiSolidityUndeclaredReturnVariableSentry |-> PiSolidityUndeclaredReturnVariableSentry(s),
     PiSolidityYulMemoryOffsetAudit |-> PiSolidityYulMemoryOffsetAudit(s)]

\* Registrations 13: PiSolidityProxyCallTargetCheck to PiRustSolanaReentrancyCrossProgramSentry.
PiSolidityProxyCallTargetCheck(s) == Strictly({95}, s)
PiSolidityConstantPragmaValidation(s) == Strictly({50}, s)
PiRustSolanaAccountDataValidation(s) == Strictly({80}, s)
PiRustSolanaMissingSignerAssert(s) == Strictly({85}, s)
PiRustSolanaArithmeticOverflowCheck(s) == Strictly({75}, s)
PiRustSolanaOwnerVerificationGuard(s) == Strictly({80}, s)
PiRustSolanaCPIInstructionSentry(s) == Strictly({75}, s)
PiRustSolanaBorshSerializationLeak(s) == Strictly({65}, s)
PiRustSolanaReentrancyCrossProgramSentry(s) == Strictly({70}, s)
Routes13(s) ==
    [PiSolidityProxyCallTargetCheck |-> PiSolidityProxyCallTargetCheck(s),
     PiSolidityConstantPragmaValidation |-> PiSolidityConstantPragmaValidation(s),
     PiRustSolanaAccountDataValidation |-> PiRustSolanaAccountDataValidation(s),
     PiRustSolanaMissingSignerAssert |-> PiRustSolanaMissingSignerAssert(s),
     PiRustSolanaArithmeticOverflowCheck |-> PiRustSolanaArithmeticOverflowCheck(s),
     PiRustSolanaOwnerVerificationGuard |-> PiRustSolanaOwnerVerificationGuard(s),
     PiRustSolanaCPIInstructionSentry |-> PiRustSolanaCPIInstructionSentry(s),
     PiRustSolanaBorshSerializationLeak |-> PiRustSolanaBorshSerializationLeak(s),
     PiRustSolanaReentrancyCrossProgramSentry |-> PiRustSolanaReentrancyCrossProgramSentry(s)]

\* Registrations 14: PiRustSolanaSysvarClockVerification to PiLLMSystemPromptHijackSentry.
PiRustSolanaSysvarClockVerification(s) == Strictly({55}, s)
PiZKSignalUnconstrainedConstraint(s) == Strictly({90}, s)
PiZKDivByZeroConstraintAuditor(s) == Strictly({75}, s)
PiZKSignalShadowingSignalSentry(s) == Strictly({65}, s)
PiZKPublicInputLeakageAuditor(s) == Strictly({80}, s)
PiZKNonPrimeFieldRangeSentry(s) == Strictly({85}, s)
PiZKUnusedConstraintVariables(s) == Strictly({70}, s)
PiZKProofForgingValidationSentry(s) == Strictly({80}, s)
PiLLMSystemPromptHijackSentry(s) == Strictly({90}, s)
Routes14(s) ==
    [PiRustSolanaSysvarClockVerification |-> PiRustSolanaSysvarClockVerification(s),
     PiZKSignalUnconstrainedConstraint |-> PiZKSignalUnconstrainedConstraint(s),
     PiZKDivByZeroConstraintAuditor |-> PiZKDivByZeroConstraintAuditor(s),
     PiZKSignalShadowingSignalSentry |-> PiZKSignalShadowingSignalSentry(s),
     PiZKPublicInputLeakageAuditor |-> PiZKPublicInputLeakageAuditor(s),
     PiZKNonPrimeFieldRangeSentry |-> PiZKNonPrimeFieldRangeSentry(s),
     PiZKUnusedConstraintVariables |-> PiZKUnusedConstraintVariables(s),
     PiZKProofForgingValidationSentry |-> PiZKProofForgingValidationSentry(s),
     PiLLMSystemPromptHijackSentry |-> PiLLMSystemPromptHijackSentry(s)]
=============================================================================

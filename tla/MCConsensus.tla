----------------------------- MODULE MCConsensus -----------------------------
(* The agents the gate names, and one agent of every family.               *)
EXTENDS Consensus

MCSubjects ==
    {"PiArbitrageGuard", "PiPublisherDispatch", "PiOracleSentry", "PiSelfHealingPatchAgent",
     "PiGitSecScanner", "PiReentrancySentry", "PiReadmeValidator", "PiTriageBugLabels",
     "PiERC4626VaultGuard", "PiWebVulnScanner", "PiFirewallRuleAuditor",
     "PiDataFlowPrivacyMapper", "PiCloudCostAnalyzer"}
=============================================================================

---------------------------- MODULE MCDeployment ----------------------------
(* A plan with the three branches of a real one: contracts, CRE and image.   *)
EXTENDS DeploymentOrchestrator

MCType == <<"DEPLOY_CONTRACT", "REGISTER_POLICY_DISABLED", "DEPLOY_CRE_PRIVATE",
            "PAUSE_CRE", "BUILD_RUNTIME_IMAGE", "SCAN_RUNTIME_IMAGE",
            "POST_DEPLOY_VERIFY">>
MCDeps == <<{}, {1}, {}, {3}, {}, {5}, {2, 4, 6}>>
=============================================================================

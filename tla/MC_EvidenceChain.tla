-------------------------- MODULE MC_EvidenceChain --------------------------
EXTENDS EvidenceChain

MC_Wired == <<"model-call", "evaluator", "grade">>
MC_WiredT1 == <<"model-call", "candidate-validation", "evaluator", "grade">>
=============================================================================

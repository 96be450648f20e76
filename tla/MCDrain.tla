------------------------------- MODULE MCDrain --------------------------------
EXTENDS Drain, TLC

MCSummaryWords == {"n", "m2"}
MCTopkWords    == {"samples"}

SampleSymmetry == Permutations(Samples)
===============================================================================

---------------------------- MODULE MCTopKPipeline ----------------------------
EXTENDS TopKPipeline

MCValues == {1, 2, 3}
===============================================================================

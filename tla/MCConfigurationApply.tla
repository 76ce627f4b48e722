----------------------- MODULE MCConfigurationApply -----------------------
EXTENDS ConfigurationApply
CONSTANTS r1, r2, w1, w2, c1, c2, c3
===========================================================================

---------------------------- MODULE MCRegression ----------------------------
EXTENDS Regression

CONSTANTS w1, w2
=============================================================================

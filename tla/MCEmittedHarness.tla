-------------------------- MODULE MCEmittedHarness --------------------------
EXTENDS EmittedHarness

CONSTANTS stdout, stderr
=============================================================================

---------------------------- MODULE MCWorkspace ----------------------------
EXTENDS Workspace, TLC

CONSTANTS a, b
=============================================================================

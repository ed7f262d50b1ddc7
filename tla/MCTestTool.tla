----------------------------- MODULE MCTestTool -----------------------------
(* TestTool with one address.                                               *)
EXTENDS TestTool

CONSTANTS k1

OneKey == {k1}

Failing == {"fail"}
=============================================================================

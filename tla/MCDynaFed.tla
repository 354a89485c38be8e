----------------------------- MODULE MCDynaFed -----------------------------
(* An instance of DynaFed: a proposal that changes everything, one that    *)
(* changes the federation script only, and entries no header may propose.  *)
EXTENDS DynaFed

\* A new signing script, federation and PAK list.
NewFederation == Full(P2WSH("sign2"), P2WSH("fed2"), "fed2", "pak2")
\* The first signers and PAK list with a federation script of a later version.
LaterVersion == Full(P2WSH("sign1"), <<"v1", "key">>, "fed3", "pak1")
\* A federation script that starts with OP_DEPTH.
Legacy == Full(P2WSH("sign1"), P2WSH("fed4"), "fed4", "pak1")
\* A program that is not its script's, and an entry that elides its data.
Mismatched == Full(P2WSH("sign1"), P2WSH("fed2"), "fed3", "pak1")
Pruned == Compact(P2WSH("sign2"), CalculateExtraRoot(NewFederation))

MCProposals == {NewFederation, LaterVersion, Legacy, Mismatched, Pruned}
MCForeignRoots == {<<P2WSH("fed9"), "fed9", "pak9">>}
MCDeployments == {0, 4}
=============================================================================

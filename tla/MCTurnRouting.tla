----------------------------- MODULE MCTurnRouting -----------------------------
(* Small instances of TurnRouting for TLC. *)
EXTENDS TurnRouting

Requested == Models \ {Default, ToolModel}

\* The provider lists nothing or all of them.
SomeLists == {{}, Requested}

\* ENFORCE mode needs receipts, receipts need a provider.
AllSettings ==
    {s \in [inference : BOOLEAN, receipt : BOOLEAN, enforce : BOOLEAN,
            cloud : BOOLEAN, mcp : BOOLEAN] :
        (s.enforce => s.receipt) /\ (s.receipt => s.inference)}

\* One deployment of each kind: the catalog alone, cloud models included, receipts
\* that are shown, receipts that are enforced on a tool loop, and no inference at all.
EachKind ==
    {s \in AllSettings :
        \/ s.inference /\ ~s.receipt /\ ~s.mcp /\ s.cloud
        \/ s.receipt /\ ~s.enforce /\ ~s.mcp /\ ~s.cloud
        \/ s.enforce /\ s.mcp /\ ~s.cloud
        \/ ~s.inference /\ s.mcp /\ s.cloud}
=============================================================================

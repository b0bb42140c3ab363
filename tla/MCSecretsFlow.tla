--------------------------- MODULE MCSecretsFlow ---------------------------
(* Instances of SecretsFlow for TLC.                                        *)
EXTENDS SecretsFlow

Owner(cmd, tx) == [cmd |-> cmd, auth |-> "onchain", tx |-> tx]
InBrowser(cmd) == [cmd |-> cmd, auth |-> "browser", tx |-> "regular"]

\* delete and list differ from upsert in a step only: one of each flow.
AllJobs ==
    {Owner("upsert", tx) : tx \in TxTypes}
        \cup {Owner("delete", "regular"), InBrowser("list"), InBrowser("upsert"),
              Owner("execute", "regular")}
============================================================================

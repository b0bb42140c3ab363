------------------------ MODULE MCOnchainLifecycle ------------------------
(* Instances of OnchainLifecycle for TLC.                                   *)
EXTENDS OnchainLifecycle, TLC

CallSymmetry == Permutations(Calls)

CONSTANTS wa, wb, wc, cli, old, x, y, z, d1, d2

\* An entry, and a registry from the few versions it holds.
E(n, build, st, d, age) == [id |-> <<n, build>>, status |-> st, don |-> d, born |-> age]
Reg(f) == [v \in Versions |-> IF v \in DOMAIN f THEN f[v] ELSE None]

EmptyRegistry == Reg(<<>>)

J(cmd, n, build, d, mode, yes) ==
    [cmd |-> cmd, name |-> n, build |-> build, don |-> d, mode |-> mode, yes |-> yes]

\* run onchain_limit: three names and one slot.  Two calls that overlap fill it
\* twice; wc is held by another tool's version, on this DON or on the other, and
\* an update may take wb from the other DON.
LimitRegistries ==
    {Reg([v \in {<<wa, cli>>, <<wb, cli>>, <<wc, old>>} |->
            CASE v[1] = wa -> E(wa, x, "paused", d1, 1)
              [] v[1] = wb -> E(wb, x, sd[1], d2, 1)
              [] v[1] = wc -> E(wc, x, "active", sd[2], 0)]) :
        sd \in {<<"active", d1>>, <<"paused", d1>>, <<"paused", d2>>}}
LimitJobs ==
    {J("activate", wa, x, d1, "raw", TRUE), J("activate", wb, x, d1, "regular", TRUE),
     J("deploy", wb, y, d1, "raw", TRUE),   J("deploy", wc, y, d1, "regular", TRUE),
     J("pause", wc, x, d1, "regular", TRUE)}

\* run onchain_versions: one name with a version of the CLI and an older one of
\* another tool.
TwoVersions(s1, s2) ==
    Reg([v \in {<<wa, cli>>, <<wa, old>>} |->
           IF v[2] = cli THEN E(wa, x, s1, d1, 1) ELSE E(wa, z, s2, d1, 0)])
VersionRegistries ==
    {TwoVersions(s1, s2) : s1 \in {"active", "paused"}, s2 \in {"active", "paused"}}
    \cup {EmptyRegistry}
VersionJobs ==
    {J("deploy", wa, y, d1, "regular", FALSE), J("deploy", wa, x, d1, "changeset", TRUE),
     J("pause", wa, x, d1, "regular", TRUE),   J("pause", wa, x, d1, "changeset", TRUE),
     J("activate", wa, x, d1, "raw", TRUE),    J("delete", wa, x, d1, "regular", FALSE),
     J("delete", wa, x, d1, "changeset", TRUE)}
===========================================================================

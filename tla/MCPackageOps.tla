---------------------------- MODULE MCPackageOps ----------------------------
EXTENDS PackageOps, TLC

CONSTANTS app, lib, tool

\* Two packages that need the same third one.
Graph == app :> {lib} @@ tool :> {lib} @@ lib :> {}

\* One name, alone or needed by others, and two names that share a dependency.
\* Options an operation does not look at are left at one value.
Asked == {r \in Request : /\ r.names \in {{app}, {lib}, {app, tool}}
                          /\ r.kind = "remove" => ~r.local /\ r.withDeps
                          /\ r.kind # "remove" => ~r.withDependents}

Defaults == {r \in Asked : r.withDeps}
=============================================================================

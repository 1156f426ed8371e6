---- MODULE MCGuardian ----
(* Instance of GuardianAuthority for TLC: the authorization of a release, used *)
(* once, and the trust in a runtime, which lasts.                              *)
EXTENDS GuardianAuthority

CONSTANTS old, new, a1, a2, release, runtime

MCBuilds == {old, new}
MCAdmins == {a1, a2}
MCMaterials == {release, runtime}
MCPersistent == {runtime}
MCConsumer(m) == IF m = release THEN "release-authorization" ELSE "runtime-trust"
====

---------------------------- MODULE ManagedKinds ----------------------------
(***************************************************************************)
(* What sets the kinds driven by controllers/reconciler.go apart, as far   *)
(* as ManagedReconciler can tell: the traits of their AivenControllers.    *)
(* These kinds find and delete their resource by what their spec says.     *)
(* Those that need the identifier in their status for it, ProjectVPC among *)
(* them, may lose their resource with it: they are in RemoteIdentity.      *)
(***************************************************************************)

Traits == {"runsAtOnce",        \* Create and Update mark the instance running;
                                \* elsewhere only Observe does
           "immutable",         \* Update is a no-op
           "compares",          \* Observe compares the remote state with the spec,
                                \* elsewhere only the generations
           "runsWhenApplied",   \* Observe marks it running only if it is up to date,
                                \* elsewhere whenever it is active
           "hasSecret",         \* there is a connection Secret to publish
           "trustsAnnotations", \* Observe takes a 5xx for what it knew before
           "guards",            \* the spec has a termination protection
           "standing"}          \* there is always something to observe, and only
                                \* the spec is compared with it

\* Nothing that stands by itself goes uncompared, and what cannot be updated is
\* never taken for granted.
Kinds == {k \in [Traits -> BOOLEAN] :
             /\ k.standing => k.compares
             /\ k.immutable => ~k.standing /\ ~k.trustsAnnotations}

KindWith(traits) == [t \in Traits |-> t \in traits]

ConnectionPool == KindWith({"runsAtOnce", "compares", "hasSecret"})
KafkaTopic     == KindWith({"trustsAnnotations", "guards"})
Database       == KindWith({"immutable", "guards"})

\* Like Database unprotected; like KafkaTopic without its annotations; like ConnectionPool
\* without a Secret.  What Create does with a resource that exists already
\* (refuse it, adopt it, wait) is no trait: Create follows an Observe that found
\* none, and in ManagedReconciler nobody else makes one in between.
ClickhouseDatabase == KindWith({"immutable"})
ClickhouseRole     == KindWith({"immutable"})
KafkaConnector     == KindWith({})
KafkaQuota         == KindWith({"runsAtOnce", "compares"})

\* The ACL configuration of a service is there as long as the service, so that
\* Create is never needed; Delete resets it.  The model's absent resource is
\* the reset configuration.
OpenSearchACLConfig == KindWith({"runsAtOnce", "compares", "standing"})

\* A Secret with the project's CA once the spec is applied.
Project             == KindWith({"runsWhenApplied", "hasSecret"})
OrganizationProject == KindWith({"runsWhenApplied", "hasSecret", "compares"})
=============================================================================

----------------------------- MODULE MCIdentity -----------------------------
\* RemoteIdentity for TLC: all the kinds (two of them have the same traits).
EXTENDS IdentityInvariant
AllKinds == {ProjectVPC, ServiceIntegration, EndpointIntegration, IntegrationEndpoint,
             KafkaNativeACL, KafkaSchemaRegistryACL, KafkaACL, ClickhouseUser,
             UpgradePipelineStep}
=============================================================================

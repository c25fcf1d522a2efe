-------------------------- MODULE MCEndpointMonitors --------------------------
EXTENDS EndpointMonitors

MCKinds == AllKinds
===============================================================================

--------------------------- MODULE MCProxyTransfer ---------------------------
EXTENDS ProxyTransfer

Spec == ProxyInit /\ [][ProxyNext]_proxyVars
=============================================================================

---------------------------- MODULE MCRpcChannel ----------------------------
EXTENDS RpcChannel
=============================================================================

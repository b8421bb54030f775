---------------------------- MODULE MCLlmCache ----------------------------
EXTENDS LlmCache

MCItems == <<"k1", "k1", "k2", "k3">>
=============================================================================

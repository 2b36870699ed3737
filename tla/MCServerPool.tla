---------------------------- MODULE MCServerPool ----------------------------
EXTENDS ServerPool

\* A resource, and the admin API, which has the stream.
MCCovered == [accounting |-> {"clients"}, all |-> Paths]
MCLogs == {<<"clients", "logs">>, <<"stream", "clients">>}
=============================================================================

---------------------------- MODULE MCRequestLog ----------------------------
EXTENDS RequestLog
=============================================================================

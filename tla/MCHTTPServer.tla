---------------------------- MODULE MCHTTPServer ----------------------------
\* A small instance of HTTPServer for TLC.
EXTENDS HTTPServer
=============================================================================

---------------------------- MODULE MCApiStreams ----------------------------
EXTENDS ApiStreams, Integers

MCCodes == {0, 1}

\* No exit code: an integer no exit status takes, so codes compare with it.
MCNone == -1

=============================================================================

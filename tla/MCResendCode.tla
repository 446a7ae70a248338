---------------------------- MODULE MCResendCode ----------------------------
EXTENDS ResendCode
=============================================================================

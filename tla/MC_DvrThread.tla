---------------------------- MODULE MC_DvrThread ----------------------------
(* Model-checking instance of DvrThread: two error codes, one of them     *)
(* the code a no-input SERVICE_STATUS maps to.                            *)
EXTENDS DvrThread

MCErrCodes == {"NO_ACCESS"}

=============================================================================

------------------------------ MODULE TncMode ------------------------------
(***************************************************************************)
(* A global variable of aprsd.cpp that the session threads set and ReadCom *)
(* reads, with no lock: the TNC is under the remote control of a sysop.    *)
(***************************************************************************)
VARIABLE TncSysopMode
============================================================================

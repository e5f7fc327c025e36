----------------------------- MODULE MCRawFetch -----------------------------
EXTENDS RawFetch

(* Three stations, two of which share their WMO number. *)
MCWmonr == <<2010, 2020, 2020>>
=============================================================================

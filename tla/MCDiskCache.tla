---------------------------- MODULE MCDiskCache -----------------------------
(* Values for the constants of DiskCache: see Eviction.cfg.                    *)
EXTENDS DiskCache
CONSTANTS v1, v2
MCValues == {v1, v2}
=============================================================================

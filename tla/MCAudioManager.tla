----------------------------- MODULE MCAudioManager -----------------------------
(***************************************************************************)
(* The audio manager: its requests (AudioRequests) and its asset table on  *)
(* flash (AssetStore).  They share the file only: what a request plays is  *)
(* abstracted from, and each behaviour is one of one part.                 *)
(***************************************************************************)
EXTENDS AudioRequests

CONSTANTS Slots, Files, LongNames, Audio0, None, MaxLen

VARIABLES
    part,
    power, fs, files, md, fp, reading, path, cache, table, mdw, hpc, good, attempt,
    session, refused

A == INSTANCE AssetStore

ASSUME AssetAssumption == A!StoreAssumption

storeVars == <<power, fs, files, md, fp, reading, path, cache, table, mdw, hpc, good,
               attempt, session, refused>>

MCInit ==
    /\ part \in {"requests", "store"}
    /\ A!Init
    /\ Init /\ (part # "requests" => task = "none" /\ ~active)

\* All calls may have been made, and the task have nothing to do.
MCNext ==
    /\ UNCHANGED part
    /\ \/ part = "requests" /\ Next /\ UNCHANGED storeVars
       \/ part = "store" /\ A!Next /\ UNCHANGED vars
       \/ part = "requests" /\ UNCHANGED <<vars, storeVars>>

MCSpec == MCInit /\ [][MCNext]_<<part, vars, storeVars>> /\ Fairness

-----------------------------------------------------------------------------
(* An active entry of a table that the next boot accepts names a file that  *)
(* exists, after any loss of power, unless its name was cut                 *)
(* (audio_manager.c 516-542); a raw upload is never entered under the slot  *)
(* of an earlier upload, finished, failed or refused (466-468); and a       *)
(* client that starts an upload while no other is under way, or left by its *)
(* client, is not turned away because of a file left open (516, 547).       *)
TableHonest ==
    A!TypeOK /\ A!RecordedFilesExist /\ A!StaleSlotNeverRecorded /\ A!StartIsAcknowledged

(* A table is taken from flash only if this code wrote it: the checks catch *)
(* every torn file that a loss of power leaves (audio_manager.c 96-161).    *)
LoadedTableIsAVersion == A!LoadedTableIsAVersion
===============================================================================

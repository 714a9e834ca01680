------------------------------ MODULE AssetStore ------------------------------
(***************************************************************************)
(* The asset table of main/flash/audio_manager.c and the uploads that      *)
(* change it: load_audio_start / load_nvm_start, load_nvm_chunk and        *)
(* load_nvm_end, called by the TCP handler task one message at a time, the *)
(* in-place rewrite of audio_md.bin by write_audio_metadata, and           *)
(* audio_manager_init, which loads the table or creates it.  Power may be  *)
(* lost between any two steps.                                             *)
(*                                                                         *)
(* The FAT file system is external.  A file gets its contents and its      *)
(* directory entry when it is closed; what a power loss leaves of an open  *)
(* one is any prefix of what was written to it, with any part of that      *)
(* prefix not yet programmed, or what was there before.  A power loss      *)
(* during a write may also leave a volume that does not mount, and the     *)
(* code then formats it (format_if_mount_failed).                          *)
(*                                                                         *)
(* Sizes count the chunks of load_nvm_chunk; bytes_remaining and           *)
(* payload_size are only ever logged and are left out.                     *)
(***************************************************************************)
EXTENDS Naturals

CONSTANTS
    Slots,        \* audio ids, 0 .. AUDIO_NUM_SLOTS - 1 in the code
    Files,        \* file names a client may send
    LongNames,    \* those of more than 31 characters
    Audio0,       \* "audio0.bin", the only file load_nvm_start writes
    None,         \* no file, no slot, no open file
    MaxLen        \* bound: chunks in one file

StoreAssumption ==
    /\ LongNames \subseteq Files
    /\ Audio0 \in Files \ LongNames
    /\ None \notin Files \cup Slots \cup Nat \cup [file : Files, len : 0 .. MaxLen]
    /\ "cut" \notin Files
    /\ MaxLen \in Nat

VARIABLES
    power,    \* "off", "mounted", "ready" or "deaf": audio_manager_init failed
    fs,       \* "ok", or "bad": the volume will not mount again
    files,    \* durable length of every data file, or None
    md,       \* durable audio_md.bin, or None
    fp,       \* nvm_command_data.fp while it is open for writing, or None
    reading,  \* nvm_command_data.fp is the file load_nvm_end reads back
    path,     \* nvm_command_data.file_path
    cache,    \* audio_data_cache
    table,    \* audio_meta_data, in RAM
    mdw,      \* parts written to the open audio_md.bin, or None
    hpc,      \* where load_nvm_end or audio_manager_init is
    good,     \* history: the table last loaded or last written to its fclose
    attempt,  \* history: the table of the last write that was begun
    session,  \* history: an upload is under way ("open"), or its client walked
              \* away in the middle of it ("left"), or there is "none"
    refused   \* history: a start was refused because a file was open with no
              \* upload under way

disk == <<files, md, fs>>
upload == <<fp, reading, path, cache>>
history == <<good, attempt>>
client == <<session, refused>>
vars == <<power, disk, upload, table, mdw, hpc, history, client>>

Entry == [active : BOOLEAN, name : Files \cup {None, "cut"}]
Tables == [Slots -> Entry]
NoUpload == [active |-> FALSE, slot |-> None, file |-> None]
EmptyTable == [s \in Slots |-> [active |-> FALSE, name |-> None]]

\* audio_md.bin: len parts of header, table and footer, the first done of
\* them really programmed.
MetaFile == [len : 0 .. 3, done : 0 .. 3, tab : Tables]

Idle == power \in {"ready", "deaf"} /\ hpc = "idle"

TypeOK ==
    /\ power \in {"off", "mounted", "ready", "deaf"}
    /\ fs \in {"ok", "bad"}
    /\ files \in [Files -> (0 .. MaxLen) \cup {None}]
    /\ md \in MetaFile \cup {None}
    /\ fp \in [file : Files, len : 0 .. MaxLen] \cup {None}
    /\ reading \in BOOLEAN
    /\ path \in Files \cup {None}
    /\ cache \in [active : BOOLEAN, slot : Slots \cup {None}, file : Files \cup {None}]
    /\ table \in Tables
    /\ mdw \in (0 .. 3) \cup {None}
    /\ hpc \in {"idle", "reopen", "record", "endTable", "endReset", "bootTable", "bootReread"}
    /\ good \in Tables
    /\ attempt \in Tables
    /\ session \in {"none", "open", "left"}
    /\ refused \in BOOLEAN

\* A blank flash chip, before its first power-on.
Init ==
    /\ power = "off"
    /\ fs = "bad"
    /\ files = [f \in Files |-> None]
    /\ md = None
    /\ fp = None
    /\ reading = FALSE
    /\ path = None
    /\ cache = NoUpload
    /\ table = EmptyTable
    /\ mdw = None
    /\ hpc = "idle"
    /\ good = EmptyTable
    /\ attempt = EmptyTable
    /\ session = "none"
    /\ refused = FALSE

-----------------------------------------------------------------------------
(* The file system, as the code uses it.                                    *)

\* snprintf into file_name[32] keeps 31 characters of the name.
StoredName(f) == IF f \in LongNames THEN "cut" ELSE f

\* What a power loss may leave of a data file that is open for writing.
Remains(f) ==
    IF fp # None /\ fp.file = f
    THEN {files[f]} \cup (0 .. fp.len)
    ELSE {files[f]}

\* What it may leave of audio_md.bin while write_audio_metadata has it open.
MetaRemains ==
    IF mdw = None THEN {md}
    ELSE {md} \cup {m \in [len : 0 .. mdw, done : 0 .. mdw, tab : {attempt}] : m.done <= m.len}

\* RAM is back to what the static initialisers say.
RamLost ==
    /\ fp' = None
    /\ reading' = FALSE
    /\ path' = None
    /\ cache' = NoUpload
    /\ table' = EmptyTable
    /\ mdw' = None
    /\ hpc' = "idle"
    /\ session' = "none"
    /\ refused' = FALSE

\* Power goes at any point; a write in progress may cost the whole volume.
PowerLoss ==
    /\ power # "off"
    /\ power' = "off"
    /\ files' \in {g \in [Files -> (0 .. MaxLen) \cup {None}] : \A f \in Files : g[f] \in Remains(f)}
    /\ md' \in MetaRemains
    /\ fs' \in IF fp = None /\ mdw = None THEN {fs} ELSE {fs, "bad"}
    /\ RamLost
    /\ UNCHANGED history

-----------------------------------------------------------------------------
(* flash_init and audio_manager_init.                                       *)

\* example_mount_fatfs: a volume that does not mount is formatted.
Mount ==
    /\ power = "off"
    /\ power' = "mounted"
    /\ IF fs = "ok" THEN UNCHANGED disk
       ELSE /\ fs' = "ok"
            /\ files' = [f \in Files |-> None]
            /\ md' = None
    /\ UNCHANGED <<upload, table, mdw, hpc, history, client>>

\* Mutant of Acceptable: the footer is not compared.
AcceptableNoFooter(m) == m.len = 3 /\ m.done >= 1

\* load_audio_metadata: the size, the header and the footer must be right.
Acceptable(m) ==
    /\ m.len = 3
    /\ m.done >= 1
    /\ m.done = 3

\* What the table part of the file holds: blank where it was not programmed.
TableIn(m) == IF m.done >= 2 THEN m.tab ELSE [s \in Slots |-> [active |-> TRUE, name |-> "cut"]]

\* audio_manager_init finds the table: load it, or fail for good.
LoadTable ==
    /\ power = "mounted" /\ hpc = "idle"
    /\ md # None
    /\ IF Acceptable(md)
       THEN power' = "ready" /\ table' = TableIn(md) /\ good' = TableIn(md)
       ELSE power' = "deaf" /\ UNCHANGED <<table, good>>
    /\ UNCHANGED <<disk, upload, mdw, hpc, attempt, client>>

\* audio_manager_init finds no table: create an empty one.
CreateTable ==
    /\ power = "mounted" /\ hpc = "idle"
    /\ md = None
    /\ hpc' = "bootTable"
    /\ UNCHANGED <<power, disk, upload, table, mdw, history, client>>

\* It opens the file it created once more and starts the audio task.
BootReread ==
    /\ hpc = "bootReread"
    /\ hpc' = "idle"
    /\ power' \in {"ready", "deaf"}
    /\ UNCHANGED <<disk, upload, table, mdw, history, client>>

-----------------------------------------------------------------------------
(* write_audio_metadata, called by audio_manager_init and load_nvm_end.     *)

\* Its return value: a failure ends audio_manager_init, and is only logged
\* by load_nvm_end.
TableReturns(ok) ==
    \/ /\ hpc = "endTable"
       /\ hpc' = "endReset"
       /\ UNCHANGED power
    \/ /\ hpc = "bootTable"
       /\ hpc' = (IF ok THEN "bootReread" ELSE "idle")
       /\ power' = (IF ok THEN power ELSE "deaf")

\* fopen(.., "wb"): it truncates the file, or fails.
TableOpen ==
    /\ hpc \in {"endTable", "bootTable"}
    /\ mdw = None
    /\ \/ /\ fs = "ok"
          /\ mdw' = 0
          /\ attempt' = table
          /\ UNCHANGED <<hpc, power>>
       \/ /\ TableReturns(FALSE)
          /\ UNCHANGED <<mdw, attempt>>
    /\ UNCHANGED <<disk, upload, table, good, client>>

\* The header, the table or the footer is written; a short write closes the
\* file as it is and returns -1.
TableWrite ==
    /\ mdw \in 0 .. 2
    /\ \/ /\ mdw' = mdw + 1
          /\ UNCHANGED <<md, hpc, power>>
       \/ /\ mdw' = None
          /\ md' = [len |-> mdw, done |-> mdw, tab |-> attempt]
          /\ TableReturns(FALSE)
    /\ UNCHANGED <<files, fs, upload, table, history, client>>

\* fclose makes the file durable; opening it again to read it back may
\* still fail, and then the function returns -1.
TableClose ==
    /\ mdw = 3
    /\ mdw' = None
    /\ md' = [len |-> 3, done |-> 3, tab |-> attempt]
    /\ good' = attempt
    /\ \E ok \in BOOLEAN : TableReturns(ok)
    /\ UNCHANGED <<files, fs, upload, table, attempt, client>>

-----------------------------------------------------------------------------
(* Uploads: AUDIO_LOAD_START or NVM_START, NVM_SEND_DATA, NVM_STOP.          *)

\* The reply to a start, as the client sees it.
Answered(ok, busy) ==
    /\ session' = (IF ok THEN "open" ELSE session)
    /\ refused' = (busy /\ session = "none")

\* load_audio_start: refused while a file is open; else the file is opened
\* for writing and the cache remembers slot and name.
AudioStart(s, f) ==
    /\ Idle
    /\ \/ /\ fp # None \/ reading
          /\ Answered(FALSE, TRUE)
          /\ UNCHANGED upload
       \/ /\ fp = None /\ ~reading
          /\ path' = f
          /\ \/ /\ fs = "ok"
                /\ fp' = [file |-> f, len |-> 0]
                /\ cache' = [active |-> TRUE, slot |-> s, file |-> f]
                /\ Answered(TRUE, FALSE)
             \/ /\ Answered(FALSE, FALSE)
                /\ UNCHANGED <<fp, cache>>
          /\ UNCHANGED reading
    /\ UNCHANGED <<power, disk, table, mdw, hpc, history>>

\* load_nvm_start: the same for audio0.bin, and the cache is not touched.
NvmStart ==
    /\ Idle
    /\ \/ /\ fp # None \/ reading
          /\ Answered(FALSE, TRUE)
          /\ UNCHANGED upload
       \/ /\ fp = None /\ ~reading
          /\ path' = Audio0
          /\ \/ fs = "ok" /\ fp' = [file |-> Audio0, len |-> 0] /\ Answered(TRUE, FALSE)
             \/ Answered(FALSE, FALSE) /\ UNCHANGED fp
          /\ UNCHANGED <<reading, cache>>
    /\ UNCHANGED <<power, disk, table, mdw, hpc, history>>

\* load_nvm_chunk: a short write is logged and acknowledged all the same.
\* Without an open file it answers NACK and changes nothing.
Chunk ==
    /\ Idle
    /\ fp # None
    /\ fp.len < MaxLen
    /\ fp' = [fp EXCEPT !.len = @ + 1]
    /\ refused' = FALSE
    /\ UNCHANGED <<power, disk, reading, path, cache, table, mdw, hpc, history, session>>

\* Mutant of ResetNvm: the cache stays active.
ResetNvmKeepsCache ==
    /\ files' = (IF fp = None THEN files ELSE [files EXCEPT ![fp.file] = fp.len])
    /\ fp' = None
    /\ reading' = FALSE
    /\ UNCHANGED cache

\* reset_nvm_data: fclose makes the data file durable.
ResetNvm ==
    /\ files' = (IF fp = None THEN files ELSE [files EXCEPT ![fp.file] = fp.len])
    /\ fp' = None
    /\ reading' = FALSE
    /\ cache' = [cache EXCEPT !.active = FALSE]

\* load_nvm_end, its first reset; loading_audio decides what follows.
EndUpload ==
    /\ Idle
    /\ hpc' = (IF cache.active THEN "record" ELSE "reopen")
    /\ ResetNvm
    /\ session' = "none"
    /\ refused' = FALSE
    /\ UNCHANGED <<power, md, fs, path, table, mdw, history>>

\* The file is opened again for reading; when that fails, -1.
EndReopen ==
    /\ hpc \in {"reopen", "record"}
    /\ ~reading
    /\ \/ /\ fs = "ok" /\ path # None
          /\ files[path] # None \/ (fp # None /\ fp.file = path)
          /\ reading' = TRUE
          /\ hpc' = (IF hpc = "record" THEN "record" ELSE "endReset")
       \/ hpc' = "idle" /\ UNCHANGED reading
    /\ UNCHANGED <<power, disk, fp, path, cache, table, mdw, history, client>>

\* The slot's entry is updated in RAM, then the table is written.
EndRecord ==
    /\ hpc = "record"
    /\ reading
    /\ table' = [table EXCEPT ![cache.slot] = [active |-> TRUE, name |-> StoredName(cache.file)]]
    /\ hpc' = "endTable"
    /\ UNCHANGED <<power, disk, upload, mdw, history, client>>

\* The last reset, and ACK.
EndReset ==
    /\ hpc = "endReset"
    /\ hpc' = "idle"
    /\ ResetNvm
    /\ UNCHANGED <<power, md, fs, path, table, mdw, history, client>>

\* nvm_erase_chip erases the chip under the mounted volume: from here on no
\* file can be opened until the next boot formats it.
EraseChip ==
    /\ Idle
    /\ fs' = "bad"
    /\ files' = [f \in Files |-> None]
    /\ md' = None
    /\ refused' = FALSE
    /\ UNCHANGED <<power, upload, table, mdw, hpc, history, session>>

\* The client's connection goes away in the middle of an upload.
ClientAborts ==
    /\ Idle
    /\ session = "open"
    /\ session' = "left"
    /\ UNCHANGED <<power, disk, upload, table, mdw, hpc, history, refused>>

Next ==
    \/ PowerLoss \/ Mount \/ LoadTable \/ CreateTable \/ BootReread
    \/ TableOpen \/ TableWrite \/ TableClose
    \/ \E s \in Slots, f \in Files : AudioStart(s, f)
    \/ NvmStart \/ Chunk
    \/ EndUpload \/ EndReopen \/ EndRecord \/ EndReset
    \/ EraseChip \/ ClientAborts

Spec == Init /\ [][Next]_vars

-----------------------------------------------------------------------------
(* A table is taken from flash only if it is a version this code wrote: the *)
(* last one written to the end, or the one being written when the power     *)
(* went.  The size, header and footer checks (147-161) must catch every     *)
(* torn file the rewrite in place (96-126) can leave.                       *)
LoadedTableIsAVersion ==
    [][power = "mounted" /\ power' = "ready" => table' \in {good, attempt}]_vars

(* An active entry of a table that the next boot will accept names a file   *)
(* that exists: the asset is closed (516) and read back (519) before the    *)
(* entry is made (539) and written (542), so no power loss in between can   *)
(* leave an entry without its file.  A name cut to 31 characters is the     *)
(* exception.                                                               *)
FileExists(name) == name \in Files /\ files[name] # None
Recorded(tab) ==
    \A s \in Slots : tab[s].active /\ tab[s].name # "cut" => FileExists(tab[s].name)

RecordedFilesExist == fs = "ok" /\ md # None /\ Acceptable(md) => Recorded(md.tab)

(* A raw upload started by NVM_START is never entered in the asset table:   *)
(* while no audio upload has its file open, the cached slot of an earlier   *)
(* one (466-468), finished, failed or refused, is inactive.                 *)
StaleSlotNeverRecorded ==
    /\ cache.active => fp # None /\ fp.file = cache.file
    /\ hpc = "record" => cache.file = path

(* A client that starts an upload while no other is under way, and none was *)
(* left unfinished by its client, is not turned away because of a file left *)
(* open: every way out of load_nvm_end closes it (516, 547).                *)
(* socket_test.py raises "Device did not ACK back" when it is (201-202).    *)
StartIsAcknowledged == ~refused

-----------------------------------------------------------------------------
(* The inductive invariant of the three, and of LoadedTableIsAVersion.      *)

\* The main task or the handler is in write_audio_metadata only with the
\* table it began with; without power there is nothing but the flash.
WriteUnderWay ==
    /\ mdw # None => hpc \in {"endTable", "bootTable"} /\ attempt = table
    /\ power = "off" =>
           table = EmptyTable /\ mdw = None /\ fp = None /\ hpc = "idle"

\* A file is open only between the messages of an upload, or to be read back.
FilesOpen ==
    /\ fp # None => power \in {"ready", "deaf"} /\ hpc = "idle" /\ session # "none"
    /\ reading => hpc \in {"record", "endTable", "endReset"}

\* The file that is read back is there before the entry is made, and files
\* that are named stay.
FilesNamed ==
    /\ fs = "ok" /\ hpc = "record" /\ reading => path # None /\ FileExists(path)
    /\ fs = "ok" => Recorded(table)

\* Since the boot, what is on flash is what was loaded or written last.
VersionOnFlash ==
    /\ md # None /\ Acceptable(md) =>
           /\ md.tab \in {good, attempt}
           /\ power \in {"ready", "deaf"} \/ hpc # "idle" => md.tab = good
    /\ hpc = "bootReread" => table = good

IInv ==
    /\ TypeOK /\ WriteUnderWay /\ FilesOpen /\ FilesNamed /\ VersionOnFlash
    /\ cache.active => cache.file = path
    /\ RecordedFilesExist /\ StaleSlotNeverRecorded /\ StartIsAcknowledged
===============================================================================

----------------------------- MODULE HealthFile -----------------------------
(* How the record reaches the disk: write_health of health.py, step by step,    *)
(* with the signal handler of main.py that calls it again from inside itself,   *)
(* the unwinding that follows the handler's sys.exit, a disk that fails, a      *)
(* process that is killed and a power failure.                                  *)
(*                                                                              *)
(* Signal handlers run in the main thread between two steps, so the writers in  *)
(* progress form a stack. A record fits in one buffer, and no record is shorter *)
(* than the one that says stopped.                                              *)
EXTENDS Naturals, Sequences, SequencesExt

CONSTANTS
    Inodes,           \* bound: enough for every file that is named or open, and a new one
    NoFile,           \* no file
    LoopRecords,      \* the records of the loop
    MaxSignals,       \* bound: signals in one run
    SignalSteps,      \* steps of a write in progress at which a signal may strike
    DiskFaults        \* subset of {"storage", "power"}

ASSUME HealthFileAssumption ==
    /\ MaxSignals \in Nat
    /\ NoFile \notin Inodes
    /\ SignalSteps \subseteq {"open", "dump", "flush", "fsync", "replace"}
    /\ DiskFaults \subseteq {"storage", "power"}
    /\ {"stopped", "failed", "absent", "empty", "mixed"} \cap LoopRecords = {}

AllRecords == LoopRecords \cup {"stopped", "failed"}

\* What a file may contain: nothing, a whole record, or what is neither.
Contents == AllRecords \cup {"empty", "mixed"}

VARIABLES
    names,      \* the directory: inodes of json and tmp
    disk,       \* the directory as a power failure may leave it
    data,       \* contents of each inode
    dirty,      \* inodes whose contents have not been synced
    writers,    \* calls of write_health in progress, innermost last
    mode,       \* running, exiting (SystemExit), failing (OSError), over
    signals,    \* signals received in this run
    stopDone,   \* history: the handler has recorded "stopped"
    opened      \* inode a reader has open

vars == <<names, disk, data, dirty, writers, mode, signals, stopDone, opened>>
fileVars == <<names, disk, data, dirty>>
processVars == <<writers, mode, signals, stopDone>>

Writer(record) == [record |-> record, step |-> "open", inode |-> NoFile, buffer |-> "nothing"]

Top == Last(writers)
SetTop(w) == writers' = Append(Front(writers), w)
At(step) == mode = "running" /\ writers # <<>> /\ Top.step = step

InUse == {names.json, names.tmp, disk.json, disk.tmp, opened}
         \cup {writers[i].inode : i \in DOMAIN writers}

FreeInodes == Inodes \ InUse

\* A file that has lost its last name and is not open is gone.
Keep(contents, unsynced) ==
    /\ data' = [i \in Inodes |-> IF i \in InUse' THEN contents[i] ELSE "empty"]
    /\ dirty' = unsynced \cap InUse'

Init ==
    /\ names = [json |-> NoFile, tmp |-> NoFile]
    /\ disk = names
    /\ data = [i \in Inodes |-> "empty"]
    /\ dirty = {}
    /\ writers = <<>>
    /\ mode = "running"
    /\ signals = 0
    /\ stopDone = FALSE
    /\ opened = NoFile

-----------------------------------------------------------------------------
(* write_health.                                                             *)

\* The loop's own write; inside a call of the loop there is at most one.
BeginWrite ==
    /\ mode = "running"
    /\ writers = <<>>
    /\ \E r \in LoopRecords : writers' = <<Writer(r)>>
    /\ UNCHANGED <<fileVars, mode, signals, stopDone, opened>>

\* open(tmp, "w") creates the file, or empties the one that is there.
OpenTmp_InPlace ==
    /\ At("open")
    /\ \E i \in IF names.json = NoFile THEN FreeInodes ELSE {names.json} :
         /\ names' = [names EXCEPT !.tmp = i]
         /\ SetTop([Top EXCEPT !.step = "dump", !.inode = i])
         /\ UNCHANGED <<disk, mode, signals, stopDone, opened>>
         /\ Keep([data EXCEPT ![i] = "empty"], dirty \cup {i})

OpenTmp ==
    /\ At("open")
    /\ \E i \in IF names.tmp = NoFile THEN FreeInodes ELSE {names.tmp} :
         /\ names' = [names EXCEPT !.tmp = i]
         /\ SetTop([Top EXCEPT !.step = "dump", !.inode = i])
         /\ UNCHANGED <<disk, mode, signals, stopDone, opened>>
         /\ Keep([data EXCEPT ![i] = "empty"], dirty \cup {i})

\* json.dump fills the buffer of the file object piece by piece.
Dump ==
    /\ At("dump")
    /\ SetTop(IF Top.buffer = "nothing" THEN [Top EXCEPT !.buffer = "part"]
              ELSE [Top EXCEPT !.buffer = "whole", !.step = "flush"])
    /\ UNCHANGED <<fileVars, mode, signals, stopDone, opened>>

\* The buffer is written from the start of the file, over what is there.
WriteOut(w) ==
    Keep([data EXCEPT ![w.inode] = IF w.buffer = "whole" THEN w.record ELSE "mixed"],
         dirty \cup {w.inode})

Flush ==
    /\ At("flush")
    /\ SetTop([Top EXCEPT !.step = "fsync", !.buffer = "nothing"])
    /\ UNCHANGED <<names, disk, mode, signals, stopDone, opened>>
    /\ WriteOut(Top)

Fsync_Skipped ==
    /\ At("fsync")
    /\ SetTop([Top EXCEPT !.step = "replace"])
    /\ UNCHANGED <<fileVars, mode, signals, stopDone, opened>>

Fsync ==
    /\ At("fsync")
    /\ dirty' = dirty \ {Top.inode}
    /\ SetTop([Top EXCEPT !.step = "replace"])
    /\ UNCHANGED <<names, disk, data, mode, signals, stopDone, opened>>

\* What follows a write: the loop goes on, the handler calls sys.exit(0), and
\* main() exits once it has recorded "failed".
AfterWrite(record) ==
    /\ writers' = Front(writers)
    /\ mode' = CASE record = "stopped" -> "exiting"
                 [] record = "failed"  -> "over"
                 [] OTHER              -> "running"

\* os.replace(tmp, path), whichever file has the name tmp now.
Replace_ByCopy ==
    /\ At("replace")
    /\ names.tmp # NoFile
    /\ names' = [names EXCEPT !.json = names.tmp]
    /\ stopDone' = (stopDone \/ Top.record = "stopped")
    /\ AfterWrite(Top.record)
    /\ UNCHANGED <<disk, signals, opened>>
    /\ Keep(data, dirty)

Replace ==
    /\ At("replace")
    /\ names.tmp # NoFile
    /\ names' = [json |-> names.tmp, tmp |-> NoFile]
    /\ stopDone' = (stopDone \/ Top.record = "stopped")
    /\ AfterWrite(Top.record)
    /\ UNCHANGED <<disk, signals, opened>>
    /\ Keep(data, dirty)

-----------------------------------------------------------------------------
(* Signals, failures and what unwinds.                                       *)

\* SIGTERM or SIGINT: _stop runs on top of whatever the main thread is doing.
SignalArrives ==
    /\ mode = "running"
    /\ signals < MaxSignals
    /\ writers # <<>> => Top.step \in SignalSteps
    /\ signals' = signals + 1
    /\ writers' = Append(writers, Writer("stopped"))
    /\ UNCHANGED <<fileVars, mode, stopDone, opened>>

\* The file is closed on the way out of the with block: what is in the buffer is
\* written, if the disk still takes it.
Closes(w, written) ==
    IF w.buffer # "nothing" /\ written THEN WriteOut(w) ELSE Keep(data, dirty)

\* OSError: it leaves write_health; main() records "failed", once. A handler's
\* error may also end in an except clause of the call it interrupted.
StorageFails ==
    /\ "storage" \in DiskFaults
    /\ mode = "running"
    /\ writers # <<>>
    /\ Top.step \in {"open", "flush", "fsync", "replace"}
    /\ writers' = Front(writers)
    /\ \/ mode' = IF Top.record = "failed" THEN "over" ELSE "failing"
       \/ Top.record = "stopped" /\ Len(writers) = 1 /\ mode' = "running"
    /\ UNCHANGED <<names, disk, signals, stopDone, opened>>
    /\ \E written \in BOOLEAN : Closes(Top, written)

\* SystemExit or OSError passes through an interrupted write_health; an error out
\* of the write of "failed" is only logged, and the process exits.
Unwinds ==
    /\ mode \in {"exiting", "failing"}
    /\ writers # <<>>
    /\ writers' = Front(writers)
    /\ mode' = IF mode = "failing" /\ Top.record = "failed" THEN "over" ELSE mode
    /\ UNCHANGED <<names, disk, signals, stopDone, opened>>
    /\ Closes(Top, TRUE)

\* main(): SystemExit is raised again, anything else is recorded as "failed".
Unwound_RecordsEveryExit ==
    /\ mode \in {"exiting", "failing"}
    /\ writers = <<>>
    /\ mode' = "running" /\ writers' = <<Writer("failed")>>
    /\ UNCHANGED <<fileVars, signals, stopDone, opened>>

Unwound ==
    /\ mode \in {"exiting", "failing"}
    /\ writers = <<>>
    /\ IF mode = "exiting" THEN mode' = "over" /\ UNCHANGED writers
       ELSE mode' = "running" /\ writers' = <<Writer("failed")>>
    /\ UNCHANGED <<fileVars, signals, stopDone, opened>>

\* SIGKILL: the buffers are lost, the files stay.
Killed ==
    /\ mode # "over"
    /\ mode' = "over"
    /\ writers' = <<>>
    /\ UNCHANGED <<names, disk, signals, stopDone, opened>>
    /\ Keep(data, dirty)

\* The next start of the container; a tmp left behind is still there.
Restarts ==
    /\ mode = "over"
    /\ mode' = "running"
    /\ signals' = 0
    /\ stopDone' = FALSE
    /\ UNCHANGED <<fileVars, writers, opened>>

-----------------------------------------------------------------------------
(* The machine.                                                              *)

\* The directory is written back in the kernel's own time.
DirectorySynced ==
    /\ disk # names
    /\ disk' = names
    /\ UNCHANGED <<names, processVars, opened>>
    /\ Keep(data, dirty)

\* What was not synced may be lost: names, and contents.
PowerFails ==
    /\ "power" \in DiskFaults
    /\ names' \in {names, disk}
    /\ disk' = names'
    /\ mode' = "over"
    /\ writers' = <<>>
    /\ stopDone' = FALSE
    /\ opened' = NoFile
    /\ UNCHANGED signals
    /\ \E lost \in SUBSET dirty :
          Keep([i \in Inodes |-> IF i \in lost THEN "mixed" ELSE data[i]], {})

\* The health check opens the file, and is done with it.
ReaderOpens ==
    /\ opened = NoFile
    /\ opened' = names.json
    /\ UNCHANGED <<fileVars, processVars>>

ReaderCloses ==
    /\ opened # NoFile
    /\ opened' = NoFile
    /\ UNCHANGED <<names, disk, processVars>>
    /\ Keep(data, dirty)

Write == BeginWrite \/ OpenTmp \/ Dump \/ Flush \/ Fsync \/ Replace

Next ==
    \/ Write \/ SignalArrives \/ StorageFails \/ Unwinds \/ Unwound \/ Killed \/ Restarts
    \/ DirectorySynced \/ PowerFails \/ ReaderOpens \/ ReaderCloses

Spec == Init /\ [][Next]_vars

-----------------------------------------------------------------------------
(* Properties.                                                               *)

Names == [json : Inodes \cup {NoFile}, tmp : Inodes \cup {NoFile}]

\* Every variable has its type, and no file has both names.
HealthFileTypeOK ==
    /\ names \in Names /\ disk \in Names
    /\ data \in [Inodes -> Contents]
    /\ dirty \subseteq Inodes
    /\ mode \in {"running", "exiting", "failing", "over"}
    /\ signals \in 0..MaxSignals
    /\ stopDone \in BOOLEAN
    /\ opened \in Inodes \cup {NoFile}
    /\ Len(writers) <= MaxSignals + 1
    /\ \A i \in DOMAIN writers :
          writers[i] \in [record : AllRecords, inode : Inodes \cup {NoFile},
                          step : {"open", "dump", "flush", "fsync", "replace"},
                          buffer : {"nothing", "part", "whole"}]
    /\ names.json # NoFile => names.json # names.tmp

\* health.py:98-100: the file is a whole record whenever it exists, through
\* failures of the disk, kills, restarts and power failures.
RecordWhole == names.json # NoFile => data[names.json] \in AllRecords

\* main.py:340: a process that has ended after its handler recorded "stopped" has
\* left a record that says so.
StopIsRecorded == stopDone /\ mode = "over" => data[names.json] = "stopped"

ContentsOf(i) == IF i = NoFile THEN "absent" ELSE data[i]

Register == INSTANCE HealthRegister
    WITH Records <- AllRecords, Absent <- "absent",
         value <- ContentsOf(names.json), durable <- ContentsOf(disk.json),
         read <- ContentsOf(opened)

\* health.py:96-101: the file is an atomic register: a write takes effect at its
\* os.replace, and what a reader has opened no longer changes.
IsAtomicRegister == Register!Spec
=============================================================================

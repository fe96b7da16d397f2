------------------------------ MODULE LogFiles -------------------------------
(***************************************************************************)
(* The directory a daemon logs to (src/src/daemon/log_sink.cpp): one file  *)
(* per start, named after the second of the start; the files spdlog's      *)
(* rotating sink puts aside; and the stable name, a symlink to the file of *)
(* the latest start.  Only names and modification order are kept.          *)
(***************************************************************************)
EXTENDS Naturals, Sequences, SequencesExt

CONSTANTS
    MaxFiles,   \* logging.max_files, at least 1
    MaxClock,   \* bound: how many different stamps there are
    None        \* no link

ASSUME MaxFilesAssumption == MaxFiles \in Nat \ {0}
ASSUME ClockAssumption == MaxClock \in Nat \ {0}

\* age 0 is the file being written, age n the n-th put aside.
File == [stamp : 1..MaxClock, age : 0..(MaxFiles - 1)]

VARIABLES
    dir,        \* the stamped files, least recently modified first
    link,       \* the target of the stable name
    clock       \* the second of the last start

fileVars == <<dir, link, clock>>

Present(f) == Contains(dir, f)
Live(s)    == [stamp |-> s, age |-> 0]

\* Slip: the newest files go first.
KeepOldest(keep) == SubSeq(dir, 1, IF Len(dir) <= keep THEN Len(dir) ELSE keep)

\* pruneOldLogs: at most keep files stay, the oldest go first.
Pruned(keep) == SubSeq(dir, IF Len(dir) <= keep THEN 1 ELSE Len(dir) - keep + 1, Len(dir))

\* sessionStamp: the same second as the last start, or a later one.
NextSecond == {clock} \cup ({clock + 1} \cap 1..MaxClock)

\* Opening appends to a file of the same second.
Opened(files, s) == IF Contains(files, Live(s)) THEN files ELSE Append(files, Live(s))

\* The stable name is removed and created again.
Link(s) == link' = Live(s)

Aged(f, s) == IF f.stamp = s THEN [f EXCEPT !.age = @ + 1] ELSE f

\* rotating_file_sink: the file of this start that is last in line is deleted,
\* the others move one place, and a new live file is opened.
Rotated(s) ==
    LET kept == RemoveFirst(dir, [stamp |-> s, age |-> MaxFiles - 1]) IN
    Append([i \in DOMAIN kept |-> Aged(kept[i], s)], Live(s))

\* A line written to a file that is no longer in the directory leaves no trace.
Touched(s) == IF Present(Live(s)) THEN Append(RemoveFirst(dir, Live(s)), Live(s)) ELSE dir

\* The sink checks the size before it writes: the line may go to a new file.
LogLine(s) == dir' \in {Touched(s), Rotated(s)}
=============================================================================

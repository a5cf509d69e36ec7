------------------------------ MODULE Journal ------------------------------
(***************************************************************************)
(* The output of a service on its way to a reader's terminal: the pipes    *)
(* of each process of the unit, the logger tasks that drain them into the  *)
(* unit's two log files (systeml-runtime: exec/mod.rs), and journalctl,    *)
(* which replays or follows the files (systeml-journal: main.rs).  Nothing *)
(* synchronises a reader with the loggers, or the logger of a process with *)
(* the one of the process before it: they share the files only.  A file is *)
(* a sequence of entries, its length the number of them.                   *)
(***************************************************************************)
EXTENDS Integers, Sequences, FiniteSets, SequencesExt, FiniteSetsExt

CONSTANTS
  Procs,       \* the processes of the unit, restarts and Exec*= commands alike
  MaxLines,    \* bound: lines that a process prints
  PipeSize,    \* lines that fit into a pipe
  Tails,       \* what --lines= may be: None or a number
  Faults,      \* TRUE: files cannot be opened, disks are full, lines not UTF-8
  Rotations    \* bound: truncations of the logs by others

Streams == {"out", "err"}
Pipes == Procs \X Streams
None == -1

ASSUME JournalAssumption ==
  /\ MaxLines \in Nat /\ PipeSize \in Nat \ {0} /\ Rotations \in Nat
  /\ Tails \subseteq Nat \cup {None} /\ Faults \in BOOLEAN

VARIABLES
  proc,      \* per process: [state, printed, wants], wants is the stream it writes to
  pipe,      \* per pipe: the lines in it
  logger,    \* per pipe: [at, line], at is "none", "open", "next_line", "write" or "done"
  logs,      \* the streams whose log file exists
  file,      \* per stream: the entries of its log
  reader,    \* journalctl: [at, follow, n, todo, round, len, cursor, pos, emitted_any]
  shown,     \* history: the lines that were printed
  first,     \* history: per stream, how many entries the reader was to pass by
  said,      \* history: the lines that the processes have written to their pipes
  lost,      \* history: those that a fault has lost on their way to the file
  rotated    \* bound: per stream, the truncations

vars == <<proc, pipe, logger, logs, file, reader, shown, first, said, lost, rotated>>
daemon == <<proc, pipe, logger>>
disk == <<logs, file>>
account == <<said, lost>>

NoLine == [of |-> "none"]

NoReader(at) == [at |-> at, follow |-> FALSE, n |-> None, todo |-> <<>>, round |-> <<>>, len |-> 0,
                 cursor |-> 0, pos |-> [s \in Streams |-> 0], emitted_any |-> FALSE]

Init ==
  /\ proc = [p \in Procs |-> [state |-> "new", printed |-> 0, wants |-> "none"]]
  /\ pipe = [x \in Pipes |-> <<>>]
  /\ logger = [x \in Pipes |-> [at |-> "none", line |-> NoLine]]
  /\ logs = {} /\ file = [s \in Streams |-> <<>>]
  /\ reader = NoReader("off")
  /\ shown = {} /\ first = [s \in Streams |-> 0]
  /\ said = {} /\ lost = {} /\ rotated = [s \in Streams |-> 0]

-----------------------------------------------------------------------------
(* The processes of the service                                            *)

\* Mutant: the loggers are wired for StandardOutput= only.
setup_journal_loggers_out(p) ==
  logger' = [x \in Pipes |-> IF x = <<p, "out">> THEN [at |-> "open", line |-> NoLine] ELSE logger[x]]

\* One task for each of the two pipes.
setup_journal_loggers(p) ==
  logger' = [x \in Pipes |-> IF x[1] = p THEN [at |-> "open", line |-> NoLine] ELSE logger[x]]

spawn(p) ==
  /\ proc[p].state = "new"
  /\ proc' = [proc EXCEPT ![p].state = "running"]
  /\ setup_journal_loggers(p)
  /\ UNCHANGED <<pipe, disk, reader, shown, first, rotated, account>>

\* A process writes a line, and waits while the pipe is full. Nobody reads the pipe
\* of a logger that has ended: SIGPIPE.
begin_line(p, s) ==
  /\ proc[p].state = "running" /\ proc[p].wants = "none" /\ proc[p].printed < MaxLines
  /\ proc' = [proc EXCEPT ![p].wants = s]
  /\ UNCHANGED <<pipe, logger, disk, reader, shown, first, rotated, account>>

Line(p, s, text) == [of |-> p, on |-> s, no |-> proc[p].printed + 1, text |-> text]

end_line(p) ==
  /\ proc[p].wants # "none"
  /\ LET x == <<p, proc[p].wants>>
     IN IF logger[x].at = "done"
        THEN /\ proc' = [proc EXCEPT ![p].state = "gone", ![p].wants = "none"]
             /\ UNCHANGED <<pipe, said>>
        ELSE /\ Len(pipe[x]) < PipeSize
             /\ \E text \in {TRUE, ~Faults} :
                  /\ pipe' = [pipe EXCEPT ![x] = Append(@, Line(p, x[2], text))]
                  /\ said' = said \cup {Line(p, x[2], text)}
             /\ proc' = [proc EXCEPT ![p].printed = @ + 1, ![p].wants = "none"]
  /\ UNCHANGED <<logger, disk, reader, shown, first, rotated, lost>>

exit(p) ==
  /\ proc[p].state = "running" /\ proc[p].wants = "none"
  /\ proc' = [proc EXCEPT ![p].state = "gone"]
  /\ UNCHANGED <<pipe, logger, disk, reader, shown, first, rotated, account>>

-----------------------------------------------------------------------------
(* spawn_logger_task                                                       *)

\* What is in the pipe is lost with its only reader.
Finish(x) == /\ logger' = [logger EXCEPT ![x] = [at |-> "done", line |-> NoLine]]
             /\ pipe' = [pipe EXCEPT ![x] = <<>>]
Lose(lines) == lost' = lost \cup lines

open_log(x) ==
  /\ logger[x].at = "open"
  /\ \/ /\ logs' = logs \cup {x[2]}
        /\ logger' = [logger EXCEPT ![x].at = "next_line"]
        /\ UNCHANGED <<pipe, lost>>
     \/ Faults /\ Finish(x) /\ Lose(Range(pipe[x])) /\ UNCHANGED logs
  /\ UNCHANGED <<proc, file, reader, shown, first, rotated, said>>

\* A line that is not UTF-8 ends the task, like the end of the pipe.
next_line(x) ==
  /\ logger[x].at = "next_line"
  /\ \/ /\ pipe[x] # <<>> /\ Head(pipe[x]).text
        /\ logger' = [logger EXCEPT ![x] = [at |-> "write", line |-> Head(pipe[x])]]
        /\ pipe' = [pipe EXCEPT ![x] = Tail(@)]
        /\ UNCHANGED lost
     \/ pipe[x] # <<>> /\ ~Head(pipe[x]).text /\ Finish(x) /\ Lose(Range(pipe[x]))
     \/ pipe[x] = <<>> /\ proc[x[1]].state = "gone" /\ Finish(x) /\ UNCHANGED lost
  /\ UNCHANGED <<proc, disk, reader, shown, first, rotated, said>>

\* Mutant: the entry stays in the writer's buffer until the next one comes.
write_entry_unflushed(x) ==
  /\ logger[x].at = "write"
  /\ pipe[x] # <<>>
  /\ file' = [file EXCEPT ![x[2]] = Append(@, logger[x].line)]
  /\ logger' = [logger EXCEPT ![x] = [at |-> "next_line", line |-> NoLine]]
  /\ UNCHANGED <<proc, pipe, logs, reader, shown, first, rotated, account>>

\* write_all and flush. The error of a flush is dropped, and the entry with it; one of
\* write_all ends the task.
write_entry(x) ==
  /\ logger[x].at = "write"
  /\ \/ /\ file' = [file EXCEPT ![x[2]] = Append(@, logger[x].line)]
        /\ logger' = [logger EXCEPT ![x] = [at |-> "next_line", line |-> NoLine]]
        /\ UNCHANGED <<pipe, lost>>
     \/ /\ Faults /\ Lose({logger[x].line})
        /\ logger' = [logger EXCEPT ![x] = [at |-> "next_line", line |-> NoLine]]
        /\ UNCHANGED <<pipe, file>>
     \/ /\ Faults /\ Finish(x) /\ Lose({logger[x].line} \cup Range(pipe[x]))
        /\ UNCHANGED file
  /\ UNCHANGED <<proc, logs, reader, shown, first, rotated, said>>

\* The daemon dies, and its tasks with it; services live on.
crash ==
  /\ Faults
  /\ \E x \in Pipes : logger[x].at \in {"open", "next_line", "write"}
  /\ logger' = [x \in Pipes |-> IF logger[x].at = "none" THEN logger[x]
                                ELSE [at |-> "done", line |-> NoLine]]
  /\ pipe' = [x \in Pipes |-> <<>>]
  /\ Lose(UNION {Range(pipe[x]) \cup ({logger[x].line} \ {NoLine}) : x \in Pipes})
  /\ UNCHANGED <<proc, disk, reader, shown, first, rotated, said>>

\* Log rotation by others.
truncate(s) ==
  /\ file[s] # <<>> /\ rotated["out"] + rotated["err"] < Rotations
  /\ file' = [file EXCEPT ![s] = <<>>]
  /\ rotated' = [rotated EXCEPT ![s] = @ + 1]
  /\ UNCHANGED <<daemon, logs, reader, shown, first, account>>

-----------------------------------------------------------------------------
(* journalctl                                                              *)

LastOf(s, k) == SubSeq(file[s], Len(file[s]) - Min({k, Len(file[s])}) + 1, Len(file[s]))
Emit(lines) == shown' = shown \cup Range(lines)

\* open_streams: a log that does not exist yet is left out, also of following it.
run(follow, n) ==
  /\ reader.at = "off"
  /\ LET streams == (IF "out" \in logs THEN <<"out">> ELSE <<>>) \o (IF "err" \in logs THEN <<"err">> ELSE <<>>)
     IN reader' = [reader EXCEPT !.at = IF streams = <<>> THEN "exited"
                                        ELSE IF follow THEN "tail" ELSE "replay",
                                 !.follow = follow, !.n = n, !.todo = streams, !.round = streams]
  /\ UNCHANGED <<daemon, disk, shown, first, rotated, account>>

Stream == Head(reader.todo)
Rest(at, end) == IF Tail(reader.todo) = <<>> THEN end ELSE at

replay ==
  /\ reader.at = "replay"
  /\ Emit(IF reader.n = None THEN file[Stream] ELSE LastOf(Stream, reader.n))
  /\ reader' = [reader EXCEPT !.at = Rest("replay", "exited"), !.todo = Tail(@)]
  /\ UNCHANGED <<daemon, disk, first, rotated, account>>

\* The initial tail of a stream: its length is taken first, its content read later.
tail_len ==
  /\ reader.at = "tail"
  /\ LET len == Len(file[Stream])
     IN IF reader.n \in {None, 0}
        THEN /\ reader' = [reader EXCEPT !.at = Rest("tail", "poll"), !.pos[Stream] = len,
                                         !.todo = IF Tail(@) = <<>> THEN reader.round ELSE Tail(@)]
             /\ first' = [first EXCEPT ![Stream] = len]
        ELSE /\ reader' = [reader EXCEPT !.at = "tail_read", !.len = len]
             /\ UNCHANGED first
  /\ UNCHANGED <<daemon, disk, shown, rotated, account>>

tail_read ==
  /\ reader.at = "tail_read"
  /\ Emit(LastOf(Stream, reader.n))
  /\ first' = [first EXCEPT ![Stream] = Len(file[Stream]) - Len(LastOf(Stream, reader.n))]
  /\ reader' = [reader EXCEPT !.at = Rest("tail", "poll"), !.pos[Stream] = reader.len, !.len = 0,
                              !.todo = IF Tail(@) = <<>> THEN reader.round ELSE Tail(@)]
  /\ UNCHANGED <<daemon, disk, rotated, account>>

\* A turn of the poll loop for a stream ends; after the last stream the reader sleeps
\* if there was nothing to print.
NextStream(pos) ==
  reader' = [reader EXCEPT !.pos[Stream] = pos, !.len = 0, !.cursor = 0,
               !.todo = IF Tail(@) = <<>> THEN reader.round ELSE Tail(@),
               !.emitted_any = IF Tail(reader.todo) = <<>> THEN FALSE ELSE @,
               !.at = IF Tail(reader.todo) = <<>> /\ ~reader.emitted_any THEN "sleep" ELSE "poll"]

poll_len ==
  /\ reader.at = "poll"
  /\ LET len == Len(file[Stream])
         pos == IF len < reader.pos[Stream] THEN 0 ELSE reader.pos[Stream]
     IN IF len <= pos THEN NextStream(pos)
        ELSE reader' = [reader EXCEPT !.at = "read_line", !.len = len, !.cursor = pos,
                                      !.pos[Stream] = pos]
  /\ UNCHANGED <<daemon, disk, shown, first, rotated, account>>

\* Lines are read to the end of the file, which may be further off than `len`.
read_line ==
  /\ reader.at = "read_line"
  /\ reader.cursor < Len(file[Stream])
  /\ Emit(<<file[Stream][reader.cursor + 1]>>)
  /\ reader' = [reader EXCEPT !.cursor = @ + 1, !.emitted_any = TRUE]
  /\ UNCHANGED <<daemon, disk, first, rotated, account>>

\* Mutant: the length is taken anew.
read_eof_latest ==
  /\ reader.at = "read_eof"
  /\ NextStream(Len(file[Stream]))
  /\ UNCHANGED <<daemon, disk, shown, first, rotated, account>>

\* `pos = len`: what was appended since is read, and printed, again.
read_eof ==
  /\ reader.at = "read_eof"
  /\ NextStream(reader.len)
  /\ UNCHANGED <<daemon, disk, shown, first, rotated, account>>

see_eof ==
  /\ reader.at = "read_line"
  /\ reader.cursor >= Len(file[Stream])
  /\ reader' = [reader EXCEPT !.at = "read_eof"]
  /\ UNCHANGED <<daemon, disk, shown, first, rotated, account>>

\* An error of a length, seek or read ends journalctl through `?`, after what it has
\* printed. (While it polls, an error of a length only passes the stream by for a turn.)
read_error ==
  /\ Faults /\ reader.at \in {"replay", "tail", "tail_read", "read_line"}
  /\ reader' = NoReader("exited")
  /\ UNCHANGED <<daemon, disk, shown, first, rotated, account>>

wake ==
  /\ reader.at = "sleep"
  /\ reader' = [reader EXCEPT !.at = "poll"]
  /\ UNCHANGED <<daemon, disk, shown, first, rotated, account>>

-----------------------------------------------------------------------------
Logger(x) == open_log(x) \/ next_line(x) \/ write_entry(x)
Reader == replay \/ tail_len \/ tail_read \/ poll_len \/ read_line \/ see_eof \/ read_eof \/ wake

Next ==
  \/ \E p \in Procs : spawn(p) \/ end_line(p) \/ exit(p) \/ \E s \in Streams : begin_line(p, s)
  \/ \E x \in Pipes : Logger(x)
  \/ crash \/ \E s \in Streams : truncate(s)
  \/ \E follow \in BOOLEAN, n \in Tails : run(follow, n)
  \/ Reader \/ read_error

\* The runtime polls the logger tasks; a blocked write goes on when there is room;
\* journalctl keeps polling.
Fairness ==
  /\ \A x \in Pipes : WF_vars(Logger(x))
  /\ \A p \in Procs : WF_vars(end_line(p))
  /\ WF_vars(Reader)

Spec == Init /\ [][Next]_vars /\ Fairness

-----------------------------------------------------------------------------
Polling(s) ==
  /\ reader.follow /\ reader.at \in {"poll", "read_line", "read_eof", "sleep"}
  /\ s \in Range(reader.round)

\* The position that following starts from next time never passes by an entry that
\* was not printed, however appends fall between the reads of length and content.
FollowMissesNothing ==
  \A s \in Streams : Polling(s) /\ rotated[s] = 0 =>
    \A i \in first[s] + 1 .. reader.pos[s] : file[s][i] \in shown

\* Lines of a stream that are neither shown, nor lost by a fault, nor entries the reader
\* was to pass by.
Owed(s) ==
  {line \in said \ (shown \cup lost) :
     line.on = s /\ \A i \in DOMAIN file[s] : file[s][i] = line => i > first[s]}

\* Whatever a service writes while its log is followed is shown by journalctl, but for
\* the lines that a fault loses (an error of the open, write or flush, a crash of the
\* daemon, what comes with a line that is not UTF-8), unless the log is truncated or an
\* error ends journalctl: neither a pipe nor a logger nor the poll keeps or drops it.
OutputIsShown ==
  \A s \in Streams :
    (Polling(s) /\ rotated[s] = 0 /\ Owed(s) # {}) ~>
      (Owed(s) = {} \/ rotated[s] > 0 \/ reader.at = "exited")

\* A process that waits for room in a pipe gets it, or is told that nobody reads
\* ("the child will block on stdout/stderr writes until we drain the pipe",
\* exec/mod.rs:293-294).
WritersGoOn == \A p \in Procs : (proc[p].wants # "none") ~> (proc[p].wants = "none")
=============================================================================

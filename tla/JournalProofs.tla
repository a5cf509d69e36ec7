---------------------------- MODULE JournalProofs ----------------------------
(***************************************************************************)
(* Theorems about Journal, for any processes, any number of lines, readers' *)
(* options, faults and truncations.                                         *)
(***************************************************************************)
EXTENDS Journal, OrderingProofs

-----------------------------------------------------------------------------
(* The invariants                                                          *)

\* An entry of a log.
Entry == [of : Procs, on : Streams, no : Nat, text : BOOLEAN]

\* Where the reader has a stream in hand.
Working == {"replay", "tail", "tail_read", "poll", "read_line", "read_eof", "sleep"}

Process == [state : {"new", "running", "gone"}, printed : Nat, wants : Streams \cup {"none"}]
Logging == [at : {"none", "open", "next_line", "write", "done"}, line : Entry \cup {NoLine}]
Reading == [at : {"off", "exited"} \cup Working, follow : BOOLEAN, n : Nat \cup {None},
            todo : Seq(Streams), round : Seq(Streams), len : Nat, cursor : Nat,
            pos : [Streams -> Nat], emitted_any : BOOLEAN]

\* A logger that writes has an entry.
LoggerInv ==
  /\ logger \in [Pipes -> Logging]
  /\ \A x \in Pipes : logger[x].at = "write" => logger[x].line \in Entry

\* The types, that a logger that writes has an entry, and a reader at work a stream.
TypeInv ==
  /\ proc \in [Procs -> Process]
  /\ pipe \in [Pipes -> Seq(Entry)]
  /\ LoggerInv
  /\ logs \subseteq Streams /\ file \in [Streams -> Seq(Entry)]
  /\ reader \in Reading
  /\ reader.at \in Working => reader.todo # <<>> /\ reader.round # <<>>
  /\ reader.at = "tail_read" => reader.n \in Nat
  /\ shown \subseteq Entry
  /\ first \in [Streams -> Nat] /\ rotated \in [Streams -> Nat]

\* Of a log, the entries after the b-th and up to the k-th are among lines.
Within(log, lines, b, k) == k <= Len(log) /\ \A i \in b + 1 .. k : log[i] \in lines

\* The entries up to the k-th that the reader was to print are printed.
Printed(s, k) == Within(file[s], shown, first[s], k)

\* Up to the position of each stream, and up to the cursor of the one in hand, all is
\* printed; the length that was read does not pass the file, nor, at its end, the cursor.
PassedInv ==
  \A s \in Streams : rotated[s] = 0 =>
    /\ Printed(s, reader.pos[s])
    /\ reader.at \in {"tail_read", "read_line", "read_eof"} /\ s = Stream => reader.len <= Len(file[s])
    /\ reader.at \in {"read_line", "read_eof"} /\ s = Stream => Printed(s, reader.cursor)
    /\ reader.at = "read_eof" /\ s = Stream => reader.len <= reader.cursor

-----------------------------------------------------------------------------
(* Types                                                                   *)

LEMMA NoReaderType ==
  ASSUME NEW at \in {"off", "exited"}
  PROVE  /\ NoReader(at) \in Reading /\ NoReader(at).at = at
         /\ \A s \in Streams : NoReader(at).pos[s] = 0
<1>1. <<>> \in Seq(Streams) /\ [s \in Streams |-> 0] \in [Streams -> Nat]
  OBVIOUS
<1> QED BY <1>1 DEF NoReader, Reading, None

LEMMA InitTypes == Init => TypeInv
<1> SUFFICES ASSUME Init PROVE TypeInv
  OBVIOUS
<1>1. <<>> \in Seq(Entry) /\ <<>> \in Seq(Streams) /\ "out" \in Streams
  BY DEF Streams
<1>2. proc \in [Procs -> Process]
  BY DEF Init, Process
<1>3. /\ logger \in [Pipes -> Logging]
      /\ \A x \in Pipes : logger[x].at = "none"
  BY DEF Init, Logging
<1>4. /\ reader \in Reading
      /\ reader.at = "off"
  BY NoReaderType DEF Init
<1>5. pipe \in [Pipes -> Seq(Entry)] /\ file \in [Streams -> Seq(Entry)] /\ logs \subseteq Streams
  BY <1>1 DEF Init
<1>6. shown \subseteq Entry /\ first \in [Streams -> Nat] /\ rotated \in [Streams -> Nat]
  BY DEF Init
<1> QED BY <1>2, <1>3, <1>4, <1>5, <1>6 DEF TypeInv, LoggerInv, Working

LEMMA ProcessUpdates ==
  ASSUME NEW r \in Process, NEW w \in Streams
  PROVE  /\ [r EXCEPT !.state = "running"] \in Process /\ [r EXCEPT !.state = "gone"] \in Process
         /\ [r EXCEPT !.wants = w] \in Process
         /\ [r EXCEPT !.state = "gone", !.wants = "none"] \in Process
         /\ [r EXCEPT !.printed = r.printed + 1, !.wants = "none"] \in Process
<1>1. r.printed + 1 \in Nat
  BY DEF Process
<1>2. [r EXCEPT !.state = "running"] \in Process
  BY DEF Process
<1>3. [r EXCEPT !.state = "gone"] \in Process
  BY DEF Process
<1>4. [r EXCEPT !.wants = w] \in Process
  BY DEF Process
<1>5. [r EXCEPT !.state = "gone", !.wants = "none"] \in Process
  BY DEF Process
<1>6. [r EXCEPT !.printed = r.printed + 1, !.wants = "none"] \in Process
  BY <1>1 DEF Process
<1> QED BY <1>2, <1>3, <1>4, <1>5, <1>6

LEMMA LoggingRecords ==
  /\ [at |-> "open", line |-> NoLine] \in Logging /\ [at |-> "done", line |-> NoLine] \in Logging
  /\ [at |-> "next_line", line |-> NoLine] \in Logging
  /\ \A e \in Entry : [at |-> "write", line |-> e] \in Logging
  /\ \A r \in Logging : [r EXCEPT !.at = "next_line"] \in Logging
BY DEF Logging

\* One logger changes.
LEMMA LoggerStep ==
  ASSUME TypeInv, NEW x \in Pipes, NEW r \in Logging, r.at = "write" => r.line \in Entry,
         logger' = [logger EXCEPT ![x] = r]
  PROVE  LoggerInv'
BY DEF TypeInv, LoggerInv

LEMMA TypeProcess ==
  ASSUME TypeInv, NEW p \in Procs,
         spawn(p) \/ end_line(p) \/ exit(p) \/ \E s \in Streams : begin_line(p, s)
  PROVE  TypeInv'
<1>5. proc[p] \in Process /\ "out" \in Streams
  BY DEF TypeInv, Streams
<1>1. CASE spawn(p)
  <2>1. proc' \in [Procs -> Process]
    <3>1. proc' = [proc EXCEPT ![p] = [proc[p] EXCEPT !.state = "running"]]
      BY <1>1 DEF spawn, TypeInv
    <3> QED BY <3>1, <1>5, ProcessUpdates DEF TypeInv
  <2>2. LoggerInv'
    <3>1. logger' = [x \in Pipes |-> IF x[1] = p THEN [at |-> "open", line |-> NoLine] ELSE logger[x]]
      BY <1>1 DEF spawn, setup_journal_loggers
    <3> QED BY <3>1, LoggingRecords DEF TypeInv, LoggerInv
  <2> QED BY <1>1, <2>1, <2>2 DEF spawn, disk, TypeInv
<1>2. CASE end_line(p)
  <2> DEFINE x == <<p, proc[p].wants>>
  <2>1. x \in Pipes /\ x[1] = p /\ x[2] = proc[p].wants
    BY <1>2, <1>5 DEF end_line, Process, Pipes
  <2>2. \A text \in {TRUE, ~Faults} : Line(p, x[2], text) \in Entry
    <3>1. proc[p].printed + 1 \in Nat /\ x[2] \in Streams
      BY <1>5, <2>1 DEF Process, Pipes
    <3>2. \A text \in {TRUE, ~Faults} : text \in BOOLEAN
      BY JournalAssumption
    <3> HIDE DEF x
    <3> QED BY <3>1, <3>2 DEF Line, Entry
  <2>3. CASE logger[x].at = "done"
    <3>1. /\ proc' = [proc EXCEPT ![p].state = "gone", ![p].wants = "none"]
          /\ UNCHANGED <<pipe, logger, disk, reader, shown, first, rotated>>
      BY <1>2, <2>3 DEF end_line
    <3>2. proc' \in [Procs -> Process]
      <4>1. proc' = [proc EXCEPT ![p] = [proc[p] EXCEPT !.state = "gone", !.wants = "none"]]
        BY <3>1 DEF TypeInv
      <4> QED BY <4>1, <1>5, ProcessUpdates DEF TypeInv
    <3> QED BY <3>1, <3>2 DEF disk, TypeInv, LoggerInv
  <2>4. CASE logger[x].at # "done"
    <3>1. /\ \E text \in {TRUE, ~Faults} :
               pipe' = [pipe EXCEPT ![x] = Append(pipe[x], Line(p, x[2], text))]
          /\ proc' = [proc EXCEPT ![p].printed = proc[p].printed + 1, ![p].wants = "none"]
          /\ UNCHANGED <<logger, disk, reader, shown, first, rotated>>
      BY <1>2, <2>4 DEF end_line
    <3>2. proc' \in [Procs -> Process]
      <4>1. proc' = [proc EXCEPT ![p] = [proc[p] EXCEPT !.printed = proc[p].printed + 1, !.wants = "none"]]
        BY <3>1 DEF TypeInv
      <4> QED BY <4>1, <1>5, ProcessUpdates DEF TypeInv
    <3> HIDE DEF x
    <3>3. pipe' \in [Pipes -> Seq(Entry)]
      <4>1. PICK text \in {TRUE, ~Faults} :
              pipe' = [pipe EXCEPT ![x] = Append(pipe[x], Line(p, x[2], text))]
        BY <3>1
      <4>2. pipe[x] \in Seq(Entry)
        BY <2>1 DEF TypeInv
      <4>3. Append(pipe[x], Line(p, x[2], text)) \in Seq(Entry)
        BY <2>2, <4>2, AppendProperties
      <4> QED BY <4>1, <4>3 DEF TypeInv
    <3> QED BY <3>1, <3>2, <3>3 DEF disk, TypeInv, LoggerInv
  <2> QED BY <2>3, <2>4
<1>3. CASE exit(p)
  <2>1. proc' \in [Procs -> Process]
    <3>1. proc' = [proc EXCEPT ![p] = [proc[p] EXCEPT !.state = "gone"]]
      BY <1>3 DEF exit, TypeInv
    <3> QED BY <3>1, <1>5, ProcessUpdates DEF TypeInv
  <2> QED BY <1>3, <2>1 DEF exit, disk, TypeInv, LoggerInv
<1>4. ASSUME NEW s \in Streams, begin_line(p, s)
      PROVE  TypeInv'
  <2>1. proc' \in [Procs -> Process]
    <3>1. proc' = [proc EXCEPT ![p] = [proc[p] EXCEPT !.wants = s]]
      BY <1>4 DEF begin_line, TypeInv
    <3> QED BY <3>1, <1>5, ProcessUpdates DEF TypeInv
  <2> QED BY <1>4, <2>1 DEF begin_line, disk, TypeInv, LoggerInv
<1> QED BY <1>1, <1>2, <1>3, <1>4

LEMMA FinishType ==
  ASSUME TypeInv, NEW x \in Pipes, Finish(x)
  PROVE  LoggerInv' /\ pipe' \in [Pipes -> Seq(Entry)]
<1>1. <<>> \in Seq(Entry)
  OBVIOUS
<1>2. LoggerInv'
  BY LoggerStep, LoggingRecords DEF Finish
<1> QED BY <1>1, <1>2 DEF Finish, TypeInv

LEMMA TypeLogger ==
  ASSUME TypeInv, NEW x \in Pipes, Logger(x)
  PROVE  TypeInv'
<1>1. x[2] \in Streams
  BY DEF Pipes
<1>2. CASE open_log(x)
  <2>1. LoggerInv' /\ pipe' \in [Pipes -> Seq(Entry)]
    <3>1. CASE Finish(x)
      BY <3>1, FinishType
    <3>2. CASE logger' = [logger EXCEPT ![x].at = "next_line"] /\ UNCHANGED pipe
      <4>1. logger[x] \in Logging
        BY DEF TypeInv, LoggerInv
      <4>2. logger' = [logger EXCEPT ![x] = [logger[x] EXCEPT !.at = "next_line"]]
        BY <3>2 DEF TypeInv, LoggerInv
      <4>3. [logger[x] EXCEPT !.at = "next_line"].at # "write"
        BY <4>1 DEF Logging
      <4> QED BY <3>2, <4>1, <4>2, <4>3, LoggerStep, LoggingRecords DEF TypeInv
    <3> QED BY <1>2, <3>1, <3>2 DEF open_log
  <2>2. logs' \subseteq Streams
    BY <1>1, <1>2 DEF open_log, TypeInv
  <2> QED BY <1>2, <2>1, <2>2 DEF open_log, TypeInv
<1>3. CASE next_line(x)
  <2>1. LoggerInv' /\ pipe' \in [Pipes -> Seq(Entry)]
    <3>1. CASE Finish(x)
      BY <3>1, FinishType
    <3>2. CASE /\ pipe[x] # <<>>
               /\ logger' = [logger EXCEPT ![x] = [at |-> "write", line |-> Head(pipe[x])]]
               /\ pipe' = [pipe EXCEPT ![x] = Tail(pipe[x])]
      <4>1. Head(pipe[x]) \in Entry /\ Tail(pipe[x]) \in Seq(Entry)
        BY <3>2, HeadTailProperties DEF TypeInv
      <4>2. LoggerInv'
        BY <3>2, <4>1, LoggerStep, LoggingRecords
      <4> QED BY <3>2, <4>1, <4>2 DEF TypeInv
    <3> QED BY <1>3, <3>1, <3>2 DEF next_line
  <2> QED BY <1>3, <2>1 DEF next_line, disk, TypeInv
<1>4. CASE write_entry(x)
  <2>1. logger[x].line \in Entry /\ file[x[2]] \in Seq(Entry)
    BY <1>1, <1>4 DEF write_entry, TypeInv, LoggerInv
  <2>2. Append(file[x[2]], logger[x].line) \in Seq(Entry)
    BY <2>1, AppendProperties
  <2>3. file' \in [Streams -> Seq(Entry)]
    BY <1>1, <1>4, <2>2 DEF write_entry, TypeInv
  <2>4. LoggerInv' /\ pipe' \in [Pipes -> Seq(Entry)]
    <3>1. CASE Finish(x)
      BY <3>1, FinishType
    <3>2. CASE /\ logger' = [logger EXCEPT ![x] = [at |-> "next_line", line |-> NoLine]]
               /\ UNCHANGED pipe
      <4>1. LoggerInv'
        BY <3>2, LoggerStep, LoggingRecords
      <4> QED BY <3>2, <4>1 DEF TypeInv
    <3> QED BY <1>4, <3>1, <3>2 DEF write_entry
  <2> QED BY <1>4, <2>3, <2>4 DEF write_entry, TypeInv
<1> QED BY <1>2, <1>3, <1>4 DEF Logger

LEMMA TypeCrash ==
  ASSUME TypeInv, crash
  PROVE  TypeInv'
<1>1. <<>> \in Seq(Entry)
  OBVIOUS
<1>2. LoggerInv'
  BY LoggingRecords DEF crash, TypeInv, LoggerInv
<1>3. pipe' \in [Pipes -> Seq(Entry)]
  BY <1>1 DEF crash
<1> QED BY <1>2, <1>3 DEF crash, disk, TypeInv

LEMMA TypeTruncate ==
  ASSUME TypeInv, NEW s \in Streams, truncate(s)
  PROVE  TypeInv'
<1>1. <<>> \in Seq(Entry)
  OBVIOUS
<1>2. file' \in [Streams -> Seq(Entry)] /\ rotated' \in [Streams -> Nat]
  BY <1>1 DEF truncate, TypeInv
<1> QED BY <1>2 DEF truncate, daemon, TypeInv, LoggerInv

\* The stream in hand, and those that come after it.
Onward == IF Tail(reader.todo) = <<>> THEN reader.round ELSE Tail(reader.todo)

LEMMA InHand ==
  ASSUME TypeInv, reader.at \in Working
  PROVE  /\ Stream \in Streams /\ Tail(reader.todo) \in Seq(Streams)
         /\ Onward \in Seq(Streams) /\ Onward # <<>>
         /\ file[Stream] \in Seq(Entry) /\ Len(file[Stream]) \in Nat
<1>1. reader.todo \in Seq(Streams) /\ reader.todo # <<>> /\ reader.round \in Seq(Streams) /\ reader.round # <<>>
  BY DEF TypeInv, Reading
<1>2. Stream \in Streams /\ Tail(reader.todo) \in Seq(Streams)
  BY <1>1, HeadTailProperties DEF Stream
<1>3. file[Stream] \in Seq(Entry)
  BY <1>2 DEF TypeInv
<1> QED BY <1>1, <1>2, <1>3, LenProperties DEF Onward

LEMMA TypeRun ==
  ASSUME TypeInv, NEW follow \in BOOLEAN, NEW n \in Tails, run(follow, n)
  PROVE  TypeInv' /\ UNCHANGED <<file, rotated, first, shown>> /\ reader'.pos = reader.pos
         /\ reader'.at \notin {"tail_read", "read_line", "read_eof"}
<1> DEFINE streams == (IF "out" \in logs THEN <<"out">> ELSE <<>>) \o (IF "err" \in logs THEN <<"err">> ELSE <<>>)
           at == IF streams = <<>> THEN "exited" ELSE IF follow THEN "tail" ELSE "replay"
<1>1. streams \in Seq(Streams)
  <2>1. /\ (IF "out" \in logs THEN <<"out">> ELSE <<>>) \in Seq(Streams)
        /\ (IF "err" \in logs THEN <<"err">> ELSE <<>>) \in Seq(Streams)
    <3>1. "out" \in Streams /\ "err" \in Streams
      BY DEF Streams
    <3>2. <<>> \in Seq(Streams) /\ <<"out">> \in Seq(Streams) /\ <<"err">> \in Seq(Streams)
      BY <3>1
    <3> QED BY <3>2
  <2> QED BY <2>1, ConcatProperties
<1>2. n \in Nat \cup {None}
  BY JournalAssumption
<1>3. reader' = [reader EXCEPT !.at = at, !.follow = follow, !.n = n, !.todo = streams, !.round = streams]
  BY DEF run
<1>4. at \in {"exited"} \cup {"tail", "replay"} /\ (at # "exited" => streams # <<>>)
  OBVIOUS
<1> HIDE DEF streams, at
<1>5. reader' \in Reading
  BY <1>1, <1>2, <1>3, <1>4 DEF TypeInv, Reading, Working
<1>6. reader'.at = at /\ reader'.pos = reader.pos /\ reader'.todo = streams /\ reader'.round = streams
  BY <1>3 DEF TypeInv, Reading
<1>7. reader'.at \in Working => reader'.todo # <<>> /\ reader'.round # <<>>
  BY <1>4, <1>6 DEF Working
<1>8. UNCHANGED <<daemon, disk, shown, first, rotated>>
  BY DEF run
<1> QED BY <1>4, <1>5, <1>6, <1>7, <1>8 DEF TypeInv, LoggerInv, daemon, disk

\* What a step of the reader does to its record, and to what is printed.
LEMMA ReplayStep ==
  ASSUME TypeInv, replay
  PROVE  /\ reader' \in Reading /\ reader'.pos = reader.pos /\ reader'.todo = Tail(reader.todo)
         /\ reader'.round = reader.round
         /\ \/ reader'.at = "replay" /\ Tail(reader.todo) # <<>>
            \/ reader'.at = "exited"
         /\ shown' = shown \cup Range(IF reader.n = None THEN file[Stream] ELSE LastOf(Stream, reader.n))
         /\ UNCHANGED <<daemon, disk, first, rotated>>
<1> DEFINE at == Rest("replay", "exited")
<1>1. reader.at \in Working
  BY DEF replay, Working
<1>2. Tail(reader.todo) \in Seq(Streams)
  BY <1>1, InHand
<1>3. reader' = [reader EXCEPT !.at = at, !.todo = Tail(reader.todo)]
  BY DEF replay
<1>4. (at = "replay" /\ Tail(reader.todo) # <<>>) \/ at = "exited"
  BY DEF Rest
<1> HIDE DEF at
<1>5. reader' \in Reading
  BY <1>2, <1>3, <1>4 DEF TypeInv, Reading, Working
<1>6. /\ reader'.pos = reader.pos /\ reader'.todo = Tail(reader.todo)
      /\ reader'.round = reader.round /\ reader'.at = at
  BY <1>3 DEF TypeInv, Reading
<1> QED BY <1>4, <1>5, <1>6 DEF replay, Emit

LEMMA TailLenStep ==
  ASSUME TypeInv, tail_len
  PROVE  /\ reader' \in Reading /\ reader'.round = reader.round
         /\ \/ /\ reader'.at \in {"tail", "poll"} /\ reader'.todo = Onward
               /\ reader'.pos = [reader.pos EXCEPT ![Stream] = Len(file[Stream])]
               /\ first' = [first EXCEPT ![Stream] = Len(file[Stream])]
            \/ /\ reader'.at = "tail_read" /\ reader'.todo = reader.todo /\ reader'.pos = reader.pos
               /\ reader'.len = Len(file[Stream]) /\ reader'.n = reader.n /\ reader.n \in Nat
               /\ first' = first
         /\ UNCHANGED <<daemon, disk, shown, rotated>>
<1> DEFINE len == Len(file[Stream])
           at == Rest("tail", "poll")
<1>1. reader.at \in Working
  BY DEF tail_len, Working
<1>2. Stream \in Streams /\ Onward \in Seq(Streams) /\ len \in Nat
  BY <1>1, InHand
<1>3. reader.n \in Nat \cup {None} /\ reader.pos \in [Streams -> Nat]
  BY DEF TypeInv, Reading
<1>4. at \in {"tail", "poll"}
  BY DEF Rest
<1>5. CASE reader.n \in {None, 0}
  <2>1. /\ reader' = [reader EXCEPT !.at = at, !.pos = [reader.pos EXCEPT ![Stream] = len], !.todo = Onward]
        /\ first' = [first EXCEPT ![Stream] = len]
    BY <1>5 DEF tail_len, Onward
  <2> HIDE DEF at, len
  <2>2. [reader.pos EXCEPT ![Stream] = len] \in [Streams -> Nat]
    BY <1>2, <1>3
  <2>3. reader' \in Reading
    BY <1>2, <1>4, <2>1, <2>2 DEF TypeInv, Reading, Working
  <2>4. /\ reader'.round = reader.round /\ reader'.todo = Onward /\ reader'.at = at
        /\ reader'.pos = [reader.pos EXCEPT ![Stream] = len]
    BY <2>1 DEF TypeInv, Reading
  <2> QED BY <1>4, <2>1, <2>3, <2>4 DEF tail_len, len
<1>6. CASE reader.n \notin {None, 0}
  <2>1. reader' = [reader EXCEPT !.at = "tail_read", !.len = len] /\ first' = first
    BY <1>6 DEF tail_len
  <2> HIDE DEF at, len
  <2>2. reader' \in Reading
    BY <1>2, <2>1 DEF TypeInv, Reading, Working
  <2>3. /\ reader'.round = reader.round /\ reader'.todo = reader.todo /\ reader'.at = "tail_read"
        /\ reader'.pos = reader.pos /\ reader'.len = len /\ reader'.n = reader.n
    BY <2>1 DEF TypeInv, Reading
  <2> QED BY <1>3, <1>6, <2>1, <2>2, <2>3 DEF tail_len, len
<1> QED BY <1>5, <1>6

LEMMA TailReadStep ==
  ASSUME TypeInv, tail_read
  PROVE  /\ reader' \in Reading /\ reader'.round = reader.round
         /\ reader'.at \in {"tail", "poll"} /\ reader'.todo = Onward
         /\ reader'.pos = [reader.pos EXCEPT ![Stream] = reader.len]
         /\ first' = [first EXCEPT ![Stream] = Len(file[Stream]) - Len(LastOf(Stream, reader.n))]
         /\ shown' = shown \cup Range(LastOf(Stream, reader.n))
         /\ UNCHANGED <<daemon, disk, rotated>>
<1> DEFINE at == Rest("tail", "poll")
<1>1. reader.at \in Working
  BY DEF tail_read, Working
<1>2. Stream \in Streams /\ Onward \in Seq(Streams)
  BY <1>1, InHand
<1>3. reader.len \in Nat /\ reader.pos \in [Streams -> Nat]
  BY DEF TypeInv, Reading
<1>4. at \in {"tail", "poll"}
  BY DEF Rest
<1>5. reader' = [reader EXCEPT !.at = at, !.pos = [reader.pos EXCEPT ![Stream] = reader.len], !.len = 0,
                               !.todo = Onward]
  BY DEF tail_read, Onward
<1> HIDE DEF at
<1>6. [reader.pos EXCEPT ![Stream] = reader.len] \in [Streams -> Nat]
  BY <1>2, <1>3
<1>7. reader' \in Reading
  BY <1>2, <1>4, <1>5, <1>6 DEF TypeInv, Reading, Working
<1>8. /\ reader'.round = reader.round /\ reader'.todo = Onward /\ reader'.at = at
      /\ reader'.pos = [reader.pos EXCEPT ![Stream] = reader.len]
  BY <1>5 DEF TypeInv, Reading
<1> QED BY <1>4, <1>7, <1>8 DEF tail_read, Emit

LEMMA NextStreamStep ==
  ASSUME TypeInv, reader.at \in Working, NEW pos \in Nat, NextStream(pos)
  PROVE  /\ reader' \in Reading /\ reader'.round = reader.round
         /\ reader'.at \in {"sleep", "poll"} /\ reader'.todo = Onward
         /\ reader'.pos = [reader.pos EXCEPT ![Stream] = pos]
<1> DEFINE at == IF Tail(reader.todo) = <<>> /\ ~reader.emitted_any THEN "sleep" ELSE "poll"
           any == IF Tail(reader.todo) = <<>> THEN FALSE ELSE reader.emitted_any
<1>1. Stream \in Streams /\ Onward \in Seq(Streams)
  BY InHand
<1>2. reader.pos \in [Streams -> Nat] /\ reader.emitted_any \in BOOLEAN
  BY DEF TypeInv, Reading
<1>3. at \in {"sleep", "poll"} /\ any \in BOOLEAN
  BY <1>2
<1>4. reader' = [reader EXCEPT !.pos = [reader.pos EXCEPT ![Stream] = pos], !.len = 0, !.cursor = 0,
                               !.todo = Onward, !.emitted_any = any, !.at = at]
  BY DEF NextStream, Onward
<1> HIDE DEF at, any
<1>5. [reader.pos EXCEPT ![Stream] = pos] \in [Streams -> Nat]
  BY <1>1, <1>2
<1>6. reader' \in Reading
  BY <1>1, <1>3, <1>4, <1>5 DEF TypeInv, Reading, Working
<1>7. /\ reader'.round = reader.round /\ reader'.todo = Onward /\ reader'.at = at
      /\ reader'.pos = [reader.pos EXCEPT ![Stream] = pos]
  BY <1>4 DEF TypeInv, Reading
<1> QED BY <1>3, <1>6, <1>7

LEMMA PollLenStep ==
  ASSUME TypeInv, poll_len
  PROVE  \E pos \in Nat :
         /\ reader' \in Reading /\ reader'.round = reader.round
         /\ pos = IF Len(file[Stream]) < reader.pos[Stream] THEN 0 ELSE reader.pos[Stream]
         /\ reader'.pos = [reader.pos EXCEPT ![Stream] = pos]
         /\ \/ reader'.at \in {"sleep", "poll"} /\ reader'.todo = Onward
            \/ /\ reader'.at = "read_line" /\ reader'.todo = reader.todo
               /\ reader'.len = Len(file[Stream]) /\ reader'.cursor = pos
         /\ UNCHANGED <<daemon, disk, shown, first, rotated>>
<1> DEFINE len == Len(file[Stream])
           pos == IF len < reader.pos[Stream] THEN 0 ELSE reader.pos[Stream]
<1>1. reader.at \in Working
  BY DEF poll_len, Working
<1>2. Stream \in Streams /\ len \in Nat
  BY <1>1, InHand
<1>3. reader.pos \in [Streams -> Nat]
  BY DEF TypeInv, Reading
<1>4. pos \in Nat
  BY <1>2, <1>3
<1>5. CASE len <= pos
  <2>1. NextStream(pos)
    BY <1>5 DEF poll_len
  <2> HIDE DEF pos
  <2>2. /\ reader' \in Reading /\ reader'.round = reader.round
        /\ reader'.at \in {"sleep", "poll"} /\ reader'.todo = Onward
        /\ reader'.pos = [reader.pos EXCEPT ![Stream] = pos]
    BY <1>1, <1>4, <2>1, NextStreamStep
  <2> QED BY <1>4, <2>2 DEF poll_len, pos
<1>6. CASE ~(len <= pos)
  <2>1. reader' = [reader EXCEPT !.at = "read_line", !.len = len, !.cursor = pos,
                                 !.pos = [reader.pos EXCEPT ![Stream] = pos]]
    BY <1>6 DEF poll_len
  <2> HIDE DEF pos, len
  <2>2. [reader.pos EXCEPT ![Stream] = pos] \in [Streams -> Nat]
    BY <1>2, <1>3, <1>4
  <2>3. reader' \in Reading
    BY <1>2, <1>4, <2>1, <2>2 DEF TypeInv, Reading, Working
  <2>4. /\ reader'.round = reader.round /\ reader'.todo = reader.todo /\ reader'.at = "read_line"
        /\ reader'.len = len /\ reader'.cursor = pos
        /\ reader'.pos = [reader.pos EXCEPT ![Stream] = pos]
    BY <2>1 DEF TypeInv, Reading
  <2> QED BY <1>4, <2>3, <2>4 DEF poll_len, len, pos
<1> QED BY <1>5, <1>6

LEMMA ReadLineStep ==
  ASSUME TypeInv, read_line
  PROVE  /\ reader' \in Reading /\ reader'.round = reader.round /\ reader'.todo = reader.todo
         /\ reader'.at = "read_line" /\ reader'.pos = reader.pos /\ reader'.len = reader.len
         /\ reader'.cursor = reader.cursor + 1 /\ reader.cursor < Len(file[Stream])
         /\ shown' = shown \cup {file[Stream][reader.cursor + 1]}
         /\ UNCHANGED <<daemon, disk, first, rotated>>
<1>1. reader' = [reader EXCEPT !.cursor = reader.cursor + 1, !.emitted_any = TRUE] /\ reader.at = "read_line"
  BY DEF read_line
<1>2. reader.cursor + 1 \in Nat
  <2>1. reader.cursor \in Nat
    BY DEF TypeInv, Reading
  <2> QED BY <2>1
<1>3. reader' \in Reading
  BY <1>1, <1>2 DEF TypeInv, Reading
<1>4. /\ reader'.round = reader.round /\ reader'.todo = reader.todo /\ reader'.at = "read_line"
      /\ reader'.pos = reader.pos /\ reader'.len = reader.len /\ reader'.cursor = reader.cursor + 1
  BY <1>1 DEF TypeInv, Reading
<1>5. \A e : Range(<<e>>) = {e}
  BY DEF Range
<1> QED BY <1>3, <1>4, <1>5 DEF read_line, Emit

LEMMA SeeEofStep ==
  ASSUME TypeInv, see_eof
  PROVE  /\ reader' \in Reading /\ reader'.round = reader.round /\ reader'.todo = reader.todo
         /\ reader'.at = "read_eof" /\ reader'.pos = reader.pos /\ reader'.len = reader.len
         /\ reader'.cursor = reader.cursor /\ reader.cursor >= Len(file[Stream])
         /\ UNCHANGED <<daemon, disk, shown, first, rotated>>
<1>1. reader' = [reader EXCEPT !.at = "read_eof"]
  BY DEF see_eof
<1>2. reader' \in Reading
  BY <1>1 DEF TypeInv, Reading, Working
<1>3. /\ reader'.round = reader.round /\ reader'.todo = reader.todo /\ reader'.at = "read_eof"
      /\ reader'.pos = reader.pos /\ reader'.len = reader.len /\ reader'.cursor = reader.cursor
  BY <1>1 DEF TypeInv, Reading
<1> QED BY <1>2, <1>3 DEF see_eof

LEMMA WakeStep ==
  ASSUME TypeInv, wake
  PROVE  /\ reader' \in Reading /\ reader'.round = reader.round /\ reader'.todo = reader.todo
         /\ reader'.at = "poll" /\ reader'.pos = reader.pos
         /\ UNCHANGED <<daemon, disk, shown, first, rotated>>
<1>1. reader' = [reader EXCEPT !.at = "poll"]
  BY DEF wake
<1>2. reader' \in Reading
  BY <1>1 DEF TypeInv, Reading, Working
<1>3. /\ reader'.round = reader.round /\ reader'.todo = reader.todo /\ reader'.at = "poll"
      /\ reader'.pos = reader.pos
  BY <1>1 DEF TypeInv, Reading
<1> QED BY <1>2, <1>3 DEF wake

LEMMA LeastIsMin ==
  ASSUME NEW S, S \subseteq Nat, S # {}
  PROVE  Min(S) \in S /\ \A n \in S : Min(S) <= n
BY LeastNat DEF Min

\* The last k entries of a log.
LEMMA LastEntries ==
  ASSUME TypeInv, NEW s \in Streams, NEW k \in Nat
  PROVE  /\ Len(LastOf(s, k)) \in 0 .. Len(file[s]) /\ Range(LastOf(s, k)) \subseteq Entry
         /\ \A i \in Len(file[s]) - Len(LastOf(s, k)) + 1 .. Len(file[s]) :
              file[s][i] \in Range(LastOf(s, k))
<1> DEFINE f == file[s]
           n == Len(f)
           m == Min({k, n})
           last == SubSeq(f, n - m + 1, n)
<1>1. f \in Seq(Entry) /\ n \in Nat /\ \A i \in 1 .. n : f[i] \in Entry
  BY ElementOfSeq, LenProperties DEF TypeInv
<1>2. m \in Nat /\ m <= n
  <2>1. {k, n} \subseteq Nat /\ {k, n} # {}
    BY <1>1
  <2>2. Min({k, n}) \in {k, n} /\ \A i \in {k, n} : Min({k, n}) <= i
    BY <2>1, LeastIsMin
  <2> QED BY <2>1, <2>2
<1>3. LastOf(s, k) = last
  BY DEF LastOf
<1> HIDE DEF m, f
<1>4. \A i \in n - m + 1 .. n : f[i] \in Entry
  BY <1>1, <1>2
<1>5. /\ last \in Seq(Entry)
      /\ Len(last) = m
      /\ \A i \in 1 .. m : last[i] = f[n - m + i]
  <2>1. n - m + 1 \in Int /\ n \in Int
    BY <1>1, <1>2
  <2>2. /\ last \in Seq(Entry)
        /\ Len(last) = IF n - m + 1 <= n THEN n - (n - m + 1) + 1 ELSE 0
        /\ \A i \in 1 .. n - (n - m + 1) + 1 : last[i] = f[(n - m + 1) + i - 1]
    BY <1>4, <2>1, SubSeqProperties
  <2>3. n - (n - m + 1) + 1 = m /\ Len(last) = m
    BY <1>1, <1>2, <2>2
  <2>4. \A i \in 1 .. m : (n - m + 1) + i - 1 = n - m + i
    BY <1>1, <1>2
  <2> QED BY <2>2, <2>3, <2>4
<1> HIDE DEF last
<1>6. DOMAIN last = 1 .. m
  BY <1>5, LenProperties
<1>7. Range(last) \subseteq Entry
  BY <1>5, <1>6, ElementOfSeq DEF Range
<1>8. ASSUME NEW i \in n - m + 1 .. n
      PROVE  f[i] \in Range(last)
  <2>1. i - (n - m) \in 1 .. m /\ n - m + (i - (n - m)) = i
    BY <1>1, <1>2
  <2>2. last[i - (n - m)] = f[i]
    BY <1>5, <2>1
  <2> QED BY <1>6, <2>1, <2>2 DEF Range
<1> QED BY <1>1, <1>2, <1>3, <1>5, <1>7, <1>8 DEF f

LEMMA EntriesOf ==
  ASSUME TypeInv, NEW s \in Streams
  PROVE  Range(file[s]) \subseteq Entry
<1>1. file[s] \in Seq(Entry)
  BY DEF TypeInv
<1>2. DOMAIN file[s] = 1 .. Len(file[s]) /\ \A i \in 1 .. Len(file[s]) : file[s][i] \in Entry
  BY <1>1, ElementOfSeq, LenProperties
<1> QED BY <1>2 DEF Range

LEMMA ReaderKeepsTypes ==
  ASSUME TypeInv, reader' \in Reading, reader'.at \in Working => reader'.todo # <<>> /\ reader'.round # <<>>,
         reader'.at = "tail_read" => reader'.n \in Nat, shown' \subseteq Entry, first' \in [Streams -> Nat], UNCHANGED <<daemon, disk, rotated>>
  PROVE  TypeInv'
BY DEF TypeInv, LoggerInv, daemon, disk

LEMMA TypeReader ==
  ASSUME TypeInv, Reader
  PROVE  TypeInv'
<1>1. reader.at \in Working
  BY DEF Reader, replay, tail_len, tail_read, poll_len, read_line, see_eof, read_eof, wake, Working
<1>2. /\ Stream \in Streams /\ Onward # <<>> /\ Len(file[Stream]) \in Nat
      /\ reader.todo # <<>> /\ reader.round # <<>> /\ shown \subseteq Entry /\ first \in [Streams -> Nat]
  BY <1>1, InHand DEF TypeInv
<1>3. reader \in Reading
  BY DEF TypeInv
<1>4. CASE replay
  <2>1. Range(IF reader.n = None THEN file[Stream] ELSE LastOf(Stream, reader.n)) \subseteq Entry
    BY <1>2, <1>3, LastEntries, EntriesOf DEF Reading
  <2> QED BY <1>2, <1>4, <2>1, ReplayStep, ReaderKeepsTypes DEF Working
<1>5. CASE tail_len
  <2>1. reader'.todo # <<>> /\ first' \in [Streams -> Nat]
    BY <1>2, <1>5, TailLenStep
  <2> QED BY <1>2, <1>5, <2>1, TailLenStep, ReaderKeepsTypes
<1>6. CASE tail_read
  <2>1. reader.n \in Nat /\ reader.len \in Nat
    BY <1>3, <1>6 DEF tail_read, TypeInv, Reading
  <2>2. Range(LastOf(Stream, reader.n)) \subseteq Entry
        /\ Len(file[Stream]) - Len(LastOf(Stream, reader.n)) \in Nat
    BY <1>2, <2>1, LastEntries
  <2>3. shown' \subseteq Entry /\ first' \in [Streams -> Nat]
    BY <1>2, <1>6, <2>2, TailReadStep
  <2> QED BY <1>2, <1>6, <2>3, TailReadStep, ReaderKeepsTypes
<1>7. CASE poll_len
  BY <1>2, <1>7, PollLenStep, ReaderKeepsTypes
<1>8. CASE read_line
  <2>1. file[Stream][reader.cursor + 1] \in Entry
    <3>1. reader.cursor \in Nat /\ reader.cursor < Len(file[Stream]) /\ file[Stream] \in Seq(Entry)
      BY <1>2, <1>3, <1>8 DEF read_line, Reading, TypeInv
    <3> QED BY <1>2, <3>1, ElementOfSeq
  <2> QED BY <1>2, <1>8, <2>1, ReadLineStep, ReaderKeepsTypes
<1>9. CASE see_eof
  BY <1>2, <1>9, SeeEofStep, ReaderKeepsTypes
<1>10. CASE read_eof
  <2>1. NextStream(reader.len) /\ reader.len \in Nat /\ UNCHANGED <<daemon, disk, shown, first, rotated>>
    BY <1>3, <1>10 DEF read_eof, Reading
  <2> QED BY <1>1, <1>2, <2>1, NextStreamStep, ReaderKeepsTypes
<1>11. CASE wake
  BY <1>2, <1>11, WakeStep, ReaderKeepsTypes
<1> QED BY <1>4, <1>5, <1>6, <1>7, <1>8, <1>9, <1>10, <1>11 DEF Reader

LEMMA TypeReadError ==
  ASSUME TypeInv, read_error
  PROVE  TypeInv'
<1>1. reader' = NoReader("exited") /\ UNCHANGED <<daemon, disk, shown, first, rotated>>
  BY DEF read_error
<1>2. reader' \in Reading /\ reader'.at = "exited"
  BY <1>1, NoReaderType
<1> QED BY <1>1, <1>2 DEF TypeInv, LoggerInv, daemon, disk, Working

LEMMA StutterTypes ==
  ASSUME TypeInv, UNCHANGED vars
  PROVE  TypeInv'
BY DEF vars, TypeInv, LoggerInv

LEMMA StepTypes == TypeInv /\ [Next]_vars => TypeInv'
<1> SUFFICES ASSUME TypeInv, [Next]_vars PROVE TypeInv'
  OBVIOUS
<1>1. CASE UNCHANGED vars
  BY <1>1, StutterTypes
<1>2. CASE Next
  BY <1>2, TypeProcess, TypeLogger, TypeCrash, TypeTruncate, TypeRun, TypeReader, TypeReadError DEF Next
<1> QED BY <1>1, <1>2

\* The types, that a logger task that writes has an entry (exec/mod.rs:262-288), and
\* that a reader at work has a stream.
THEOREM TypeCorrect == Spec => []TypeInv
BY InitTypes, StepTypes, PTL DEF Spec

-----------------------------------------------------------------------------
(* Nothing is missed                                                       *)

LEMMA InitPassed == Init => PassedInv
<1> SUFFICES ASSUME Init, NEW s \in Streams PROVE Printed(s, reader.pos[s]) /\ reader.at = "off"
  BY DEF PassedInv
<1>1. reader.pos[s] = 0 /\ reader.at = "off" /\ file[s] = <<>> /\ first[s] = 0
  BY NoReaderType DEF Init
<1> QED BY <1>1 DEF Printed, Within

\* The files of the streams that are not truncated grow, and printed lines stay so.
LEMMA StaysPrinted ==
  ASSUME TypeInv, NEW s \in Streams, NEW k \in Nat, Printed(s, k), first' = first,
         Len(file'[s]) \in Nat, Len(file'[s]) >= Len(file[s]),
         \A i \in 1 .. Len(file[s]) : file'[s][i] = file[s][i], shown \subseteq shown'
  PROVE  Printed(s, k)'
<1>1. first[s] \in Nat /\ Len(file[s]) \in Nat
  BY LenProperties DEF TypeInv
<1>2. \A i \in first[s] + 1 .. k : i \in 1 .. Len(file[s])
  BY <1>1 DEF Printed, Within
<1> QED BY <1>1, <1>2 DEF Printed, Within

\* The steps of others: the reader's record stays, and files grow or are truncated.
LEMMA OthersPassed ==
  ASSUME TypeInv, PassedInv, UNCHANGED <<reader, shown, first>>,
         \A s \in Streams : rotated'[s] = 0 =>
            /\ rotated[s] = 0 /\ Len(file'[s]) \in Nat /\ Len(file'[s]) >= Len(file[s])
            /\ \A i \in 1 .. Len(file[s]) : file'[s][i] = file[s][i]
  PROVE  PassedInv'
<1> SUFFICES ASSUME NEW s \in Streams, rotated'[s] = 0
             PROVE  /\ Printed(s, reader.pos[s])'
                    /\ reader.at \in {"tail_read", "read_line", "read_eof"} /\ s = Stream =>
                         reader.len <= Len(file'[s])
                    /\ reader.at \in {"read_line", "read_eof"} /\ s = Stream => Printed(s, reader.cursor)'
                    /\ reader.at = "read_eof" /\ s = Stream => reader.len <= reader.cursor
  BY DEF PassedInv, Stream
<1>1. /\ reader.pos[s] \in Nat /\ reader.cursor \in Nat /\ reader.len \in Nat /\ Len(file[s]) \in Nat
  BY LenProperties DEF TypeInv, Reading
<1>2. rotated[s] = 0
  OBVIOUS
<1>3. \A k \in Nat : Printed(s, k) => Printed(s, k)'
  BY StaysPrinted
<1>4. Printed(s, reader.pos[s])'
  <2>1. (reader.pos[s])' = reader.pos[s]
    OBVIOUS
  <2> QED BY <1>1, <1>2, <1>3, <2>1 DEF PassedInv, Printed, Within
<1>5. ASSUME reader.at \in {"read_line", "read_eof"}, s = Stream
      PROVE  Printed(s, reader.cursor)'
  BY <1>1, <1>2, <1>3, <1>5 DEF PassedInv, Printed, Within
<1>6. ASSUME reader.at \in {"tail_read", "read_line", "read_eof"}, s = Stream
      PROVE  reader.len <= Len(file'[s])
  BY <1>1, <1>2, <1>6 DEF PassedInv
<1>7. reader.at = "read_eof" /\ s = Stream => reader.len <= reader.cursor
  BY <1>2 DEF PassedInv
<1> QED BY <1>4, <1>5, <1>6, <1>7

LEMMA FilePassed ==
  ASSUME TypeInv, PassedInv,
         \/ \E p \in Procs : spawn(p) \/ end_line(p) \/ exit(p) \/ \E s \in Streams : begin_line(p, s)
         \/ \E x \in Pipes : Logger(x)
         \/ crash \/ \E s \in Streams : truncate(s)
         \/ UNCHANGED vars
  PROVE  PassedInv'
<1>1. \A s \in Streams : file[s] \in Seq(Entry) /\ Len(file[s]) \in Nat
  BY LenProperties DEF TypeInv
<1>2. CASE file' = file /\ UNCHANGED <<reader, shown, first, rotated>>
  BY <1>1, <1>2, OthersPassed
<1>3. ASSUME NEW x \in Pipes, write_entry(x)
      PROVE  PassedInv'
  <2> DEFINE w == x[2]
             e == logger[x].line
  <2>1. w \in Streams /\ e \in Entry
    BY <1>3 DEF write_entry, TypeInv, LoggerInv, Pipes
  <2>2. (file' = [file EXCEPT ![w] = Append(file[w], e)] \/ file' = file)
        /\ UNCHANGED <<reader, shown, first, rotated>>
    BY <1>3 DEF write_entry
  <2> HIDE DEF w, e
  <2>3. /\ Len(Append(file[w], e)) = Len(file[w]) + 1
        /\ \A i \in 1 .. Len(file[w]) : Append(file[w], e)[i] = file[w][i]
    BY <1>1, <2>1, AppendProperties
  <2>4. \A s \in Streams : file'[s] = IF s = w /\ file' # file THEN Append(file[w], e) ELSE file[s]
    BY <2>1, <2>2 DEF TypeInv
  <2>5. ASSUME NEW s \in Streams
        PROVE  /\ Len(file'[s]) \in Nat /\ Len(file'[s]) >= Len(file[s])
               /\ \A i \in 1 .. Len(file[s]) : file'[s][i] = file[s][i]
    <3>1. CASE file'[s] = file[s]
      BY <1>1, <3>1
    <3>2. CASE s = w /\ file'[s] = Append(file[w], e)
      BY <1>1, <2>3, <3>2
    <3> QED BY <2>4, <3>1, <3>2
  <2> QED BY <2>2, <2>5, OthersPassed
<1>4. ASSUME NEW t \in Streams, truncate(t)
      PROVE  PassedInv'
  <2>1. /\ file' = [file EXCEPT ![t] = <<>>] /\ rotated' = [rotated EXCEPT ![t] = rotated[t] + 1]
        /\ UNCHANGED <<reader, shown, first>>
    BY <1>4 DEF truncate
  <2>2. \A s \in Streams : rotated'[s] = 0 => s # t /\ rotated[s] = 0 /\ file'[s] = file[s]
    BY <2>1 DEF TypeInv
  <2> QED BY <1>1, <2>1, <2>2, OthersPassed
<1>5. ASSUME \/ \E p \in Procs : spawn(p) \/ end_line(p) \/ exit(p) \/ \E s \in Streams : begin_line(p, s)
             \/ \E x \in Pipes : open_log(x) \/ next_line(x)
             \/ crash \/ UNCHANGED vars
      PROVE  file' = file /\ UNCHANGED <<reader, shown, first, rotated>>
  BY <1>5 DEF spawn, end_line, exit, begin_line, open_log, next_line, crash, vars, disk
<1> QED BY <1>2, <1>3, <1>4, <1>5 DEF Logger

LEMMA ReaderPassed ==
  ASSUME TypeInv, PassedInv, Reader
  PROVE  PassedInv'
<1>1. reader.at \in Working
  BY DEF Reader, replay, tail_len, tail_read, poll_len, read_line, see_eof, read_eof, wake, Working
<1>2. /\ Stream \in Streams /\ Len(file[Stream]) \in Nat
      /\ reader.pos \in [Streams -> Nat] /\ reader.len \in Nat /\ reader.cursor \in Nat
      /\ first \in [Streams -> Nat]
  BY <1>1, InHand DEF TypeInv, Reading
<1>3. UNCHANGED <<file, rotated>> /\ shown \subseteq shown'
  <2>1. CASE read_eof
    BY <2>1 DEF read_eof, disk
  <2>2. CASE poll_len
    BY <2>2 DEF poll_len, disk
  <2>3. CASE replay \/ tail_len \/ tail_read \/ read_line \/ see_eof \/ wake
    BY <2>3 DEF replay, tail_len, tail_read, read_line, see_eof, wake, disk, Emit
  <2> QED BY <2>1, <2>2, <2>3 DEF Reader
<1>4. \A s \in Streams : Len(file[s]) \in Nat
  BY LenProperties DEF TypeInv
<1>5. \A s \in Streams, k \in Nat : first'[s] = first[s] /\ Printed(s, k) =>
        Within(file[s], shown', first'[s], k)
  BY <1>3 DEF Printed, Within
<1>6. \A s \in Streams : rotated[s] = 0 => Printed(s, reader.pos[s])
  BY DEF PassedInv
\* The stream in hand gets a new position, up to which all is printed.
<1>7. ASSUME NEW k \in Nat, reader'.pos = [reader.pos EXCEPT ![Stream] = k],
             \A s \in Streams : s # Stream => first'[s] = first[s],
             reader'.at \notin {"tail_read", "read_line", "read_eof"},
             rotated[Stream] = 0 => Within(file[Stream], shown', first'[Stream], k)
      PROVE  PassedInv'
  <2>1. ASSUME NEW s \in Streams, rotated[s] = 0
        PROVE  Within(file[s], shown', first'[s], reader'.pos[s])
    <3>1. CASE s = Stream
      <4>1. reader'.pos[s] = k
        BY <1>2, <1>7, <3>1
      <4> QED BY <1>7, <2>1, <3>1, <4>1
    <3>2. CASE s # Stream
      <4>1. reader'.pos[s] = reader.pos[s] /\ reader.pos[s] \in Nat /\ first'[s] = first[s]
        BY <1>2, <1>7, <3>2
      <4> QED BY <1>5, <1>6, <2>1, <4>1
    <3> QED BY <3>1, <3>2
  <2> QED BY <1>3, <1>7, <2>1 DEF PassedInv, Printed
\* The positions stay, and the stream in hand.
<1>8. ASSUME reader'.pos = reader.pos, first' = first,
             \/ reader'.at \notin {"tail_read", "read_line", "read_eof"}
             \/ /\ reader'.todo = reader.todo
                /\ rotated[Stream] = 0 =>
                     /\ reader'.len <= Len(file[Stream])
                     /\ reader'.at # "tail_read" =>
                          Within(file[Stream], shown', first[Stream], reader'.cursor)
                     /\ reader'.at = "read_eof" => reader'.len <= reader'.cursor
      PROVE  PassedInv'
  <2>1. ASSUME NEW s \in Streams, rotated[s] = 0
        PROVE  Within(file[s], shown', first'[s], reader'.pos[s])
    <3>1. reader.pos[s] \in Nat /\ reader'.pos[s] = reader.pos[s] /\ first'[s] = first[s]
      BY <1>2, <1>8
    <3> QED BY <1>5, <1>6, <2>1, <3>1
  <2>2. CASE reader'.at \notin {"tail_read", "read_line", "read_eof"}
    BY <1>3, <2>1, <2>2 DEF PassedInv, Printed
  <2>3. CASE /\ reader'.todo = reader.todo
             /\ rotated[Stream] = 0 =>
                  /\ reader'.len <= Len(file[Stream])
                  /\ reader'.at # "tail_read" =>
                       Within(file[Stream], shown', first[Stream], reader'.cursor)
                  /\ reader'.at = "read_eof" => reader'.len <= reader'.cursor
    <3>1. Stream' = Stream
      BY <2>3 DEF Stream
    <3> QED BY <1>3, <1>8, <2>1, <2>3, <3>1 DEF PassedInv, Printed
  <2> QED BY <1>8, <2>2, <2>3
<1>9. CASE replay
  BY <1>8, <1>9, ReplayStep
<1>10. CASE wake
  BY <1>8, <1>10, WakeStep
<1>11. CASE tail_len
  <2> DEFINE len == Len(file[Stream])
  <2>1. CASE /\ reader'.at \in {"tail", "poll"}
             /\ reader'.pos = [reader.pos EXCEPT ![Stream] = len]
             /\ first' = [first EXCEPT ![Stream] = len]
    <3>1. first'[Stream] = len /\ \A s \in Streams : s # Stream => first'[s] = first[s]
      BY <1>2, <2>1
    <3>2. Within(file[Stream], shown', len, len)
      BY <1>2 DEF Within
    <3> QED BY <1>2, <1>7, <2>1, <3>1, <3>2
  <2>2. CASE /\ reader'.at = "tail_read" /\ reader'.todo = reader.todo /\ reader'.pos = reader.pos
             /\ reader'.len = len /\ first' = first
    BY <1>2, <1>8, <2>2
  <2> QED BY <1>11, <2>1, <2>2, TailLenStep
<1>12. CASE tail_read
  <2> DEFINE last == LastOf(Stream, reader.n)
             f == Len(file[Stream]) - Len(last)
  <2>1. reader.n \in Nat
    BY <1>12 DEF tail_read, TypeInv
  <2>2. /\ f \in Nat
        /\ \A i \in f + 1 .. Len(file[Stream]) : file[Stream][i] \in Range(last)
    BY <1>2, <2>1, LastEntries
  <2>3. /\ reader'.pos = [reader.pos EXCEPT ![Stream] = reader.len]
        /\ first' = [first EXCEPT ![Stream] = f]
        /\ shown' = shown \cup Range(last)
        /\ reader'.at \in {"tail", "poll"}
    BY <1>12, TailReadStep
  <2>4. first'[Stream] = f /\ \A s \in Streams : s # Stream => first'[s] = first[s]
    BY <1>2, <2>3
  <2> HIDE DEF f, last
  <2>5. rotated[Stream] = 0 => reader.len <= Len(file[Stream])
    BY <1>2, <1>12 DEF PassedInv, tail_read
  <2>6. rotated[Stream] = 0 => Within(file[Stream], shown', f, reader.len)
    BY <1>2, <2>2, <2>3, <2>5 DEF Within
  <2> QED BY <1>2, <1>7, <2>3, <2>4, <2>6
<1>13. CASE poll_len
  <2>1. PICK pos \in Nat :
         /\ pos = IF Len(file[Stream]) < reader.pos[Stream] THEN 0 ELSE reader.pos[Stream]
         /\ reader'.pos = [reader.pos EXCEPT ![Stream] = pos]
         /\ \/ reader'.at \in {"sleep", "poll"} /\ reader'.todo = Onward
            \/ /\ reader'.at = "read_line" /\ reader'.todo = reader.todo
               /\ reader'.len = Len(file[Stream]) /\ reader'.cursor = pos
         /\ UNCHANGED <<daemon, disk, shown, first, rotated>>
    BY <1>13, PollLenStep
  <2>2. rotated[Stream] = 0 => pos = reader.pos[Stream] /\ Within(file[Stream], shown', first[Stream], pos)
    <3>1. rotated[Stream] = 0 => Printed(Stream, reader.pos[Stream]) /\ reader.pos[Stream] \in Nat
      BY <1>2, <1>6
    <3>2. rotated[Stream] = 0 => pos = reader.pos[Stream]
      BY <1>2, <2>1, <3>1 DEF Printed, Within
    <3> QED BY <2>1, <3>1, <3>2 DEF Printed
  <2>3. CASE reader'.at \in {"sleep", "poll"}
    BY <1>2, <1>7, <2>1, <2>2, <2>3
  <2>4. CASE reader'.at = "read_line" /\ reader'.todo = reader.todo
             /\ reader'.len = Len(file[Stream]) /\ reader'.cursor = pos
    <3>1. Stream' = Stream
      BY <2>4 DEF Stream
    <3>2. ASSUME NEW s \in Streams, rotated[s] = 0
          PROVE  Within(file[s], shown', first'[s], reader'.pos[s])
      <4>1. CASE s = Stream
        <5>1. reader'.pos[s] = pos
          BY <1>2, <2>1, <4>1
        <5> QED BY <2>1, <2>2, <3>2, <4>1, <5>1
      <4>2. CASE s # Stream
        <5>1. reader'.pos[s] = reader.pos[s] /\ reader.pos[s] \in Nat
          BY <1>2, <2>1, <4>2
        <5> QED BY <1>5, <1>6, <2>1, <3>2, <5>1
      <4> QED BY <4>1, <4>2
    <3> QED BY <1>2, <1>3, <2>1, <2>2, <2>4, <3>1, <3>2 DEF PassedInv, Printed
  <2> QED BY <2>1, <2>3, <2>4
<1>14. CASE read_line
  <2>1. /\ reader'.todo = reader.todo /\ reader'.at = "read_line" /\ reader'.pos = reader.pos
        /\ reader'.len = reader.len /\ reader'.cursor = reader.cursor + 1
        /\ reader.cursor < Len(file[Stream]) /\ first' = first /\ reader.at = "read_line"
        /\ shown' = shown \cup {file[Stream][reader.cursor + 1]}
    BY <1>14, ReadLineStep DEF read_line
  <2>2. rotated[Stream] = 0 =>
          reader.len <= Len(file[Stream]) /\ Within(file[Stream], shown, first[Stream], reader.cursor)
    BY <1>2, <2>1 DEF PassedInv, Printed
  <2>3. rotated[Stream] = 0 => Within(file[Stream], shown', first[Stream], reader.cursor + 1)
    BY <1>2, <2>1, <2>2 DEF Within
  <2> QED BY <1>8, <2>1, <2>2, <2>3
<1>15. CASE see_eof
  <2>1. /\ reader'.todo = reader.todo /\ reader'.at = "read_eof" /\ reader'.pos = reader.pos
        /\ reader'.len = reader.len /\ reader'.cursor = reader.cursor
        /\ reader.cursor >= Len(file[Stream]) /\ first' = first /\ shown' = shown
        /\ reader.at = "read_line"
    BY <1>15, SeeEofStep DEF see_eof
  <2>2. rotated[Stream] = 0 =>
          reader.len <= Len(file[Stream]) /\ Within(file[Stream], shown, first[Stream], reader.cursor)
    BY <1>2, <2>1 DEF PassedInv, Printed
  <2>3. rotated[Stream] = 0 => reader.len <= reader.cursor
    BY <1>2, <2>1, <2>2
  <2> QED BY <1>8, <2>1, <2>2, <2>3
<1>16. CASE read_eof
  <2>1. NextStream(reader.len) /\ UNCHANGED <<daemon, disk, shown, first, rotated>> /\ reader.at = "read_eof"
    BY <1>16 DEF read_eof
  <2>2. /\ reader'.at \in {"sleep", "poll"}
        /\ reader'.pos = [reader.pos EXCEPT ![Stream] = reader.len]
    BY <1>1, <1>2, <2>1, NextStreamStep
  <2>3. rotated[Stream] = 0 =>
          reader.len <= reader.cursor /\ Within(file[Stream], shown, first[Stream], reader.cursor)
    BY <1>2, <2>1 DEF PassedInv, Printed
  <2>4. rotated[Stream] = 0 => Within(file[Stream], shown', first'[Stream], reader.len)
    BY <1>2, <2>1, <2>3 DEF Within
  <2> QED BY <1>2, <1>7, <2>1, <2>2, <2>4
<1> QED BY <1>9, <1>10, <1>11, <1>12, <1>13, <1>14, <1>15, <1>16 DEF Reader

LEMMA RunPassed ==
  ASSUME TypeInv, PassedInv, NEW follow \in BOOLEAN, NEW n \in Tails, run(follow, n)
  PROVE  PassedInv'
BY TypeRun DEF PassedInv, Printed

LEMMA ErrorPassed ==
  ASSUME TypeInv, read_error
  PROVE  PassedInv'
<1>1. reader' = NoReader("exited") /\ UNCHANGED <<file, first, rotated>>
  BY DEF read_error, disk
<1>2. reader'.at = "exited" /\ \A s \in Streams : reader'.pos[s] = 0
  BY <1>1, NoReaderType
<1>3. ASSUME NEW s \in Streams PROVE Printed(s, reader.pos[s])'
  <2>1. Len(file[s]) \in Nat /\ first[s] \in Nat
    BY LenProperties DEF TypeInv
  <2> QED BY <1>1, <1>2, <2>1 DEF Printed, Within
<1> QED BY <1>2, <1>3 DEF PassedInv

LEMMA StepPassed == TypeInv /\ PassedInv /\ [Next]_vars => PassedInv'
<1> SUFFICES ASSUME TypeInv, PassedInv, [Next]_vars PROVE PassedInv'
  OBVIOUS
<1> QED BY FilePassed, ReaderPassed, RunPassed, ErrorPassed DEF Next

\* The position that following starts from next time never passes by an entry that was
\* not printed, however appends fall between the reads of length and content
\* (systeml-journal/src/main.rs:372-432).
THEOREM NothingIsMissed == Spec => []FollowMissesNothing
<1>1. PassedInv => FollowMissesNothing
  BY DEF PassedInv, FollowMissesNothing, Printed, Within
<1> QED BY <1>1, InitTypes, StepTypes, InitPassed, StepPassed, PTL DEF Spec
=============================================================================

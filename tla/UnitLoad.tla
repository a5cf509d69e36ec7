------------------------------ MODULE UnitLoad ------------------------------
(***************************************************************************)
(* How a unit is put together from its files (systeml-unit: load.rs,       *)
(* spec.rs, ini.rs).  load_unit_in looks for the main fragment along the   *)
(* search path, then reads the drop-in directories one after another,      *)
(* adds their lines to those it has, and after each directory parses the   *)
(* whole again.  Meanwhile others edit the files: a package manager, home- *)
(* manager, a person.  A file is the sequence of its lines as they are     *)
(* written: headers of sections, Key=Value lines, comments, lines that go  *)
(* on below; a value is the sequence of its words.                         *)
(***************************************************************************)
EXTENDS Integers, Sequences, FiniteSets, SequencesExt, FiniteSetsExt

CONSTANTS
  Bases,     \* how many directories the search path has, the first is searched first
  Instance,  \* TRUE: the unit is an instance (foo@bar), FALSE: it is a plain unit
  Section,   \* the section of the unit's type
  Texts,     \* what files hold
  Slots,     \* bound: the files that there may be
  MaxEdits   \* bound: edits of files

ASSUME UnitLoadAssumption ==
  Bases \in Nat \ {0} /\ Instance \in BOOLEAN /\ MaxEdits \in Nat
  /\ Section \in {"Service", "Socket", "Timer", "Path"}

VARIABLES
  files,     \* the files there are: slot -> text
  load,      \* [at, todo, paths, unit, fragments], locals of load_unit_in
  since,     \* history: [edits, removed, before], what happened since the load began
  edits      \* bound: edits so far

vars == <<files, load, since, edits>>

\* conf = 0 is the main fragment under the name `of`, the others are <of>.d/<conf>.conf
Slot(base, of, conf) == [base |-> base, of |-> of, conf |-> conf]
Forms == IF Instance THEN <<"name", "template">> ELSE <<"name">>

-----------------------------------------------------------------------------
(* The lines of a unit file, by what becomes of their values: texts and    *)
(* values replace the one before, texts are taken as they are and values   *)
(* must be well-formed.  units and words add the words of a line, units    *)
(* drop those that are no unit name.  checked add the words of a line and  *)
(* items the line itself, all must be well-formed.  raws add the line.     *)

None == [texts |-> {}, values |-> {}, units |-> {}, words |-> {}, checked |-> {}, items |-> {}, raws |-> {}]

apply_unit_section == [None EXCEPT
  !.texts = {"Description", "OnFailureJobMode", "CollectMode", "FailureAction", "SuccessAction",
             "RebootArgument", "SourcePath"},
  !.values = {"DefaultDependencies", "StopWhenUnneeded", "RefuseManualStart", "RefuseManualStop",
              "AllowIsolate", "JobTimeoutSec", "JobRunningTimeoutSec", "IgnoreOnIsolate"},
  !.units = {"After", "Before", "Wants", "Requires", "Requisite", "BindsTo", "PartOf", "Upholds",
             "Conflicts", "OnFailure", "OnSuccess", "PropagatesReloadTo", "ReloadPropagatedFrom",
             "PropagatesStopTo", "StopPropagatedFrom", "JoinsNamespaceOf"},
  !.words = {"Documentation"},
  !.items = {"ConditionFirstBoot", "ConditionACPower", "AssertFirstBoot", "AssertACPower"},
  !.raws = {"ConditionPathExists", "AssertPathExists"}] \* and every other Condition*, Assert*

apply_install_section == [None EXCEPT
  !.units = {"WantedBy", "RequiredBy", "UpheldBy", "Also", "Alias"}, !.texts = {"DefaultInstance"}]

ServiceProcess == [None EXCEPT
  !.texts = {"PIDFile", "BusName", "StartLimitAction"},
  !.values = {"Type", "RemainAfterExit", "GuessMainPID", "NotifyAccess", "Restart", "RestartSec",
              "RestartSteps", "RestartMaxDelaySec", "TimeoutStartSec", "TimeoutStopSec",
              "TimeoutAbortSec", "TimeoutSec", "RuntimeMaxSec", "RuntimeRandomizedExtraSec",
              "WatchdogSec", "StartLimitIntervalSec", "StartLimitInterval", "StartLimitBurst"},
  !.items = {"ExecStartPre", "ExecStart", "ExecStartPost", "ExecCondition", "ExecReload",
             "ExecStop", "ExecStopPost"}]

ServiceContext == [None EXCEPT
  !.texts = {"WorkingDirectory", "RootDirectory", "User", "Group", "FileDescriptorStorePreserve"},
  !.values = {"UMask", "Nice", "StandardInput", "StandardOutput", "StandardError", "KillMode",
              "KillSignal", "RestartKillSignal", "FinalKillSignal", "WatchdogSignal", "SendSIGKILL",
              "SendSIGHUP", "FileDescriptorStoreMax"}
             \cup {"LimitNOFILE", "LimitNPROC", "LimitCORE", "LimitAS", "LimitDATA", "LimitSTACK",
                   "LimitFSIZE", "LimitCPU", "LimitRSS", "LimitMEMLOCK", "LimitMSGQUEUE", "LimitNICE",
                   "LimitRTPRIO", "LimitRTTIME", "LimitSIGPENDING", "LimitLOCKS"},
  !.words = {"PassEnvironment", "UnsetEnvironment", "SupplementaryGroups", "Sockets"},
  !.checked = {"Environment", "SuccessExitStatus", "RestartPreventExitStatus", "RestartForceExitStatus"},
  !.raws = {"EnvironmentFile"}]

parse_service == [class \in DOMAIN None |-> ServiceProcess[class] \cup ServiceContext[class]]

parse_socket == [None EXCEPT
  !.texts = {"IPTOS", "BindToDevice", "SocketUser", "SocketGroup", "FileDescriptorName"},
  !.values = {"Accept", "Service", "MaxConnections", "MaxConnectionsPerSource", "Backlog", "KeepAlive",
              "KeepAliveTimeSec", "KeepAliveIntervalSec", "KeepAliveProbes", "NoDelay", "Priority",
              "DeferAcceptSec", "ReceiveBuffer", "SendBuffer", "IPTTL", "Mark", "ReusePort",
              "Transparent", "Broadcast", "PassCredentials", "PassSecurity", "PassPacketInfo",
              "BindIPv6Only", "SocketMode", "DirectoryMode", "RemoveOnStop", "TriggerLimitIntervalSec",
              "TriggerLimitBurst", "MessageQueueMaxMessages", "MessageQueueMessageSize"},
  !.words = {"Symlinks"},
  !.items = {"ListenStream", "ListenDatagram", "ListenSequentialPacket"},
  !.raws = {"ListenFIFO", "ListenSpecial", "ListenNetlink", "ListenMessageQueue", "ListenUSBFunction"}]

parse_timer == [None EXCEPT
  !.values = {"OnActiveSec", "OnBootSec", "OnStartupSec", "OnUnitActiveSec", "OnUnitInactiveSec",
              "OnClockChange", "OnTimezoneChange", "AccuracySec", "RandomizedDelaySec",
              "FixedRandomDelay", "Persistent", "WakeSystem", "RemainAfterElapse",
              "DeferReactivation", "Unit"},
  !.items = {"OnCalendar"}]

parse_path == [None EXCEPT
  !.values = {"Unit", "MakeDirectory", "DirectoryMode", "TriggerLimitIntervalSec", "TriggerLimitBurst"},
  !.raws = {"PathExists", "PathExistsGlob", "PathChanged", "PathModified", "DirectoryNotEmpty"}]

Table == [Unit |-> apply_unit_section, Install |-> apply_install_section, Service |-> parse_service,
          Socket |-> parse_socket, Timer |-> parse_timer, Path |-> parse_path]

\* The section of another type is not looked at, and neither is a section of no type.
Is(l, class) == l.section \in {"Unit", "Install", Section} /\ l.key \in Table[l.section][class]
IsScalar(l) == Is(l, "texts") \/ Is(l, "values")

\* A word is "bad" (not well-formed) or any other.
WellFormed(l) == "bad" \notin Range(l.value) /\ (l.value = <<>> => l.key = "OnCalendar")
Accepted(l) ==
  /\ Is(l, "values") \/ Is(l, "items") => WellFormed(l)
  /\ Is(l, "checked") => "bad" \notin Range(l.value)

\* Empty values add nothing to a list of words, and are an item like any other in a
\* list of lines. They do not empty the list, although ini.rs:10 says so and a test
\* shows it of Ini::effective_list: nothing that reads a unit calls that.
Adds(l) ==
  CASE Is(l, "units") -> SelectSeq(l.value, LAMBDA word : word # "bad")
    [] Is(l, "words") \/ Is(l, "checked") -> l.value
    [] OTHER -> <<l.value>>

Setting(key) ==
  CASE key \in {"StartLimitIntervalSec", "StartLimitInterval"} -> {"start_limit_interval_sec"}
    [] key = "TimeoutSec" -> {"TimeoutStartSec", "TimeoutStopSec"}
    [] key \in parse_socket.raws \cup parse_socket.items -> {"listen"}
    [] Section = "Path" /\ key \in parse_path.raws -> {"watches"}
    [] key \in {"ConditionFirstBoot", "ConditionACPower", "ConditionPathExists"} -> {"conditions"}
    [] key \in {"AssertFirstBoot", "AssertACPower", "AssertPathExists"} -> {"asserts"}
    [] OTHER -> {key}
SettingsOf(l) == IF \E class \in DOMAIN None : Is(l, class) THEN Setting(l.key) ELSE {}

-----------------------------------------------------------------------------
(* Text and sections (ini.rs). Of a line of text, name is its section or   *)
(* key, is says what it looks like, and more that it ends in a backslash:  *)
(* then the next one, whatever it looks like, is the rest of its value.    *)

Header(section) == [value |-> <<>>, name |-> section, is |-> "header", more |-> FALSE]
Entry(key, value) == [value |-> value, name |-> key, is |-> "entry", more |-> FALSE]
GoesOn(l) == [l EXCEPT !.more = TRUE]
Blank == [value |-> <<>>, name |-> "", is |-> "note", more |-> FALSE]
\* No Key=Value; stands also for a file that cannot be read.
Junk == [value |-> <<>>, name |-> "", is |-> "junk", more |-> FALSE]

WordsOf(l) == IF l.name = "" THEN l.value ELSE <<l.name>> \o l.value
JoinLine(lines, l) ==
  IF lines # <<>> /\ Last(lines).more
  THEN Append(Front(lines), [Last(lines) EXCEPT !.value = @ \o WordsOf(l), !.more = l.more])
  ELSE Append(lines, l)

\* An IndexMap of sections: lines are added to the section of the name, the first ones
\* at the end of the map.
Extend(sections, name, entries) ==
  IF \E i \in DOMAIN sections : sections[i].name = name
  THEN [i \in DOMAIN sections |-> IF sections[i].name # name THEN sections[i]
                                  ELSE [sections[i] EXCEPT !.entries = @ \o entries]]
  ELSE Append(sections, [name |-> name, entries |-> entries])

NoIni == [ok |-> FALSE, current |-> "", sections |-> <<>>]
ParseLine(ini, l) ==
  CASE ~ini.ok \/ l.is = "note" -> ini
    [] ini.ok /\ l.is = "header" /\ l.value = <<>> ->
         [ini EXCEPT !.current = l.name, !.sections = Extend(@, l.name, <<>>)]
    [] ini.ok /\ l.is = "entry" /\ ini.current # "" ->
         [ini EXCEPT !.sections = Extend(@, ini.current, <<[key |-> l.name, value |-> l.value]>>)]
    [] OTHER -> NoIni
parse_ini(text) ==
  LET lines == FoldLeft(JoinLine, <<>>, text)
      complete == lines = <<>> \/ ~Last(lines).more
  IN FoldLeft(ParseLine, [NoIni EXCEPT !.ok = complete], lines)

Entries(entries) == [i \in DOMAIN entries |-> Entry(entries[i].key, entries[i].value)]

\* Mutant: what a key was set to last is written.
render_ini_last(sections) ==
  LET last(entries) == SelectSeq(entries, LAMBDA e : e = Last(SelectSeq(entries, LAMBDA d : d.key = e.key)))
  IN FlattenSeq([i \in DOMAIN sections |->
                   <<Header(sections[i].name)>> \o Entries(last(sections[i].entries)) \o <<Blank>>])

render_ini(sections) ==
  FlattenSeq([i \in DOMAIN sections |->
                <<Header(sections[i].name)>> \o Entries(sections[i].entries) \o <<Blank>>])

-----------------------------------------------------------------------------
Failed == [ok |-> FALSE, settings |-> [x \in {} |-> <<>>], raw |-> <<>>]
empty == [Failed EXCEPT !.ok = TRUE]

ValueOf(unit, x) == IF x \in DOMAIN unit.settings THEN unit.settings[x] ELSE <<>>

ApplyLine(unit, l) ==
  IF ~(unit.ok /\ Accepted(l)) THEN Failed
  ELSE [unit EXCEPT !.settings =
          [x \in DOMAIN @ \cup SettingsOf(l) |->
             IF x \notin SettingsOf(l) THEN @[x]
             ELSE IF IsScalar(l) THEN <<l.value>> ELSE ValueOf(unit, x) \o Adds(l)]]

LinesOf(sections, name) ==
  LET here == SelectSeq(sections, LAMBDA section : section.name = name)
      entries == IF here = <<>> THEN <<>> ELSE Head(here).entries
  IN [i \in DOMAIN entries |-> [section |-> name, key |-> entries[i].key, value |-> entries[i].value]]

\* Every parse starts from an empty unit.
parse_unit_str(text) ==
  LET ini == parse_ini(text)
      lines == LinesOf(ini.sections, "Unit") \o LinesOf(ini.sections, "Install")
                 \o LinesOf(ini.sections, Section)
  IN IF ini.ok THEN FoldLeft(ApplyLine, [empty EXCEPT !.raw = ini.sections], lines) ELSE Failed

-----------------------------------------------------------------------------
candidates == FlattenSeq([f \in DOMAIN Forms |-> [b \in 1 .. Bases |-> Slot(b, Forms[f], 0)]])
candidate_dropin_dirs == Append(Forms, "type")
dropin_dirs ==
  FlattenSeq([b \in 1 .. Bases |->
    [d \in DOMAIN candidate_dropin_dirs |-> [base |-> b, of |-> candidate_dropin_dirs[d]]]])

Nothing == [at |-> "idle", todo |-> <<>>, paths |-> <<>>, unit |-> Failed, fragments |-> <<>>]

NoFiles == [s \in {} |-> <<>>]

Init ==
  /\ files \in [{Slot(1, "name", 0)} -> Texts]
  /\ load = Nothing
  /\ since = [edits |-> 0, removed |-> FALSE, before |-> NoFiles]
  /\ edits = 0

Ended == load.at \in {"done", "failed"}

\* A reload of the daemon loads each unit again.
load_unit_in ==
  /\ load.at = "idle"
  /\ load' = [Nothing EXCEPT !.at = "locate", !.todo = candidates]
  /\ since' = [since EXCEPT !.before = files]
  /\ UNCHANGED <<files, edits>>

\* It keeps the unit, or is without it from now on.
take_result ==
  /\ Ended
  /\ load' = Nothing
  /\ since' = [edits |-> 0, removed |-> FALSE, before |-> NoFiles]
  /\ UNCHANGED <<files, edits>>

Fail == load' = [Nothing EXCEPT !.at = "failed"]

\* One is_file.
locate_main ==
  /\ load.at = "locate"
  /\ IF Head(load.todo) \in DOMAIN files
     THEN load' = [load EXCEPT !.at = "parse", !.todo = dropin_dirs, !.paths = <<Head(load.todo)>>]
     ELSE IF Tail(load.todo) = <<>> THEN Fail
     ELSE load' = [load EXCEPT !.todo = Tail(@)]
  /\ UNCHANGED <<files, since, edits>>

\* The fragment may be gone since it was located.
parse_unit_file ==
  /\ load.at = "parse"
  /\ LET main == Head(load.paths)
     IN IF main \in DOMAIN files /\ parse_unit_str(files[main]).ok
        THEN load' = [load EXCEPT !.at = "read_dir", !.paths = <<>>,
                                  !.unit = parse_unit_str(files[main]), !.fragments = <<main>>]
        ELSE Fail
  /\ UNCHANGED <<files, since, edits>>

ConfsIn(dir) == {s \in DOMAIN files : s.base = dir.base /\ s.of = dir.of /\ s.conf > 0}

\* A listing, sorted; a directory that is not there is passed by.
read_dir ==
  /\ load.at = "read_dir"
  /\ IF load.todo = <<>> THEN load' = [load EXCEPT !.at = "done"]
     ELSE IF ConfsIn(Head(load.todo)) = {} THEN load' = [load EXCEPT !.todo = Tail(@)]
     ELSE load' = [load EXCEPT !.at = "read", !.todo = Tail(@),
                     !.paths = SetToSortSeq(ConfsIn(Head(load.todo)), LAMBDA s, t : s.conf < t.conf)]
  /\ UNCHANGED <<files, since, edits>>

\* Mutant: what cannot be read counts as empty.
apply_dropins_default ==
  /\ load.at = "read"
  /\ LET path == Head(load.paths)
         text == IF path \in DOMAIN files THEN files[path] ELSE <<>>
         add(raw, section) == Extend(raw, section.name, section.entries)
     IN IF parse_ini(text).ok
        THEN load' = [load EXCEPT !.at = IF Len(load.paths) = 1 THEN "reparse" ELSE "read",
                                  !.paths = Tail(@), !.fragments = Append(@, path),
                                  !.unit.raw = FoldLeft(add, @, parse_ini(text).sections)]
        ELSE Fail
  /\ UNCHANGED <<files, since, edits>>

\* A file that is gone since the listing, or does not parse, fails the load.
apply_dropins ==
  /\ load.at = "read"
  /\ LET path == Head(load.paths)
         add(raw, section) == Extend(raw, section.name, section.entries)
     IN IF path \in DOMAIN files /\ parse_ini(files[path]).ok
        THEN load' = [load EXCEPT !.at = IF Len(load.paths) = 1 THEN "reparse" ELSE "read",
                                  !.paths = Tail(@), !.fragments = Append(@, path),
                                  !.unit.raw = FoldLeft(add, @, parse_ini(files[path]).sections)]
        ELSE Fail
  /\ UNCHANGED <<files, since, edits>>

\* All lines so far are written out as one text, and that is parsed.
reparse ==
  /\ load.at = "reparse"
  /\ LET unit == parse_unit_str(render_ini(load.unit.raw))
     IN IF unit.ok THEN load' = [load EXCEPT !.at = "read_dir", !.unit = unit] ELSE Fail
  /\ UNCHANGED <<files, since, edits>>

\* Others replace, create or remove a file.
Edited(removed) ==
  /\ edits < MaxEdits /\ edits' = edits + 1
  /\ ~Ended
  /\ since' = IF load.at = "idle" THEN since
              ELSE [since EXCEPT !.edits = @ + 1, !.removed = @ \/ removed]
  /\ UNCHANGED load
edit(slot, text) ==
  /\ files' = [s \in DOMAIN files \cup {slot} |-> IF s = slot THEN text ELSE files[s]]
  /\ files' # files /\ Edited(FALSE)
remove(slot) ==
  /\ slot \in DOMAIN files
  /\ files' = [s \in DOMAIN files \ {slot} |-> files[s]]
  /\ Edited(TRUE)

Next ==
  \/ load_unit_in \/ take_result \/ locate_main \/ parse_unit_file \/ read_dir \/ apply_dropins \/ reparse
  \/ \E slot \in Slots : remove(slot) \/ \E text \in Texts : edit(slot, text)

Spec == Init /\ [][Next]_vars

-----------------------------------------------------------------------------
(* What a unit ought to be, from the files in one look                     *)

Before(s, t) ==
  LET rank(of) == CHOOSE d \in DOMAIN candidate_dropin_dirs : candidate_dropin_dirs[d] = of
  IN \/ s.base < t.base
     \/ s.base = t.base /\ rank(s.of) < rank(t.of)
     \/ s.base = t.base /\ s.of = t.of /\ s.conf < t.conf

Fragments(fs) ==
  LET mains == SelectSeq(candidates, LAMBDA s : s \in DOMAIN fs)
      dropins == {s \in DOMAIN fs : s.conf > 0 /\ s.of \in Range(candidate_dropin_dirs)}
  IN IF mains = <<>> THEN <<>> ELSE <<Head(mains)>> \o SetToSortSeq(dropins, Before)

\* What a text says, line by line: a line goes on while the one above ends in a
\* backslash, and belongs to the section of the nearest header above.
Begins(text, i) == i = 1 \/ ~text[i - 1].more
Ends(text, i) == Min({j \in i .. Len(text) : ~text[j].more} \cup {Len(text)})
Headers(text, i) == {h \in 1 .. i - 1 : Begins(text, h) /\ text[h].is = "header"}
Says(text) ==
  LET at == SelectSeq([i \in DOMAIN text |-> i], LAMBDA i : Begins(text, i) /\ text[i].is = "entry")
      rest(i) == FlattenSeq([k \in 1 .. Ends(text, i) - i |-> WordsOf(text[i + k])])
  IN [n \in DOMAIN at |-> [section |-> text[Max(Headers(text, at[n]))].name, key |-> text[at[n]].name,
                           value |-> text[at[n]].value \o rest(at[n])]]
IsUnitFile(text) ==
  \A i \in DOMAIN text :
    /\ i = Len(text) => ~text[i].more
    /\ Begins(text, i) =>
         /\ text[i].is # "junk"
         /\ text[i].is = "header" => WordsOf(text[i]) = <<text[i].name>> /\ Ends(text, i) = i
         /\ text[i].is = "entry" => Headers(text, i) # {}

\* The last scalar wins and lists grow, over all fragments at once. What a key is, and
\* which words a line adds, are the tables above.
Wanted(fs) ==
  LET fragments == Fragments(fs)
      lines == FlattenSeq([i \in DOMAIN fragments |-> Says(fs[fragments[i]])])
      setters(x) == SelectSeq(lines, LAMBDA l : x \in SettingsOf(l))
      value(x) == IF IsScalar(Last(setters(x))) THEN <<Last(setters(x)).value>>
                  ELSE FlattenSeq([i \in DOMAIN setters(x) |-> Adds(setters(x)[i])])
  IN IF \/ fragments = <<>> \/ \E i \in DOMAIN fragments : ~IsUnitFile(fs[fragments[i]])
        \/ \E l \in Range(lines) : ~Accepted(l)
     THEN [ok |-> FALSE, settings |-> Failed.settings, fragments |-> <<>>]
     ELSE [ok |-> TRUE, settings |-> [x \in UNION {SettingsOf(l) : l \in Range(lines)} |-> value(x)],
           fragments |-> fragments]

Result == [ok |-> load.unit.ok, settings |-> load.unit.settings, fragments |-> load.fragments]

\* Adding sections directory by directory, writing the whole out as text and parsing it
\* over and over comes to what the lines of all fragments say at once, the main one first,
\* in the order of the search path (load.rs:50-57), and fails for the same files. No
\* line is lost, doubled or moved to another section on the way.
LoadIsMerge == Ended /\ since.edits = 0 => Result = Wanted(files)

\* A file that is edited while its unit is being loaded is seen as it was or as it is,
\* in the same load never as both. Only where a file is removed the load may fail
\* although it would have succeeded before and would after.
OneEditIsSeenOrNot ==
  Ended /\ since.edits = 1 =>
    \/ Result \in {Wanted(since.before), Wanted(files)}
    \/ since.removed /\ load.at = "failed"
=============================================================================

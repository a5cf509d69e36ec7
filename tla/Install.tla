------------------------------ MODULE Install ------------------------------
(***************************************************************************)
(* Unit files, [Install] symlinks and masks on disk, the requests that     *)
(* change them, and what the daemon loads and starts because of them       *)
(* (systeml-runtime: install.rs and the unit-file methods of manager.rs; *)
(* systeml-unit: search.rs, load.rs).                                      *)
(***************************************************************************)
EXTENDS Naturals, Sequences, FiniteSets, SequencesExt, FiniteSetsExt

CONSTANTS
  Units,        \* unit names, all of a kind that boot activates
  SearchPath,   \* the unit directories, highest priority first
  Config,       \* the directory of persistent requests
  Runtime,      \* the directory of runtime requests, in SearchPath only if
                \* XDG_RUNTIME_DIR is set
  LinkDirs,     \* names of .wants, .requires and .upholds directories
  Texts,        \* what a unit file says: [valid, dirs, aliases]
  FirstFiles,   \* the file systems to begin with: sets of top-level functions
  FirstLinks,   \* the install links to begin with
  FirstCopies,  \* those of them that are regular files, not symlinks
  Requests,     \* the requests a client may send: [op, names, runtime, force]
  Edits,        \* what others do to unit files: [at, entry]
  Faults,       \* TRUE: writing to the file system may fail
  MaxRequests, MaxEdits

Dirs == Range(SearchPath)
Tops == Dirs \X Units
Links == Dirs \X LinkDirs \X Units

Text == [valid : BOOLEAN, dirs : Seq(LinkDirs), aliases : Seq(Units)]

\* What a name in a unit directory is: nothing, a unit file, a link to a file
\* outside (home-manager's, in the Nix store), a link to /dev/null, or a link to
\* another name in a unit directory.
Absent == [is |-> "absent"]
Null == [is |-> "null"]
File(text) == [is |-> "file", text |-> text]
Store(text) == [is |-> "store", text |-> text]
LinkTo(top) == [is |-> "link", to |-> top]
Entry == {Absent, Null} \cup {File(t) : t \in Texts} \cup {Store(t) : t \in Texts}
           \cup {LinkTo(p) : p \in Tops}

Unloaded == [is |-> "unloaded"]
NoCall == [op |-> "none", asked |-> {}, names |-> <<>>, base |-> Config, force |-> FALSE,
           work |-> <<>>, seen |-> "unseen", failed |-> FALSE]

VARIABLES
  top,        \* top[p]: what is at name p[2] of directory p[1]
  links,      \* the names below .wants, .requires and .upholds
  copies,     \* those of them that are regular files
  units,      \* Manager.units: the text a unit was last loaded from
  status,     \* Manager.status: "none", "inactive" or "active"
  up,         \* the daemon runs
  call,       \* the request that holds the Manager: what is left of it to do
  requests, edits

disk == <<top, links, copies>>
vars == <<disk, units, status, up, call, requests, edits>>

ASSUME InstallAssumption ==
  /\ IsFiniteSet(Units)
  /\ SearchPath \in Seq(Dirs) /\ Config \in Dirs
  /\ Texts \subseteq Text
  /\ FirstFiles \subseteq [Tops -> Entry]
  /\ \A created \in FirstLinks : created \subseteq Links /\ IsFiniteSet(created)
  /\ FirstCopies \subseteq Links
  /\ Requests \subseteq [op : {"enable", "disable", "mask", "unmask"},
                         names : Seq(Units), runtime : BOOLEAN, force : BOOLEAN]
  /\ Edits \subseteq [at : Tops, entry : Entry]
  /\ Faults \in BOOLEAN
  /\ MaxRequests \in Nat /\ MaxEdits \in Nat

-----------------------------------------------------------------------------
(* Looking up unit files *)

\* What is found where the links end; a chain that does not end is not a file.
Followed(files) ==
  LET after[n \in 0 .. Cardinality(Tops)] ==
        [p \in Tops |-> IF files[p].is # "link" \/ n = 0 THEN files[p]
                        ELSE after[n - 1][files[p].to]]
  IN after[Cardinality(Tops)]

Opened(p) == Followed(top)[p]
IsFile(p) == Opened(p).is \in {"file", "store"}

\* The best directory that holds a file for u.
Holding(u) == {i \in DOMAIN SearchPath : IsFile(<<SearchPath[i], u>>)}
HasFragment(u) == Holding(u) # {}
locate_fragment(u) == <<SearchPath[Min(Holding(u))], u>>
FragmentText(u) == Opened(locate_fragment(u)).text

\* daemon_reload loads a unit if the best file for it can be parsed.
Loadable(u) == HasFragment(u) /\ FragmentText(u).valid

has_install_link(u) == \E d \in Dirs, l \in LinkDirs : <<d, l, u>> \in links

\* What [Install] asked for when the unit was last loaded.
InstallInfo(u) == units[u] # Unloaded /\ (units[u].dirs # <<>> \/ units[u].aliases # <<>>)

-----------------------------------------------------------------------------
Init ==
  /\ top \in FirstFiles
  /\ links \in FirstLinks
  /\ copies = links \cap FirstCopies
  /\ units = [u \in Units |-> Unloaded]
  /\ status = [u \in Units |-> "none"]
  /\ up = FALSE
  /\ call = NoCall
  /\ requests = 0 /\ edits = 0

-----------------------------------------------------------------------------
(* Requests: the Manager's loops over the names, one call of the file system a *)
(* step. The write lock keeps other requests out, not the writers of unit      *)
(* files.                                                                      *)

Ready == up /\ call = NoCall

\* systemlctl asks for persistent changes without force, and for enable and
\* disable only from a user who insists.
AllowedOps(insists) == {"mask", "unmask"} \cup IF insists THEN {"enable", "disable"} ELSE {}
ClientRequests(insists, names) ==
  [op : AllowedOps(insists), names : names, runtime : {FALSE}, force : {FALSE}]

begin_request(r) ==
  /\ Ready
  /\ requests < MaxRequests /\ requests' = requests + 1
  /\ call' = [op |-> r.op, asked |-> Range(r.names), names |-> r.names, force |-> r.force,
              work |-> <<>>, seen |-> "unseen", failed |-> FALSE,
              base |-> IF r.runtime /\ Runtime \in Dirs THEN Runtime ELSE Config]
  /\ UNCHANGED <<disk, units, status, up, edits>>

\* A place is a name in a unit directory or a name in a directory below one.
IsTop(place) == place \in Tops
Kind(place) ==
  IF IsTop(place) THEN top[place].is
  ELSE IF place \in copies THEN "file" ELSE IF place \in links THEN "link" ELSE "absent"
Put(place, entry) ==
  IF IsTop(place) THEN top' = [top EXCEPT ![place] = entry] /\ UNCHANGED <<links, copies>>
  ELSE links' = links \cup {place} /\ UNCHANGED <<top, copies>>
Unlink(place) ==
  IF IsTop(place) THEN top' = [top EXCEPT ![place] = Absent] /\ UNCHANGED <<links, copies>>
  ELSE links' = links \ {place} /\ copies' = copies \ {place} /\ UNCHANGED top

\* enable: the links that [Install] asks for, as the unit was last loaded, to its
\* fragment or, without one, to a file to come next to the link.
Wanted(u) ==
  LET source == IF HasFragment(u) THEN locate_fragment(u) ELSE <<call.base, u>>
      to(place) == [place |-> place, entry |-> LinkTo(source)]
  IN IF ~InstallInfo(u) THEN <<>>
     ELSE [i \in DOMAIN units[u].dirs |-> to(<<call.base, units[u].dirs[i], u>>)]
            \o [i \in DOMAIN units[u].aliases |-> to(<<call.base, units[u].aliases[i]>>)]

\* Mutant: the name of the link is not compared.
Found_any(u) == {l \in links : l[1] = call.base} \cup {<<call.base, u>>}

\* disable: what has the name below a directory of the base, and a link of that name
\* in the base itself, whatever it links to.
Found(u) == {l \in links : l[1] = call.base /\ l[3] = u} \cup {<<call.base, u>>}

Masks(u) == <<[place |-> <<call.base, u>>, entry |-> Null]>>

Planned(u) ==
  CASE call.op = "enable" -> Wanted(u)
    [] call.op = "mask" -> Masks(u)
    [] OTHER -> SetToSeq({[place |-> p, entry |-> Absent] :
         p \in IF call.op = "disable" THEN Found(u) ELSE {<<call.base, u>>}})

next_unit ==
  /\ call # NoCall /\ call.work = <<>> /\ call.names # <<>>
  /\ call' = [call EXCEPT !.names = Tail(@), !.work = Planned(Head(call.names))]
  /\ UNCHANGED <<disk, units, status, up, requests, edits>>

Linking == call.op \in {"enable", "mask"}
Step == /\ call.work # <<>>
        /\ UNCHANGED <<units, status, up, requests, edits>>
Place == Head(call.work).place
Worked(failed) ==
  call' = [call EXCEPT !.work = Tail(@), !.seen = "unseen", !.failed = @ \/ failed]

\* First a request looks what is there.
look ==
  /\ Step /\ call.seen = "unseen"
  /\ call' = [call EXCEPT !.seen = Kind(Place)]
  /\ UNCHANGED disk

\* Mutant: any existing name will do, as it does below the unit directory.
Removable_any == call.seen # "absent"
\* disable takes a symlink from a unit directory and anything from a directory below
\* one, unmask a symlink to /dev/null.
Removable ==
  IF call.op = "unmask" THEN call.seen = "null"
  ELSE call.seen \in {"null", "store", "link"} \/ (call.seen = "file" /\ ~IsTop(Place))

\* An existing name is passed by, silently, and so is what may not be removed.
pass_by ==
  /\ Step /\ call.seen # "unseen"
  /\ IF Linking THEN call.seen # "absent" /\ ~call.force ELSE ~Removable
  /\ Worked(FALSE)
  /\ UNCHANGED disk

\* A forced link removes what is there, or fails to: the error is dropped.
make_room ==
  /\ Linking /\ Step /\ call.seen \notin {"unseen", "absent"} /\ call.force
  /\ \/ Unlink(Place)
     \/ Faults /\ UNCHANGED disk
  /\ call' = [call EXCEPT !.seen = "absent"]

\* The symlink is made, unless something is there by now: the error ends the request
\* through `?`, and what is done stays done.
link_one ==
  /\ Linking /\ Step /\ call.seen = "absent"
  /\ IF Kind(Place) # "absent" THEN call' = NoCall /\ UNCHANGED disk
     ELSE Put(Place, Head(call.work).entry) /\ Worked(FALSE)

\* What is there by now is removed, whatever it is.  An error of disable's
\* remove_file is dropped, that of unmask ends the request.
unlink_one ==
  /\ ~Linking /\ Step /\ call.seen # "unseen" /\ Removable
  /\ \/ Kind(Place) # "absent" /\ Unlink(Place) /\ Worked(FALSE)
     \/ /\ Kind(Place) = "absent" \/ Faults
        /\ IF call.op = "disable" THEN Worked(Kind(Place) # "absent") ELSE call' = NoCall
        /\ UNCHANGED disk

\* Any other error of a request that makes links ends it.
io_error ==
  /\ Faults /\ Linking /\ Step /\ call.seen \in {"unseen", "absent"}
  /\ call' = NoCall
  /\ UNCHANGED disk

reply ==
  /\ call # NoCall /\ call.work = <<>> /\ call.names = <<>>
  /\ call' = NoCall
  /\ UNCHANGED <<disk, units, status, up, requests, edits>>

-----------------------------------------------------------------------------
(* Loading and starting *)

Reloaded(u) == IF Loadable(u) THEN FragmentText(u) ELSE units[u]

StatusReloaded(u) ==
  CASE ~Loadable(u) -> "none"
    [] Loadable(u) /\ status[u] = "none" -> "inactive"
    [] OTHER -> status[u]

\* A unit whose file is gone, or cannot be parsed any more, loses its status;
\* `units` keeps it.
daemon_reload ==
  /\ Ready
  /\ units' = [u \in Units |-> Reloaded(u)]
  /\ status' = [u \in Units |-> StatusReloaded(u)]
  /\ UNCHANGED <<disk, up, call, requests, edits>>

\* The daemon starts: it loads what there is, and starts what has a link.
activate_enabled_units(loaded) ==
  status' = [u \in Units |->
    IF u \notin loaded THEN "none" ELSE IF has_install_link(u) THEN "active" ELSE "inactive"]

boot ==
  /\ ~up /\ up' = TRUE
  /\ units' = [u \in Units |-> IF Loadable(u) THEN FragmentText(u) ELSE Unloaded]
  /\ activate_enabled_units({u \in Units : Loadable(u)})
  /\ UNCHANGED <<disk, call, requests, edits>>

crash ==
  /\ up /\ up' = FALSE
  /\ units' = [u \in Units |-> Unloaded]
  /\ status' = [u \in Units |-> "none"]
  /\ call' = NoCall
  /\ UNCHANGED <<disk, requests, edits>>

\* start_unit looks for a runner, at no mask and at no link.
start_unit(u) ==
  /\ Ready /\ status[u] = "inactive"
  /\ status' = [status EXCEPT ![u] = "active"]
  /\ UNCHANGED <<disk, units, up, call, requests, edits>>

stop_unit(u) ==
  /\ Ready /\ status[u] = "active"
  /\ status' = [status EXCEPT ![u] = "inactive"]
  /\ UNCHANGED <<disk, units, up, call, requests, edits>>

\* Somebody else, home-manager or an editor, puts or removes a unit file.
edit(p, entry) ==
  /\ edits < MaxEdits /\ edits' = edits + 1
  /\ entry # top[p]
  /\ top' = [top EXCEPT ![p] = entry]
  /\ UNCHANGED <<links, copies, units, status, up, call, requests>>

Next ==
  \/ \E r \in Requests : begin_request(r)
  \/ next_unit \/ look \/ pass_by \/ make_room \/ link_one \/ unlink_one \/ io_error \/ reply
  \/ daemon_reload \/ boot \/ crash
  \/ \E u \in Units : start_unit(u) \/ stop_unit(u)
  \/ \E e \in Edits : edit(e.at, e.entry)

Spec == Init /\ [][Next]_vars

-----------------------------------------------------------------------------
\* No request destroys a unit file of the user, in any order of requests, faults and
\* edits by others: enable and mask pass existing names by (install.rs:113-116 and
\* 203-206), disable and unmask take symlinks only.  Between the look and the removal
\* (install.rs:156-163 and 232-238) somebody may put a file where the request has seen
\* a symlink: that one is lost.  A regular file below a unit directory is taken by
\* disable (install.rs:178), though the comment at 135-137 speaks of links, but by no
\* other request without force.
FilesKept ==
  [][/\ \A p \in Tops : top[p].is = "file" /\ top'[p] # top[p] =>
          \/ call.force \/ edits' # edits
          \/ p = Place /\ call.seen \in {"null", "store", "link"}
     /\ copies' # copies => call.force \/ call.op = "disable"]_vars


\* Requests enable and disable the units they name and no others, masks and aliases
\* enable nothing, and a daemon that starts brings up exactly what is enabled and
\* can be loaded, whatever requests were cut short by a crash or an error.
Promise == INSTANCE Enablement WITH
  enabled <- [d \in Dirs |-> {u \in Units : \E l \in LinkDirs : <<d, l, u>> \in links}],
  loadable <- {u \in Units : Loadable(u)},
  running <- {u \in Units : status[u] = "active"},
  up <- up,
  asked <- [op |-> call.op, dir |-> call.base, names |-> call.asked]
KeepsEnablement == Promise!Spec
=============================================================================

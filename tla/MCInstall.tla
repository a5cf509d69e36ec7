----------------------------- MODULE MCInstall -----------------------------
(***************************************************************************)
(* Two units and three directories; v may also be an alias of u.           *)
(***************************************************************************)
EXTENDS Install, TLC

AllUnits == {"u", "v"}
Path == <<"config", "etc", "runtime">>

Plain == [valid |-> TRUE, dirs |-> <<>>, aliases |-> <<>>]
Wants == [valid |-> TRUE, dirs |-> <<"wants", "requires">>, aliases |-> <<"v">>]
Broken == [valid |-> FALSE, dirs |-> <<>>, aliases |-> <<>>]
AllTexts == {Plain, Wants, Broken}

\* u's file is with the vendor, in the user's directory, or home-manager's; v's is
\* with the vendor, or there is none.
Disk(assigned) == assigned @@ [p \in Tops |-> Absent]
Disks ==
  {Disk(<<"etc", "u">> :> File(Wants) @@ <<"etc", "v">> :> e) : e \in {Absent, File(Plain)}}
  \cup {Disk(<<"config", "u">> :> e) : e \in {File(Wants), Store(Wants)}}
SomeLinks ==
  {{}, {<<"etc", "wants", "v">>, <<"config", "wants", "v">>, <<"config", "requires", "v">>}}
OneCopy == {<<"config", "requires", "v">>}

\* Anything for u, and both units as the client asks.
AllRequests ==
  [op : {"enable", "disable", "mask", "unmask"}, names : {<<"u">>},
   runtime : BOOLEAN, force : BOOLEAN]
  \cup ClientRequests(TRUE, {<<"v", "u">>})

AllEdits ==
  [at : {"config", "etc"} \X {"u"}, entry : {Absent, File(Broken), File(Plain), Store(Wants)}]
=============================================================================

---------------------------- MODULE MCUnitLoad ----------------------------
(***************************************************************************)
(* An instance of a template and its drop-ins in two directories.          *)
(***************************************************************************)
EXTENDS UnitLoad

\* Every class of key: a scalar over another, a scalar for two settings, lists and an
\* empty line of one, a value that goes on below and one that swallows a header;
\* sections that come in another order or twice, or belong to another type; text that
\* is refused, is outside of any section, or cannot be read.
SomeTexts ==
  {<<Header("Service"), Entry("TimeoutSec", <<"a">>), GoesOn(Entry("Environment", <<"a">>)),
     Entry("PassEnvironment", <<"b">>), Header("Unit"), Entry("After", <<"b", "bad">>),
     Entry("Description", <<"a">>)>>,
   <<Blank, Header("Unit"), Entry("After", <<>>), Entry("Description", <<"c">>), Header("Service"),
     Entry("TimeoutStopSec", <<"b">>), Entry("EnvironmentFile", <<>>), Entry("ExecStart", <<"b">>),
     Header("Unit"), GoesOn(Entry("Documentation", <<"d">>)), Header("Service"),
     Entry("After", <<"c">>), Header("Timer"), Entry("Persistent", <<"bad">>)>>,
   <<Header("Service"), Entry("PassEnvironment", <<"b">>), Entry("ExecStart", <<>>)>>,
   <<Entry("Description", <<"d">>), Junk>>}

SomeSlots ==
  {Slot(1, "name", 0), Slot(2, "name", 0), Slot(1, "template", 0)}
    \cup {Slot(1, "name", 1), Slot(1, "name", 2), Slot(2, "name", 1), Slot(1, "template", 1), Slot(1, "type", 1)}
=============================================================================

--------------------------- MODULE MCTransaction ---------------------------
(***************************************************************************)
(* Small systems of units and the requests made of them.                    *)
(***************************************************************************)
EXTENDS Transaction

CONSTANTS
  a, b, c,          \* names of units; a is the one that is asked for
  Kinds,            \* directives, in files of at most two lines
  DeepKinds,        \* directives, in files of three lines
  IsolateKinds      \* directives, in files of at most two lines, for Isolate

ThreeNames == <<a, b, c>>

\* Unit files with at most MaxLines lines, none of them about its own unit.
MaxLines == 3
Line == {l \in {a, b, c} \X (Kinds \cup DeepKinds \cup IsolateKinds) \X {a, b, c} : l[1] # l[3]}
Files(k, kinds) == {Range(f) : f \in [1 .. k -> {l \in Line : l[2] \in kinds}]}

\* How many lines, of which kinds, for which requests.
Settings ==
  [max : {2}, kinds : {Kinds}, kind : JobType, mode : {"Replace"}, active : {{}, {a, b}},
   existing : {{}}, out : {{}}]
  \cup
  [max : {MaxLines}, kinds : {DeepKinds}, kind : {"Start", "Stop"}, mode : {"Replace"},
   active : {{}}, existing : {{}}, out : {{}}]
  \cup
  [max : {1}, kinds : {Kinds}, kind : {"Start", "Stop", "VerifyActive"}, mode : JobMode, active : {{b, c}},
   existing : {{}, {[unit |-> a, kind |-> "Stop"], [unit |-> b, kind |-> "Start"]}}, out : {{}}]
  \cup
  [max : {2}, kinds : {IsolateKinds}, kind : {"Start", "Restart", "Reload"}, mode : {"Isolate"},
   active : {{b, c}}, existing : {{}}, out : {{}, {b}}]

Fits(f, s) == Cardinality(f) <= s.max /\ \A l \in f : l[2] \in s.kinds

\* Unit c may be missing; then it has no lines of its own.
Request(f, s, loaded) ==
  [lines |-> f, plain |-> s.out, spared |-> s.out, loaded |-> loaded, active |-> s.active \cap loaded,
   allow_isolate |-> {a}, existing |-> s.existing, root |-> a, kind |-> s.kind, mode |-> s.mode]

AllFiles == {{}} \cup Files(2, Kinds) \cup Files(MaxLines, DeepKinds) \cup Files(2, IsolateKinds)

SmallCases ==
  {Request(q[1], q[2], q[3]) :
     q \in {p \in AllFiles \X Settings \X {{a, b}, {a, b, c}} :
              Fits(p[1], p[2]) /\ \A l \in p[1] : l[1] \in p[3]}}
=============================================================================

---------------------------- MODULE InstallProofs ----------------------------
(***************************************************************************)
(* Theorems about Install, for any unit files and links to begin with, any  *)
(* requests, edits and faults, and any number of them.                      *)
(***************************************************************************)
EXTENDS Install, OrderingProofs

LEMMA LeastIsMin ==
  ASSUME NEW S, S \subseteq Nat, S # {}
  PROVE  Min(S) \in S /\ \A n \in S : Min(S) <= n
BY LeastNat DEF Min

-----------------------------------------------------------------------------
(* Where links end                                                         *)

LEMMA Finite ==
  /\ IsFiniteSet(Tops)
  /\ Cardinality(Tops) \in Nat
<1>1. IsFiniteSet(DOMAIN SearchPath)
  BY FS_Interval, LenProperties, InstallAssumption
<1>2. SearchPath \in Surjection(DOMAIN SearchPath, Dirs)
  BY InstallAssumption DEF Dirs, Range, Surjection
<1>3. IsFiniteSet(Dirs)
  BY <1>1, <1>2, FS_Surjection
<1> QED BY <1>3, FS_Product, FS_CardinalityType, InstallAssumption DEF Tops

\* One more step along the links, after those that f knows.
Hop(files, f, n) ==
  [p \in Tops |-> IF files[p].is # "link" \/ n = 0 THEN files[p] ELSE f[n - 1][files[p].to]]

LEMMA HopSame ==
  ASSUME NEW files, NEW f, NEW g, NEW n, n = 0 \/ f[n - 1] = g[n - 1]
  PROVE  Hop(files, f, n) = Hop(files, g, n)
BY DEF Hop

LEMMA HopType ==
  ASSUME NEW files \in [Tops -> Entry], NEW f, NEW n, n = 0 \/ f[n - 1] \in [Tops -> Entry]
  PROVE  Hop(files, f, n) \in [Tops -> Entry]
<1>1. \A p \in Tops : files[p] \in Entry
  OBVIOUS
<1>2. \A e \in Entry : e.is = "link" => e.to \in Tops
  BY DEF Entry, Absent, Null, File, Store, LinkTo
<1> QED BY <1>1, <1>2 DEF Hop

LEMMA FollowedExists ==
  ASSUME NEW files, NEW k \in Nat
  PROVE  \E f : f = [n \in 0 .. k |-> Hop(files, f, n)]
<1> DEFINE Def(f, j) == f = [n \in 0 .. j |-> Hop(files, f, n)]
           Bad == {j \in Nat : ~ \E f : Def(f, j)}
<1> SUFFICES ASSUME Bad # {} PROVE FALSE
  OBVIOUS
<1>1. PICK m \in Bad : \A j \in Bad : m <= j
  <2>1. Bad \subseteq Nat
    OBVIOUS
  <2> HIDE DEF Bad
  <2> QED BY <2>1, LeastNat
<1>2. CASE m = 0
  <2> DEFINE g == [n \in 0 .. 0 |-> Hop(files, <<>>, n)]
  <2>1. \A n \in 0 .. 0 : Hop(files, <<>>, n) = Hop(files, g, n)
    BY HopSame
  <2>2. Def(g, 0)
    BY <2>1
  <2> QED BY <1>2, <2>2
<1>3. CASE m # 0
  <2>1. m \in Nat /\ m - 1 \in Nat /\ m - 1 \notin Bad
    BY <1>1, <1>3
  <2>2. PICK f : Def(f, m - 1)
    BY <2>1
  <2> DEFINE g == [n \in 0 .. m |-> Hop(files, f, n)]
  <2>3. \A n \in 0 .. m : n = 0 \/ (n - 1 \in 0 .. m /\ n - 1 \in 0 .. (m - 1))
    BY <2>1
  <2>4. \A n \in 0 .. m : n = 0 \/ g[n - 1] = f[n - 1]
    BY <2>2, <2>3
  <2>5. \A n \in 0 .. m : Hop(files, f, n) = Hop(files, g, n)
    <3> TAKE n \in 0 .. m
    <3>1. n = 0 \/ g[n - 1] = f[n - 1]
      BY <2>4
    <3> HIDE DEF g
    <3> QED BY <3>1, HopSame
  <2>6. Def(g, m)
    BY <2>5
  <2> QED BY <1>1, <2>6
<1> QED BY <1>2, <1>3

LEMMA FollowedType ==
  ASSUME NEW files \in [Tops -> Entry]
  PROVE  Followed(files) \in [Tops -> Entry]
<1> DEFINE C == Cardinality(Tops)
           Def(f) == f = [n \in 0 .. C |-> Hop(files, f, n)]
           after == CHOOSE f : Def(f)
           Bad == {n \in 0 .. C : after[n] \notin [Tops -> Entry]}
<1>1. C \in Nat
  BY Finite
<1>2. Followed(files) = after[C]
  BY DEF Followed, Hop
<1>3. Def(after)
  BY <1>1, FollowedExists
<1> HIDE DEF after
<1> SUFFICES ASSUME Bad # {} PROVE FALSE
  BY <1>1, <1>2
<1>4. PICK m \in Bad : \A j \in Bad : m <= j
  <2>1. Bad \subseteq Nat
    BY <1>1
  <2> HIDE DEF Bad
  <2> QED BY <2>1, LeastNat
<1>5. m = 0 \/ m - 1 \in 0 .. C
  BY <1>1, <1>4
<1>6. m = 0 \/ after[m - 1] \in [Tops -> Entry]
  BY <1>1, <1>4, <1>5
<1>7. after[m] = Hop(files, after, m)
  BY <1>3, <1>4
<1> QED BY <1>4, <1>6, <1>7, HopType

LEMMA OpenedType ==
  ASSUME top \in [Tops -> Entry]
  PROVE  /\ \A p \in Tops : Opened(p) \in Entry
         /\ \A u \in Units : HasFragment(u) =>
              locate_fragment(u) \in Tops /\ FragmentText(u) \in Texts
<1>1. \A p \in Tops : Opened(p) \in Entry
  BY FollowedType DEF Opened
<1>2. ASSUME NEW u \in Units, HasFragment(u)
      PROVE  locate_fragment(u) \in Tops /\ FragmentText(u) \in Texts
  <2>1. Holding(u) \subseteq Nat /\ Holding(u) # {}
    BY <1>2, LenProperties, InstallAssumption DEF HasFragment, Holding
  <2>2. PICK i \in Holding(u) : i = Min(Holding(u))
    BY <2>1, LeastIsMin
  <2>3. locate_fragment(u) = <<SearchPath[i], u>>
    BY <2>2 DEF locate_fragment
  <2>4. i \in DOMAIN SearchPath /\ IsFile(<<SearchPath[i], u>>)
    BY <2>2 DEF Holding
  <2>5. locate_fragment(u) \in Tops
    BY <2>3, <2>4, InstallAssumption, ElementOfSeq, LenProperties DEF Tops
  <2>6. IsFile(locate_fragment(u))
    BY <2>3, <2>4
  <2>7. \A e \in Entry : e.is \in {"file", "store"} => e.text \in Texts
    BY DEF Entry, Absent, Null, File, Store, LinkTo
  <2> QED BY <1>1, <2>5, <2>6, <2>7 DEF IsFile, FragmentText
<1> QED BY <1>1, <1>2

-----------------------------------------------------------------------------
(* Types: what a request has still to do lies where it was asked to work   *)

Ops == {"enable", "disable", "mask", "unmask"}

\* Names of unit files, and for enable and disable links for the units asked for.
Places(c) ==
  Tops \cup IF c.op \in {"enable", "disable"} THEN {c.base} \X LinkDirs \X c.asked ELSE {}

Call == [op : Ops \cup {"none"}, asked : SUBSET Units, names : Seq(Units), base : Dirs,
         force : BOOLEAN, work : Seq([place : Tops \cup Links, entry : Entry]),
         seen : {"unseen", "absent", "null", "file", "store", "link"}, failed : BOOLEAN]

TypeOK ==
  /\ top \in [Tops -> Entry]
  /\ links \subseteq Links /\ IsFiniteSet(links) /\ copies \subseteq Links
  /\ units \in [Units -> {Unloaded} \cup Texts]
  /\ status \in [Units -> {"none", "inactive", "active"}]
  /\ up \in BOOLEAN
  /\ call \in Call
  /\ requests \in Nat /\ edits \in Nat

\* Nothing else is on the way when no request is.
CallOK ==
  /\ call.names \in Seq(call.asked)
  /\ call.work \in Seq([place : Places(call), entry : Entry])
  /\ call.op = "none" => call = NoCall

TypeInv == TypeOK /\ CallOK

LEMMA NoCallType == NoCall \in Call /\ NoCall.op = "none" /\ NoCall.work = <<>> /\ NoCall.names = <<>>
BY InstallAssumption DEF Call, NoCall

LEMMA InitType == Init => TypeInv
<1> SUFFICES ASSUME Init PROVE TypeInv
  OBVIOUS
<1>1. TypeOK
  BY InstallAssumption, NoCallType DEF Init, TypeOK
<1>2. CallOK
  BY NoCallType DEF Init, CallOK
<1> QED BY <1>1, <1>2 DEF TypeInv

\* A name of a unit directory is not a link below one.
LEMMA PlaceKinds ==
  ASSUME NEW d, NEW l, NEW u
  PROVE  <<d, l, u>> \notin Tops
<1>1. \A p \in Tops : DOMAIN p = 1 .. 2
  BY DEF Tops
<1>2. DOMAIN <<d, l, u>> = 1 .. 3
  OBVIOUS
<1>3. 3 \in 1 .. 3 /\ 3 \notin 1 .. 2
  OBVIOUS
<1> QED BY <1>1, <1>2, <1>3

LEMMA PlacesType ==
  ASSUME call \in Call
  PROVE  Places(call) \subseteq Tops \cup Links
<1>1. call.base \in Dirs /\ call.asked \subseteq Units
  BY DEF Call
<1> QED BY <1>1 DEF Places, Links

\* What is planned for a unit lies within the request.
LEMMA WantedType ==
  ASSUME TypeInv, NEW u \in call.asked, call.op = "enable"
  PROVE  Wanted(u) \in Seq([place : Places(call), entry : Entry])
<1> DEFINE Item == [place : Places(call), entry : Entry]
<1>1. /\ u \in Units /\ call.base \in Dirs
      /\ top \in [Tops -> Entry] /\ units[u] \in {Unloaded} \cup Texts
  BY DEF TypeInv, TypeOK, Call
<1> DEFINE source == IF HasFragment(u) THEN locate_fragment(u) ELSE <<call.base, u>>
           to(place) == [place |-> place, entry |-> LinkTo(source)]
<1>2. LinkTo(source) \in Entry
  <2>1. source \in Tops
    BY <1>1, OpenedType DEF Tops
  <2> HIDE DEF source
  <2> QED BY <2>1 DEF Entry
<1>3. \A p \in Places(call) : to(p) \in Item
  BY <1>2
<1>4. CASE ~InstallInfo(u)
  BY <1>4 DEF Wanted
<1>5. CASE InstallInfo(u)
  <2>1. units[u].dirs \in Seq(LinkDirs) /\ units[u].aliases \in Seq(Units)
    BY <1>1, <1>5, InstallAssumption DEF InstallInfo, Text
  <2> DEFINE dirs == [i \in DOMAIN units[u].dirs |-> to(<<call.base, units[u].dirs[i], u>>)]
             aliases == [i \in DOMAIN units[u].aliases |-> to(<<call.base, units[u].aliases[i]>>)]
  <2>2. Wanted(u) = dirs \o aliases
    BY <1>5 DEF Wanted
  <2> HIDE DEF to
  <2>3. \A i \in DOMAIN units[u].dirs : to(<<call.base, units[u].dirs[i], u>>) \in Item
    <3>1. \A l \in LinkDirs : <<call.base, l, u>> \in Places(call)
      BY DEF Places
    <3> QED BY <1>3, <2>1, <3>1, ElementOfSeq, LenProperties
  <2>4. \A i \in DOMAIN units[u].aliases : to(<<call.base, units[u].aliases[i]>>) \in Item
    <3>1. \A v \in Units : <<call.base, v>> \in Places(call)
      BY <1>1 DEF Places, Tops
    <3> QED BY <1>3, <2>1, <3>1, ElementOfSeq, LenProperties
  <2> HIDE DEF Item
  <2>5. dirs \in Seq(Item)
    <3>1. DOMAIN units[u].dirs = 1 .. Len(units[u].dirs) /\ Len(units[u].dirs) \in Nat
      BY <2>1, LenProperties
    <3> QED BY <2>3, <3>1, IsASeq
  <2>6. aliases \in Seq(Item)
    <3>1. DOMAIN units[u].aliases = 1 .. Len(units[u].aliases) /\ Len(units[u].aliases) \in Nat
      BY <2>1, LenProperties
    <3> QED BY <2>4, <3>1, IsASeq
  <2>7. Wanted(u) \in Seq(Item)
    <3> HIDE DEF dirs, aliases
    <3> QED BY <2>2, <2>5, <2>6, ConcatProperties
  <2> QED BY <2>7 DEF Item
<1> QED BY <1>4, <1>5

LEMMA SetToSeqType ==
  ASSUME NEW S, IsFiniteSet(S)
  PROVE  SetToSeq(S) \in Seq(S)
<1>1. Cardinality(S) \in Nat /\ ExistsBijection(1 .. Cardinality(S), S)
  BY FS_CardinalityType
<1>2. \E f \in [1 .. Cardinality(S) -> S] : IsInjective(f)
  BY <1>1 DEF ExistsBijection, Bijection, Injection, IsInjective
<1>3. SetToSeq(S) \in [1 .. Cardinality(S) -> S]
  BY <1>2 DEF SetToSeq
<1> QED BY <1>1, <1>3, IsASeq

LEMMA PlannedType ==
  ASSUME TypeInv, NEW u \in call.asked
  PROVE  Planned(u) \in Seq([place : Places(call), entry : Entry])
<1> DEFINE Item == [place : Places(call), entry : Entry]
<1>1. /\ u \in Units /\ call.base \in Dirs /\ links \subseteq Links /\ IsFiniteSet(links)
  BY DEF TypeInv, TypeOK, Call
<1>2. Absent \in Entry /\ Null \in Entry /\ <<call.base, u>> \in Places(call)
  BY <1>1 DEF Entry, Places, Tops
<1>3. CASE call.op = "enable"
  BY <1>3, WantedType DEF Planned
<1>4. CASE call.op = "mask"
  <2>1. Masks(u) \in Seq(Item)
    BY <1>2 DEF Masks
  <2> QED BY <1>4, <2>1 DEF Planned
<1>5. CASE call.op \notin {"enable", "mask"}
  <2> DEFINE at == IF call.op = "disable" THEN Found(u) ELSE {<<call.base, u>>}
             items == {[place |-> p, entry |-> Absent] : p \in at}
  <2>1. at \subseteq Places(call)
    BY <1>1, <1>2 DEF Found, Places, Links
  <2>2. IsFiniteSet(at)
    <3>1. IsFiniteSet({<<call.base, u>>})
      BY FS_Singleton
    <3>2. {l \in links : l[1] = call.base /\ l[3] = u} \in SUBSET links
      OBVIOUS
    <3>3. IsFiniteSet({l \in links : l[1] = call.base /\ l[3] = u})
      BY <1>1, <3>2, FS_Subset
    <3> QED BY <3>1, <3>3, FS_AddElement DEF Found
  <2> HIDE DEF at
  <2>3. IsFiniteSet(items)
    <3> DEFINE f == [p \in at |-> [place |-> p, entry |-> Absent]]
    <3>1. f \in Surjection(at, items)
      BY DEF Surjection
    <3> QED BY <2>2, <3>1, FS_Surjection
  <2>4. items \subseteq Item
    BY <1>2, <2>1
  <2>5. Planned(u) = SetToSeq(items)
    BY <1>5 DEF Planned, at
  <2> HIDE DEF items, Item
  <2>6. Planned(u) \in Seq(Item)
    BY <2>3, <2>4, <2>5, SetToSeqType, SeqMonotonic
  <2> QED BY <2>6 DEF Item
<1> QED BY <1>3, <1>4, <1>5

LEMMA WorkType ==
  ASSUME TypeInv, call.work # <<>>
  PROVE  /\ Place \in Places(call)
         /\ Head(call.work).entry \in Entry
         /\ call.op # "none"
         /\ IsTop(Place) \/ (Place \in {call.base} \X LinkDirs \X call.asked
                              /\ call.op \in {"enable", "disable"} /\ Place \in Links)
<1>1. call.work \in Seq([place : Places(call), entry : Entry])
  BY DEF TypeInv, CallOK
<1>2. Head(call.work) \in [place : Places(call), entry : Entry]
  BY <1>1, HeadTailProperties
<1>3. call.op # "none"
  BY NoCallType DEF TypeInv, CallOK
<1>4. Places(call) \subseteq Tops \cup Links
  BY PlacesType DEF TypeInv, TypeOK
<1> QED BY <1>2, <1>3, <1>4 DEF Place, IsTop, Places

\* A step of a request looks at one name, or is done with it and drops it.
LEMMA WorkedType ==
  ASSUME TypeInv, Step,
         \/ \E failed \in BOOLEAN : Worked(failed)
         \/ \E k \in {"absent", "null", "file", "store", "link"} : call' = [call EXCEPT !.seen = k]
  PROVE  call' \in Call /\ CallOK' /\ call'.op = call.op /\ call'.base = call.base
           /\ call'.asked = call.asked /\ call'.force = call.force
<1> DEFINE Item == [place : Places(call), entry : Entry]
<1>1. call \in Call /\ call.work # <<>>
  BY DEF TypeInv, TypeOK, Step
<1>2. /\ call'.op = call.op /\ call'.base = call.base /\ call'.asked = call.asked
      /\ call'.names = call.names /\ call'.force = call.force
      /\ call'.work \in {call.work, Tail(call.work)}
  BY <1>1 DEF Worked, Call
<1>3. call.work \in Seq(Item) /\ call.names \in Seq(call.asked) /\ call.op # "none"
  BY <1>1, WorkType DEF TypeInv, CallOK
<1>4. Tail(call.work) \in Seq(Item)
  BY <1>1, <1>3
<1>5. Places(call') = Places(call)
  BY <1>2 DEF Places
<1>6. call' \in Call
  <2>1. call.work \in Seq([place : Tops \cup Links, entry : Entry])
    BY <1>1 DEF Call
  <2>2. Tail(call.work) \in Seq([place : Tops \cup Links, entry : Entry])
    BY <1>1, <2>1
  <2>3. CASE \E failed \in BOOLEAN : Worked(failed)
    BY <1>1, <2>2, <2>3 DEF Call, Worked
  <2>4. CASE \E k \in {"absent", "null", "file", "store", "link"} : call' = [call EXCEPT !.seen = k]
    BY <1>1, <2>4 DEF Call
  <2> QED BY <2>3, <2>4
<1>7. CallOK'
  BY <1>2, <1>3, <1>4, <1>5 DEF CallOK
<1> QED BY <1>2, <1>6, <1>7

LEMMA PutType ==
  ASSUME TypeOK, NEW place \in Tops \cup Links, NEW entry \in Entry, Put(place, entry)
  PROVE  top' \in [Tops -> Entry] /\ links' \subseteq Links /\ IsFiniteSet(links') /\ copies' \subseteq Links
<1>1. top \in [Tops -> Entry] /\ links \subseteq Links /\ IsFiniteSet(links) /\ copies \subseteq Links
  BY DEF TypeOK
<1> QED BY <1>1, FS_AddElement DEF Put, IsTop

LEMMA UnlinkType ==
  ASSUME TypeOK, NEW place, Unlink(place)
  PROVE  top' \in [Tops -> Entry] /\ links' \subseteq Links /\ IsFiniteSet(links') /\ copies' \subseteq Links
<1>1. top \in [Tops -> Entry] /\ links \subseteq Links /\ IsFiniteSet(links) /\ copies \subseteq Links
  BY DEF TypeOK
<1>2. links \ {place} \in SUBSET links
  OBVIOUS
<1>3. IsFiniteSet(links \ {place})
  BY <1>1, <1>2, FS_Subset
<1>4. Absent \in Entry
  BY DEF Entry
<1> QED BY <1>1, <1>3, <1>4 DEF Unlink, IsTop

LEMMA Idling ==
  ASSUME call' = NoCall
  PROVE  call' \in Call /\ CallOK'
BY NoCallType DEF CallOK

LEMMA KindType ==
  ASSUME TypeInv, NEW place
  PROVE  Kind(place) \in {"absent", "null", "file", "store", "link"}
<1>1. \A e \in Entry : e.is \in {"absent", "null", "file", "store", "link"}
  BY DEF Entry, Absent, Null, File, Store, LinkTo
<1> QED BY <1>1 DEF Kind, IsTop, TypeInv, TypeOK

Working == look \/ pass_by \/ make_room \/ link_one \/ unlink_one \/ io_error

\* What a request does to the name that it is at, and what is left of the request.
LEMMA WorkingDoes ==
  ASSUME TypeInv, Working
  PROVE  /\ Step
         /\ call' \in Call /\ CallOK'
         /\ \/ call' = NoCall
            \/ /\ call'.op = call.op /\ call'.base = call.base
               /\ call'.asked = call.asked /\ call'.force = call.force
         /\ \/ UNCHANGED disk
            \/ Linking /\ Put(Place, Head(call.work).entry) /\ Kind(Place) = "absent" /\ Worked(FALSE)
            \/ Linking /\ call.force /\ Unlink(Place)
            \/ ~Linking /\ call.seen # "unseen" /\ Removable /\ Unlink(Place)
<1> DEFINE Shape == \/ call' = NoCall
                    \/ \E failed \in BOOLEAN : Worked(failed)
                    \/ \E k \in {"absent", "null", "file", "store", "link"} :
                          call' = [call EXCEPT !.seen = k]
           Effect == \/ UNCHANGED disk
                     \/ Linking /\ Put(Place, Head(call.work).entry) /\ Kind(Place) = "absent" /\ Worked(FALSE)
                     \/ Linking /\ call.force /\ Unlink(Place)
                     \/ ~Linking /\ call.seen # "unseen" /\ Removable /\ Unlink(Place)
<1>1. ASSUME look PROVE Step /\ Shape /\ Effect
  BY <1>1, KindType DEF look
<1>2. ASSUME pass_by PROVE Step /\ Shape /\ Effect
  BY <1>2 DEF pass_by
<1>3. ASSUME make_room PROVE Step /\ Shape /\ Effect
  BY <1>3 DEF make_room
<1>4. ASSUME link_one PROVE Step /\ Shape /\ Effect
  BY <1>4 DEF link_one
<1>5. ASSUME unlink_one PROVE Step /\ Shape /\ Effect
  <2>1. (Kind(Place) # "absent") \in BOOLEAN
    OBVIOUS
  <2>2. Step /\ Shape
    BY <1>5, <2>1 DEF unlink_one
  <2>3. Effect
    BY <1>5 DEF unlink_one
  <2> QED BY <2>2, <2>3
<1>6. ASSUME io_error PROVE Step /\ Shape /\ Effect
  BY <1>6 DEF io_error
<1>7. Step /\ Shape /\ Effect
  BY <1>1, <1>2, <1>3, <1>4, <1>5, <1>6 DEF Working
<1>8. CASE call' = NoCall
  BY <1>7, <1>8, Idling
<1>9. CASE call' # NoCall
  BY <1>7, <1>9, WorkedType
<1> QED BY <1>7, <1>8, <1>9

LEMMA WorkingType ==
  ASSUME TypeInv, Working
  PROVE  TypeInv'
<1>1. TypeOK /\ CallOK /\ call \in Call
  BY DEF TypeInv, TypeOK
<1>2. Step /\ call.work # <<>> /\ call' \in Call /\ CallOK'
  BY WorkingDoes DEF Step
<1>3. Place \in Tops \cup Links /\ Head(call.work).entry \in Entry
  BY <1>1, <1>2, WorkType, PlacesType
<1>4. /\ top' \in [Tops -> Entry] /\ links' \subseteq Links /\ IsFiniteSet(links')
      /\ copies' \subseteq Links
  <2>1. CASE UNCHANGED disk
    BY <1>1, <2>1 DEF disk, TypeOK
  <2>2. CASE Put(Place, Head(call.work).entry)
    BY <1>1, <1>3, <2>2, PutType
  <2>3. CASE Unlink(Place)
    BY <1>1, <2>3, UnlinkType
  <2> QED BY <2>1, <2>2, <2>3, WorkingDoes
<1> QED BY <1>1, <1>2, <1>4 DEF TypeInv, TypeOK, Step

LEMMA NextType ==
  ASSUME TypeInv, [Next]_vars
  PROVE  TypeInv'
<1>1. TypeOK /\ CallOK /\ call \in Call /\ top \in [Tops -> Entry]
  BY DEF TypeInv, TypeOK
<1>2. ASSUME NEW r \in Requests, begin_request(r) PROVE TypeInv'
  <2>1. r.op \in Ops /\ r.names \in Seq(Units) /\ r.force \in BOOLEAN
    BY InstallAssumption DEF Ops
  <2>2. Range(r.names) \subseteq Units /\ r.names \in Seq(Range(r.names))
    BY <2>1, LenProperties, ElementOfSeq, IsASeq, SeqOfRange DEF Range
  <2>3. call' = [op |-> r.op, asked |-> Range(r.names), names |-> r.names, force |-> r.force,
                 work |-> <<>>, seen |-> "unseen", failed |-> FALSE,
                 base |-> call'.base] /\ call'.base \in Dirs
    BY <1>2, InstallAssumption DEF begin_request
  <2>4. call' \in Call
    <3> DEFINE b == call'.base
    <3>1. b \in Dirs /\ call' = [op |-> r.op, asked |-> Range(r.names), names |-> r.names,
                                 force |-> r.force, work |-> <<>>, seen |-> "unseen",
                                 failed |-> FALSE, base |-> b]
      BY <2>3
    <3> HIDE DEF b
    <3>2. <<>> \in Seq([place : Tops \cup Links, entry : Entry])
      OBVIOUS
    <3> QED BY <2>1, <2>2, <3>1, <3>2 DEF Call
  <2>5. CallOK'
    <3>1. call'.op \in Ops /\ call'.asked = Range(r.names) /\ call'.names = r.names
            /\ call'.work = <<>>
      BY <2>1, <2>3
    <3> QED BY <2>2, <3>1 DEF CallOK, Ops
  <2>6. TypeOK'
    BY <1>1, <1>2, <2>4 DEF disk, begin_request, TypeOK
  <2> QED BY <2>5, <2>6 DEF TypeInv
<1>3. ASSUME next_unit PROVE TypeInv'
  <2>1. call.names \in Seq(call.asked) /\ call.names # <<>> /\ call.names \in Seq(Units)
    BY <1>1, <1>3 DEF next_unit, CallOK, Call
  <2>2. Head(call.names) \in call.asked /\ Tail(call.names) \in Seq(call.asked)
          /\ Tail(call.names) \in Seq(Units)
    BY <2>1, HeadTailProperties
  <2>3. Planned(Head(call.names)) \in Seq([place : Places(call), entry : Entry])
    BY <2>2, PlannedType
  <2>4. [place : Places(call), entry : Entry] \subseteq [place : Tops \cup Links, entry : Entry]
    BY <1>1, PlacesType
  <2>5. Planned(Head(call.names)) \in Seq([place : Tops \cup Links, entry : Entry])
    BY <2>3, <2>4, SeqMonotonic
  <2>6. call' = [call EXCEPT !.names = Tail(call.names), !.work = Planned(Head(call.names))]
    BY <1>3 DEF next_unit
  <2>7. call' \in Call
    BY <1>1, <2>2, <2>5, <2>6 DEF Call
  <2>8. CallOK'
    <3>1. /\ call'.op = call.op /\ call'.base = call.base /\ call'.asked = call.asked
          /\ call'.names = Tail(call.names) /\ call'.work = Planned(Head(call.names))
      BY <1>1, <2>6 DEF Call
    <3>2. Places(call') = Places(call)
      BY <3>1 DEF Places
    <3>3. call.op # "none"
      BY <1>1, <1>3 DEF next_unit, CallOK
    <3> QED BY <2>2, <2>3, <3>1, <3>2, <3>3 DEF CallOK
  <2>9. TypeOK'
    BY <1>1, <1>3, <2>7 DEF disk, next_unit, TypeOK
  <2> QED BY <2>8, <2>9 DEF TypeInv
<1>4. ASSUME Working PROVE TypeInv'
  BY <1>4, WorkingType
<1>7. ASSUME reply PROVE TypeInv'
  BY <1>1, <1>7, Idling DEF TypeInv, TypeOK, reply, disk
<1>8. ASSUME daemon_reload PROVE TypeInv'
  <2>1. units' \in [Units -> {Unloaded} \cup Texts]
    BY <1>1, <1>8, OpenedType DEF daemon_reload, Reloaded, Loadable, TypeOK
  <2>2. \A u \in Units : StatusReloaded(u) \in {"none", "inactive", "active"}
    <3>1. \A u \in Units : status[u] \in {"none", "inactive", "active"}
      BY <1>1 DEF TypeOK
    <3> QED BY <3>1 DEF StatusReloaded
  <2>3. status' \in [Units -> {"none", "inactive", "active"}]
    BY <1>8, <2>2 DEF daemon_reload
  <2> QED BY <1>1, <1>8, <2>1, <2>3 DEF TypeInv, TypeOK, daemon_reload, CallOK, disk
<1>9. ASSUME boot PROVE TypeInv'
  <2>1. units' \in [Units -> {Unloaded} \cup Texts]
    BY <1>1, <1>9, OpenedType DEF boot, Loadable
  <2>2. status' \in [Units -> {"none", "inactive", "active"}]
    BY <1>9 DEF boot, activate_enabled_units
  <2> QED BY <1>1, <1>9, <2>1, <2>2 DEF TypeInv, TypeOK, boot, CallOK, disk
<1>10. ASSUME crash PROVE TypeInv'
  BY <1>1, <1>10, Idling DEF TypeInv, TypeOK, crash, disk
<1>11. ASSUME NEW u \in Units, start_unit(u) \/ stop_unit(u) PROVE TypeInv'
  BY <1>1, <1>11 DEF TypeInv, TypeOK, start_unit, stop_unit, CallOK, disk
<1>12. ASSUME NEW e \in Edits, edit(e.at, e.entry) PROVE TypeInv'
  <2>1. e.at \in Tops /\ e.entry \in Entry
    BY InstallAssumption
  <2> QED BY <1>1, <1>12, <2>1 DEF TypeInv, TypeOK, edit, CallOK, disk
<1>13. ASSUME UNCHANGED vars PROVE TypeInv'
  BY <1>1, <1>13 DEF TypeInv, TypeOK, CallOK, vars, disk
<1> QED BY <1>2, <1>3, <1>4, <1>7, <1>8, <1>9, <1>10, <1>11, <1>12, <1>13 DEF Next, Working

\* Whatever the requests, faults and crashes, what the Manager still has to do lies in
\* the directory and among the units it was asked to work on (install.rs:81-137).
THEOREM TypeCorrect == Spec => []TypeInv
<1>1. Init => TypeInv
  BY InitType
<1>2. TypeInv /\ [Next]_vars => TypeInv'
  BY NextType
<1> QED BY <1>1, <1>2, PTL DEF Spec

-----------------------------------------------------------------------------
(* Unit files are kept                                                     *)

KeptFile(p) ==
  top[p].is = "file" /\ top'[p] # top[p] =>
    \/ call.force \/ edits' # edits
    \/ p = Place /\ call.seen \in {"null", "store", "link"}

KeptCopies == copies' # copies => call.force \/ call.op = "disable"

LEMMA WorkingKeeps ==
  ASSUME TypeInv, Working
  PROVE  (\A p \in Tops : KeptFile(p)) /\ KeptCopies
<1>1. top \in [Tops -> Entry] /\ call.op \in Ops \cup {"none"} /\ call.op # "none"
  BY WorkingDoes, WorkType DEF TypeInv, TypeOK, Call, Step
<1>2. CASE UNCHANGED disk
  BY <1>2 DEF disk, KeptFile, KeptCopies
<1>3. CASE Put(Place, Head(call.work).entry) /\ Kind(Place) = "absent"
  <2>1. \A p \in Tops : top'[p] # top[p] => p = Place /\ top[p].is = "absent"
    BY <1>1, <1>3 DEF Put, Kind, IsTop
  <2> QED BY <1>3, <2>1 DEF Put, KeptFile, KeptCopies
<1>4. CASE Linking /\ call.force /\ Unlink(Place)
  BY <1>4 DEF KeptFile, KeptCopies
<1>5. CASE ~Linking /\ call.seen # "unseen" /\ Removable /\ Unlink(Place)
  <2>1. \A p \in Tops : top'[p] # top[p] => p = Place /\ IsTop(Place)
    BY <1>1, <1>5 DEF Unlink, IsTop
  <2>2. IsTop(Place) => call.seen \in {"null", "store", "link"}
    BY <1>5 DEF Removable
  <2>3. copies' # copies => ~IsTop(Place)
    BY <1>5 DEF Unlink
  <2>4. call.op \in {"disable", "unmask"}
    BY <1>1, <1>5 DEF Linking, Ops
  <2>5. ~IsTop(Place) => call.op = "disable"
    BY <2>4, WorkingDoes, WorkType DEF Step
  <2> QED BY <2>1, <2>2, <2>3, <2>5 DEF KeptFile, KeptCopies
<1> QED BY <1>2, <1>3, <1>4, <1>5, WorkingDoes

LEMMA NextKeeps ==
  ASSUME TypeInv, [Next]_vars
  PROVE  (\A p \in Tops : KeptFile(p)) /\ KeptCopies
<1>1. ASSUME UNCHANGED <<top, copies>> PROVE (\A p \in Tops : KeptFile(p)) /\ KeptCopies
  BY <1>1 DEF KeptFile, KeptCopies
<1>2. ASSUME Working PROVE (\A p \in Tops : KeptFile(p)) /\ KeptCopies
  BY <1>2, WorkingKeeps
<1>3. ASSUME NEW e \in Edits, edit(e.at, e.entry)
      PROVE  (\A p \in Tops : KeptFile(p)) /\ KeptCopies
  <2>1. edits \in Nat
    BY DEF TypeInv, TypeOK
  <2> QED BY <1>3, <2>1 DEF edit, KeptFile, KeptCopies
<1> QED
  BY <1>1, <1>2, <1>3
  DEF Next, Working, vars, disk, begin_request, next_unit, reply, daemon_reload, boot, crash,
      start_unit, stop_unit

\* No request without force takes away or replaces a unit file that it has seen, in any
\* order of requests, faults, crashes and edits by others, and none but disable takes a
\* regular file from below a unit directory (install.rs:113-116, 156-163, 178, 203-206
\* and 232-238).
THEOREM FilesAreKept == Spec => FilesKept
<1>1. TypeInv /\ [Next]_vars =>
        /\ \A p \in Tops : top[p].is = "file" /\ top'[p] # top[p] =>
             \/ call.force \/ edits' # edits
             \/ p = Place /\ call.seen \in {"null", "store", "link"}
        /\ copies' # copies => call.force \/ call.op = "disable"
  BY NextKeeps DEF KeptFile, KeptCopies
<1> QED BY <1>1, TypeCorrect, PTL DEF Spec, FilesKept

-----------------------------------------------------------------------------
(* Install implements Enablement                                           *)

Enabled == [d \in Dirs |-> {u \in Units : \E l \in LinkDirs : <<d, l, u>> \in links}]
LoadableUnits == {u \in Units : Loadable(u)}
Running == {u \in Units : status[u] = "active"}
Asked == [op |-> call.op, dir |-> call.base, names |-> call.asked]

\* Loading depends on nothing but what lies in the unit directories.
LEMMA LoadableSame == ASSUME top' = top PROVE LoadableUnits' = LoadableUnits
BY DEF LoadableUnits, Loadable, HasFragment, FragmentText, locate_fragment, Holding, IsFile, Opened

LEMMA EnabledSame == ASSUME links' = links PROVE Enabled' = Enabled
BY DEF Enabled

LEMMA LinkEnables ==
  ASSUME NEW d \in Dirs, NEW l \in LinkDirs, NEW u \in Units,
         links' = links \cup {<<d, l, u>>}
  PROVE  Enabled' = [Enabled EXCEPT ![d] = @ \cup {u}]
<1>1. \A c \in Dirs : Enabled'[c] = IF c = d THEN Enabled[c] \cup {u} ELSE Enabled[c]
  <2> TAKE c \in Dirs
  <2>1. \A k, v : <<c, k, v>> \in links' <=>
                    <<c, k, v>> \in links \/ (c = d /\ k = l /\ v = u)
    OBVIOUS
  <2> QED BY <2>1 DEF Enabled
<1> QED BY <1>1 DEF Enabled

\* Another link for the unit in that directory may be left.
LEMMA UnlinkDisables ==
  ASSUME NEW d \in Dirs, NEW l, NEW u \in Units,
         links' = links \ {<<d, l, u>>}
  PROVE  Enabled' = Enabled \/ Enabled' = [Enabled EXCEPT ![d] = @ \ {u}]
<1>1. \A c, k, v : <<c, k, v>> \in links' <=>
                     <<c, k, v>> \in links /\ ~ (c = d /\ k = l /\ v = u)
  OBVIOUS
<1>2. \A c \in Dirs : \A v \in Units : ~ (c = d /\ v = u) =>
        (v \in Enabled'[c] <=> v \in Enabled[c])
  BY <1>1 DEF Enabled
<1>3. CASE \E k \in LinkDirs : <<d, k, u>> \in links'
  <2>1. u \in Enabled'[d] /\ u \in Enabled[d]
    BY <1>1, <1>3 DEF Enabled
  <2>2. \A c \in Dirs : Enabled'[c] = Enabled[c]
    BY <1>2, <2>1 DEF Enabled
  <2> QED BY <2>2 DEF Enabled
<1>4. CASE ~ \E k \in LinkDirs : <<d, k, u>> \in links'
  <2>1. u \notin Enabled'[d]
    BY <1>4 DEF Enabled
  <2>2. \A c \in Dirs : Enabled'[c] = IF c = d THEN Enabled[c] \ {u} ELSE Enabled[c]
    BY <1>2, <2>1 DEF Enabled
  <2> QED BY <2>2 DEF Enabled
<1> QED BY <1>3, <1>4

LEMMA InitPromised == Init => Promise!Init
<1> SUFFICES ASSUME Init PROVE Promise!Init
  OBVIOUS
<1>1. Enabled \in [Dirs -> SUBSET Units] /\ LoadableUnits \subseteq Units
  BY DEF Enabled, LoadableUnits
<1>2. Running = {} /\ up = FALSE /\ Asked.op = "none"
  BY NoCallType DEF Init, Running, Asked
<1> QED BY <1>1, <1>2 DEF Promise!Init, Enabled, LoadableUnits, Running, Asked

\* One name changes: a link serves a unit asked for, a name of a unit directory only
\* changes what can be loaded.
LEMMA LinkingPromised ==
  ASSUME TypeInv, call.work # <<>>, status' = status, up' = up, Asked' = Asked, Linking,
         Put(Place, Head(call.work).entry)
  PROVE  Promise!Next
<1>1. Running' = Running /\ LoadableUnits' \subseteq Units
  BY DEF Running, LoadableUnits
<1>2. CASE IsTop(Place)
  <2>1. Enabled' = Enabled
    BY <1>2, EnabledSame DEF Put
  <2>2. Promise!EditFiles
    BY <1>1, <2>1 DEF Promise!EditFiles, Enabled, LoadableUnits, Running, Asked
  <2> QED BY <2>2 DEF Promise!Next
<1>3. CASE ~IsTop(Place)
  <2>1. links' = links \cup {Place} /\ top' = top
    BY <1>3 DEF Put
  <2>2. PICK l \in LinkDirs, u \in call.asked : Place = <<call.base, l, u>>
    BY <1>3, WorkType
  <2>3. call.base \in Dirs /\ u \in Units /\ call.op = "enable"
    BY <1>3, WorkType DEF TypeInv, TypeOK, Call, Linking
  <2>4. Enabled' = [Enabled EXCEPT ![call.base] = @ \cup {u}]
    BY <2>1, <2>2, <2>3, LinkEnables
  <2>5. LoadableUnits' = LoadableUnits
    BY <2>1, LoadableSame
  <2>6. Promise!Serve
    <3>1. Asked.op = "enable" /\ Asked.dir = call.base /\ Asked.names = call.asked
      BY <2>3 DEF Asked
    <3>2. \E v \in Asked.names :
             Asked.op = "enable" /\ Enabled' = [Enabled EXCEPT ![Asked.dir] = @ \cup {v}]
      BY <2>4, <3>1
    <3> QED BY <1>1, <2>5, <3>2
            DEF Promise!Serve, Enabled, LoadableUnits, Running, Asked
  <2> QED BY <2>6 DEF Promise!Next
<1> QED BY <1>2, <1>3

\* A name goes, and the request is at its next one or at its end.
LEMMA UnlinkingPromised ==
  ASSUME TypeInv, call.work # <<>>, status' = status, up' = up,
         Asked' = Asked \/ Asked'.op = "none",
         Unlink(Place)
  PROVE  Promise!Next
<1>1. Running' = Running /\ LoadableUnits' \subseteq Units
  BY DEF Running, LoadableUnits
<1>2. CASE Enabled' = Enabled
  <2>1. Promise!EditFiles
    BY <1>1, <1>2 DEF Promise!EditFiles, Enabled, LoadableUnits, Running, Asked
  <2> QED BY <2>1 DEF Promise!Next
<1>3. CASE Enabled' # Enabled
  <2>1. ~IsTop(Place) /\ links' = links \ {Place} /\ top' = top
    BY <1>3, EnabledSame DEF Unlink
  <2>2. PICK l \in LinkDirs, u \in call.asked : Place = <<call.base, l, u>>
    BY <2>1, WorkType
  <2>3. call.base \in Dirs /\ u \in Units /\ call.op \in {"enable", "disable"}
    BY <2>1, WorkType DEF TypeInv, TypeOK, Call
  <2>4. Enabled' = [Enabled EXCEPT ![call.base] = @ \ {u}]
    BY <1>3, <2>1, <2>2, <2>3, UnlinkDisables
  <2>5. LoadableUnits' = LoadableUnits
    BY <2>1, LoadableSame
  <2>6. Promise!Serve
    <3>1. Asked.op \in {"enable", "disable"} /\ Asked.dir = call.base /\ Asked.names = call.asked
      BY <2>3 DEF Asked
    <3>2. \E v \in Asked.names :
             Asked.op \in {"enable", "disable"}
               /\ Enabled' = [Enabled EXCEPT ![Asked.dir] = @ \ {v}]
      BY <2>4, <3>1
    <3> QED BY <1>1, <2>5, <3>2
            DEF Promise!Serve, Enabled, LoadableUnits, Running, Asked
  <2> QED BY <2>6 DEF Promise!Next
<1> QED BY <1>2, <1>3

\* The step changes neither files nor links.
LEMMA FilesStay ==
  ASSUME top' = top, links' = links
  PROVE  Enabled' = Enabled /\ LoadableUnits' = LoadableUnits
BY EnabledSame, LoadableSame

LEMMA NextPromised ==
  ASSUME TypeInv, [Next]_vars
  PROVE  [Promise!Next]_(Promise!vars)
<1>1. TypeOK /\ CallOK /\ call \in Call
  BY DEF TypeInv, TypeOK
<1>2. ASSUME NEW r \in Requests, begin_request(r) PROVE Promise!Next
  <2>1. Enabled' = Enabled /\ LoadableUnits' = LoadableUnits /\ Running' = Running
    BY <1>2, FilesStay DEF disk, begin_request, Running
  <2>2. up /\ up' = up /\ Asked.op = "none" /\ Asked'.op = r.op /\ r.op # "none"
    BY <1>2, NoCallType, InstallAssumption DEF begin_request, Ready, Asked
  <2>3. Promise!Ask
    BY <2>1, <2>2
    DEF Promise!Ask, Promise!Idle, Enabled, LoadableUnits, Running, Asked
  <2> QED BY <2>3 DEF Promise!Next
<1>3. ASSUME next_unit \/ UNCHANGED vars PROVE UNCHANGED Promise!vars
  <2>1. Enabled' = Enabled /\ LoadableUnits' = LoadableUnits /\ Running' = Running /\ up' = up
    BY <1>3, FilesStay DEF disk, next_unit, vars, Running
  <2>2. Asked' = Asked
    BY <1>1, <1>3 DEF next_unit, vars, Asked, Call
  <2> QED BY <2>1, <2>2 DEF Promise!vars, Enabled, LoadableUnits, Running, Asked
<1>4. ASSUME Working PROVE Promise!Next
  <2>1. call.work # <<>> /\ status' = status /\ up' = up
    BY <1>4, WorkingDoes DEF Step
  <2>2. Asked' = Asked \/ Asked'.op = "none"
    BY <1>4, WorkingDoes, NoCallType DEF Asked
  <2>3. CASE UNCHANGED disk
    <3>1. Enabled' = Enabled /\ LoadableUnits' = LoadableUnits /\ Running' = Running
      BY <2>1, <2>3, FilesStay DEF disk, Running
    <3>2. Promise!EditFiles
      BY <2>1, <2>2, <3>1 DEF Promise!EditFiles, Enabled, LoadableUnits, Running, Asked
    <3> QED BY <3>2 DEF Promise!Next
  <2>4. CASE Unlink(Place)
    BY <2>1, <2>2, <2>4, UnlinkingPromised
  <2>5. CASE Linking /\ Put(Place, Head(call.work).entry) /\ Worked(FALSE)
    <3>1. Asked' = Asked
      BY <1>4, <2>5, WorkingDoes, WorkedType DEF Asked
    <3> QED BY <2>1, <2>5, <3>1, LinkingPromised
  <2> QED BY <1>4, <2>3, <2>4, <2>5, WorkingDoes
<1>7. ASSUME reply PROVE Promise!Next
  <2>1. Enabled' = Enabled /\ LoadableUnits' = LoadableUnits /\ Running' = Running /\ up' = up
    BY <1>7, FilesStay DEF disk, reply, Running
  <2>2. Asked.op # "none" /\ Asked'.op = "none"
    BY <1>1, <1>7, NoCallType DEF reply, Asked, CallOK
  <2>3. Promise!Answer
    BY <2>1, <2>2 DEF Promise!Answer, Enabled, LoadableUnits, Running, Asked
  <2> QED BY <2>3 DEF Promise!Next
<1>8. ASSUME daemon_reload \/ \E u \in Units : stop_unit(u) PROVE Promise!Next
  <2>1. Enabled' = Enabled /\ LoadableUnits' = LoadableUnits /\ up' = up /\ Asked' = Asked
    BY <1>8, FilesStay DEF disk, daemon_reload, stop_unit, Asked
  <2>2. Asked.op = "none" /\ up
    BY <1>8, NoCallType DEF daemon_reload, stop_unit, Ready, Asked
  <2>3. Running' \subseteq Running
    <3>1. status \in [Units -> {"none", "inactive", "active"}]
      BY <1>1 DEF TypeOK
    <3>2. ASSUME daemon_reload PROVE Running' \subseteq Running
      BY <3>2 DEF daemon_reload, Running, StatusReloaded
    <3>3. ASSUME NEW u \in Units, stop_unit(u) PROVE Running' \subseteq Running
      BY <3>1, <3>3 DEF stop_unit, Running
    <3> QED BY <1>8, <3>2, <3>3
  <2>4. Promise!Forget
    BY <2>1, <2>2, <2>3
    DEF Promise!Forget, Promise!Idle, Enabled, LoadableUnits, Running, Asked
  <2> QED BY <2>4 DEF Promise!Next
<1>9. ASSUME boot PROVE Promise!Next
  <2>1. Enabled' = Enabled /\ LoadableUnits' = LoadableUnits /\ Asked' = Asked /\ ~up /\ up'
    BY <1>9, FilesStay DEF disk, boot, Asked
  <2>2. Running' = {u \in LoadableUnits : \E d \in Dirs : u \in Enabled[d]}
    BY <1>9 DEF boot, activate_enabled_units, has_install_link, Running, LoadableUnits, Enabled
  <2>3. Promise!Boot
    BY <2>1, <2>2 DEF Promise!Boot, Enabled, LoadableUnits, Running, Asked
  <2> QED BY <2>3 DEF Promise!Next
<1>10. ASSUME crash PROVE Promise!Next
  <2>1. Enabled' = Enabled /\ LoadableUnits' = LoadableUnits /\ up /\ ~up'
    BY <1>10, FilesStay DEF disk, crash
  <2>2. Running' = {} /\ Asked'.op = "none"
    BY <1>10, NoCallType DEF crash, Running, Asked
  <2>3. Promise!Crash
    BY <2>1, <2>2 DEF Promise!Crash, Enabled, LoadableUnits, Running, Asked
  <2> QED BY <2>3 DEF Promise!Next
<1>11. ASSUME NEW u \in Units, start_unit(u) PROVE Promise!Next
  <2>1. Enabled' = Enabled /\ LoadableUnits' = LoadableUnits /\ up' = up /\ Asked' = Asked
    BY <1>11, FilesStay DEF disk, start_unit, Asked
  <2>2. Asked.op = "none" /\ up
    BY <1>11, NoCallType DEF start_unit, Ready, Asked
  <2>3. Running' = Running \cup {u}
    BY <1>1, <1>11 DEF start_unit, Running, TypeOK
  <2>4. Promise!Start
    BY <2>1, <2>2, <2>3
    DEF Promise!Start, Promise!Idle, Enabled, LoadableUnits, Running, Asked
  <2> QED BY <2>4 DEF Promise!Next
<1>12. ASSUME NEW e \in Edits, edit(e.at, e.entry) PROVE Promise!Next
  <2>1. Enabled' = Enabled /\ Running' = Running /\ up' = up /\ Asked' = Asked
    BY <1>12, EnabledSame DEF disk, edit, Running, Asked
  <2>2. LoadableUnits' \subseteq Units
    BY DEF LoadableUnits
  <2>3. Promise!EditFiles
    BY <2>1, <2>2 DEF Promise!EditFiles, Enabled, LoadableUnits, Running, Asked
  <2> QED BY <2>3 DEF Promise!Next
<1> QED BY <1>2, <1>3, <1>4, <1>7, <1>8, <1>9, <1>10, <1>11, <1>12 DEF Next, Working

\* Install implements Enablement: requests enable and disable the units they name and
\* no others, and the daemon starts exactly what is enabled and can be loaded, for any
\* order of requests, edits, faults and crashes (install.rs:81-137, manager.rs:166-180).
THEOREM EnablementIsKept == Spec => KeepsEnablement
<1>1. Init => Promise!Init
  BY InitPromised
<1>2. TypeInv /\ [Next]_vars => [Promise!Next]_(Promise!vars)
  BY NextPromised
<1> QED BY <1>1, <1>2, TypeCorrect, PTL DEF Spec, KeepsEnablement, Promise!Spec
=============================================================================

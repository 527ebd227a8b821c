------------------------ MODULE ClientScreens_proofs ------------------------
(***************************************************************************)
(* Theorems about two screens of the client, for any servers, channels and *)
(* bounds.  AddServer: what a device lists it has joined, and what it      *)
(* publishes serves the person.  ChannelPane: what an open channel pushes, *)
(* finds and says of a member is about that channel, query and member.     *)
(***************************************************************************)
EXTENDS AddServer, ChannelPane, TLAPS

-----------------------------------------------------------------------------
(* The inductive invariant.  Each thing that the device will list or       *)
(* record was true on the server when the answer was given, and on the     *)
(* server it stays true: nobody leaves, no device is unbound, a version    *)
(* only grows, and an anchor that is to adopt the person goes on to do so  *)
(* or is given up.  What a handler holds must therefore be what it was     *)
(* told of its own server, although the form it shares with other handlers *)
(* may have been filled in again.                                          *)

RowStates == [known : BOOLEAN, bound : BOOLEAN, version : Nat, anchors : SUBSET AnchorForms]
SomeProfiles == [version : Nat, anchors : SUBSET Servers]
SomeMetas == [version : Nat, anchors : SUBSET Servers, bound : BOOLEAN]
NextMetas == {<<>>} \cup {<<m>> : m \in SomeMetas}
MaybeServers == Servers \cup {None}

Entries == [at : Servers, id : MaybeServers]

RunStates ==
  [pc : {"idle", "probe", "ask", "bind", "profile", "first", "list"},
   kind : Kinds \cup {None}, at : MaybeServers, token : SomeToken, id : MaybeServers,
   here : BOOLEAN, linked : BOOLEAN, ans : {None, "done"},
   got : SomeProfiles, next : NextMetas]

FormStates ==
  [step : {"connect", "code"}, at : MaybeServers, info : {<<>>} \cup {<<i>> : i \in Infos},
   probing : BOOLEAN, submitting : BOOLEAN]

AnchorStates ==
  [pc : {"idle", "ask", "profile"}, at : MaybeServers, new : MaybeServers,
   signed : SomeProfiles, ans : {None, "done"}, got : SomeProfiles, next : NextMetas]

ServerTyped ==
  /\ used \subseteq Tokens
  /\ member \in [Servers -> {"none", "guest", "member"}]
  /\ row \in [Servers -> RowStates]
  /\ DOMAIN jobs \subseteq Jobs /\ dropped \subseteq Jobs

ClientTyped ==
  /\ form \in FormStates
  /\ run \in [Runs -> RunStates]
  /\ anchor \in AnchorStates
  /\ meta \in SomeMetas /\ session \subseteq Servers
  /\ listed \in Seq(Entries)

(* A version that some server has given, and anchors that serve.           *)
Backed(p) ==
  /\ \E s \in Servers : row[s].version >= p.version
  /\ \A h \in p.anchors : Serves(h)

(* Whoever is bound is known, every anchor of a row serves, and who is     *)
(* asked to adopt the person is asked by a server that knows it.           *)
RowsStand ==
  /\ \A s \in Servers :
       /\ row[s].bound => row[s].known
       /\ \A h \in Hosts(row[s].anchors) : Serves(h)
  /\ \A j \in DOMAIN jobs : row[j.at].known

(* A handler knows its server, and what it has been told holds there.      *)
RunStands(r) ==
  LET c == run[r] IN
  /\ c.pc \in {"probe", "ask", "bind", "profile", "first"} => c.at \in Servers
  /\ c.pc = "probe" /\ c.linked => c.token # <<>>
  /\ c.pc = "ask" => c.token # <<>> /\ c.kind \in Kinds
  /\ c.pc \in {"profile", "first", "list"} => c.next # <<>>
  /\ c.pc \in {"ask", "bind", "profile", "first"} => c.id \in {c.at, None}
  /\ (c.pc = "ask" /\ c.ans = "done") \/ c.pc \in {"bind", "profile", "first"} =>
       member[c.at] # "none" /\ row[c.at].known
  /\ (c.pc = "bind" /\ c.ans = "done") \/ c.pc \in {"profile", "first"} => row[c.at].bound
  /\ c.pc \in {"profile", "first"} => c.at \in session
  /\ Backed(c.got)
  /\ c.next # <<>> => Backed(c.next[1])

(* The form is the form of the one handler that works on it.               *)
IsBusy(r) == run[r].here /\ run[r].pc \in {"probe", "ask", "bind"}
FormIsOf(r) ==
  /\ run[r].here /\ run[r].pc = "probe" =>
       /\ form.probing /\ ~form.submitting
       /\ form.step = "connect" /\ form.at = run[r].at
  /\ run[r].here /\ run[r].pc \in {"ask", "bind"} =>
       /\ form.submitting /\ ~form.probing
       /\ run[r].linked => /\ form.at = run[r].at /\ form.at \in Servers
                           /\ form.info # <<>> /\ form.info[1].id = form.at

FormStands ==
  /\ form.step = "code" =>
       /\ form.at \in Servers /\ ~form.probing
       /\ form.info # <<>> => form.info[1].id = form.at
  /\ \A q, r \in Runs : IsBusy(q) /\ IsBusy(r) => q = r

AnchorStands ==
  /\ anchor.pc = "ask" => /\ anchor.at \in Servers /\ row[anchor.at].known
                          /\ anchor.new \in Servers
  /\ anchor.pc = "profile" => anchor.next # <<>>
  /\ Backed(anchor.got)
  /\ anchor.next # <<>> => Backed(anchor.next[1])

(* A server is listed once: addServer removes one entry of it at most.     *)
ListedOnce == \A i, k \in DOMAIN listed : listed[i].at = listed[k].at => i = k

AddInv ==
  /\ ServerTyped /\ ClientTyped
  /\ RowsStand /\ Backed(meta)
  /\ \A r \in Runs : RunStands(r) /\ FormIsOf(r)
  /\ FormStands /\ AnchorStands
  /\ ListedIsJoined /\ ListedOnce

-----------------------------------------------------------------------------
(* What a step of the server leaves true                                   *)

Grows ==
  /\ \A s \in Servers :
       /\ member[s] # "none" => member'[s] # "none"
       /\ row[s].known => row'[s].known
       /\ row[s].bound => row'[s].bound
       /\ row[s].version <= row'[s].version
  /\ \A h \in Servers : Serves(h) => Serves(h)'
  /\ session \subseteq session'

LEMMA BackedStays ==
  ASSUME ServerTyped, ServerTyped', Grows, NEW p \in [version : Nat, anchors : SUBSET Servers],
         Backed(p)
  PROVE  Backed(p)'
<1>1. PICK s \in Servers : row[s].version >= p.version
  BY DEF Backed
<1>2. row[s].version \in Nat /\ row'[s].version \in Nat /\ row[s].version <= row'[s].version
  BY DEF ServerTyped, RowStates, Grows
<1>3. row'[s].version >= p.version
  BY <1>1, <1>2
<1>4. \A h \in p.anchors : Serves(h)'
  BY DEF Backed, Grows
<1>5. QED
  BY <1>3, <1>4 DEF Backed

LEMMA NothingIsBacked == ASSUME ServerTyped PROVE Backed(NoProfile)
<1>1. PICK s \in Servers : TRUE
  BY ServersAssumption
<1>2. row[s].version \in Nat /\ NoProfile.version = 0 /\ NoProfile.anchors = {}
  BY DEF ServerTyped, RowStates, NoProfile
<1>3. QED
  BY <1>2 DEF Backed

LEMMA NothingIsBackedThen == ASSUME ServerTyped' PROVE Backed(NoProfile)'
<1>1. PICK s \in Servers : TRUE
  BY ServersAssumption
<1>2. row'[s].version \in Nat /\ NoProfile.version = 0 /\ NoProfile.anchors = {}
  BY DEF ServerTyped, RowStates, NoProfile
<1>3. QED
  BY <1>2 DEF Backed

(* Without a step of the server, and with no session lost.                 *)
LEMMA SameServerGrows ==
  ASSUME ServerTyped, UNCHANGED server, session \subseteq session'
  PROVE  Grows /\ ServerTyped' /\ (RowsStand => RowsStand')
<1>1. ServerTyped'
  BY DEF server, ServerTyped
<1>2. \A h \in Servers : Serves(h) => Serves(h)'
  BY DEF server, Serves
<1>3. \A s \in Servers : row[s].version <= row'[s].version
  BY DEF server, ServerTyped, RowStates
<1>4. Grows
  BY <1>2, <1>3 DEF Grows, server
<1>5. RowsStand => RowsStand'
  BY DEF RowsStand, Serves, server
<1>6. QED
  BY <1>1, <1>4, <1>5

(* What a handler holds stays true when only its place may be lost.        *)
Carried(r) ==
  /\ run'[r].pc = run[r].pc /\ run'[r].kind = run[r].kind /\ run'[r].at = run[r].at
  /\ run'[r].token = run[r].token /\ run'[r].id = run[r].id /\ run'[r].linked = run[r].linked
  /\ run'[r].ans = run[r].ans /\ run'[r].got = run[r].got /\ run'[r].next = run[r].next
  /\ run'[r].here => run[r].here

LEMMA NextIsMeta ==
  ASSUME NEW n \in NextMetas, n # <<>>
  PROVE  n[1] \in [version : Nat, anchors : SUBSET Servers, bound : BOOLEAN]
  BY DEF NextMetas, SomeMetas

(* A metadata record is backed like a profile.                             *)
LEMMA MetaStays ==
  ASSUME ServerTyped, ServerTyped', Grows, NEW m \in SomeMetas, Backed(m)
  PROVE  Backed(m)'
<1>1. PICK s \in Servers : row[s].version >= m.version
  BY DEF Backed
<1>2. row[s].version \in Nat /\ row'[s].version \in Nat /\ row[s].version <= row'[s].version
      /\ m.version \in Nat /\ m.anchors \subseteq Servers
  BY DEF ServerTyped, RowStates, Grows, SomeMetas
<1>3. row'[s].version >= m.version
  BY <1>1, <1>2
<1>4. \A h \in m.anchors : Serves(h)'
  BY <1>2 DEF Backed, Grows
<1>5. QED
  BY <1>3, <1>4 DEF Backed

LEMMA RunStays ==
  ASSUME ServerTyped, ServerTyped', ClientTyped, Grows, NEW r \in Runs, RunStands(r), Carried(r)
  PROVE  RunStands(r)'
<1>1. run[r] \in RunStates
  BY DEF ClientTyped
<1>2. PICK c : c = run[r]
  OBVIOUS
<1>3. /\ c \in RunStates /\ c.got \in SomeProfiles /\ c.next \in NextMetas
      /\ Backed(c.got) /\ (c.next # <<>> => Backed(c.next[1]))
  BY <1>1, <1>2 DEF RunStands, RunStates, Backed
<1>4. Backed(c.got)'
  BY <1>3, BackedStays DEF SomeProfiles
<1>5. ASSUME c.next # <<>> PROVE Backed(c.next[1])'
  <2>1. c.next[1] \in SomeMetas
    BY <1>3, <1>5, NextIsMeta DEF SomeMetas
  <2>2. QED
    BY <1>3, <1>5, <2>1, MetaStays
<1>6. Backed(run[r].got)' /\ (run'[r].next # <<>> => Backed(run[r].next[1])')
  <2>1. run'[r].got = c.got /\ run'[r].next = c.next
    BY <1>2 DEF Carried
  <2>2. QED
    BY <1>4, <1>5, <2>1 DEF Backed
<1>7. c.pc \in {"probe", "ask", "bind", "profile", "first"} => c.at \in Servers
  BY <1>2 DEF RunStands
<1>8. QED
  BY <1>2, <1>6, <1>7 DEF RunStands, Carried, Grows

LEMMA FormStays ==
  ASSUME NEW r \in Runs, FormIsOf(r), Carried(r), UNCHANGED form
  PROVE  FormIsOf(r)'
  BY DEF FormIsOf, Carried

LEMMA AnchorStays ==
  ASSUME ServerTyped, ServerTyped', ClientTyped, Grows, AnchorStands, UNCHANGED anchor
  PROVE  AnchorStands'
<1>1. PICK c : c = anchor
  OBVIOUS
<1>2. /\ c.got \in SomeProfiles /\ c.next \in NextMetas
      /\ Backed(c.got) /\ (c.next # <<>> => Backed(c.next[1]))
  BY <1>1 DEF ClientTyped, AnchorStates, AnchorStands, Backed
<1>3. Backed(c.got)'
  BY <1>2, BackedStays DEF SomeProfiles
<1>4. ASSUME c.next # <<>> PROVE Backed(c.next[1])'
  <2>1. c.next[1] \in SomeMetas
    BY <1>2, <1>4, NextIsMeta DEF SomeMetas
  <2>2. QED
    BY <1>2, <1>4, <2>1, MetaStays
<1>5. Backed(anchor.got)' /\ (anchor'.next # <<>> => Backed(anchor.next[1])')
  BY <1>1, <1>3, <1>4 DEF Backed
<1>6. QED
  BY <1>5 DEF AnchorStands, Grows

LEMMA ElementOf ==
  ASSUME NEW S, NEW q \in Seq(S)
  PROVE  \A i \in DOMAIN q : q[i] \in S
  OBVIOUS

LEMMA ListStays ==
  ASSUME ClientTyped, Grows, ListedIsJoined, ListedOnce, UNCHANGED listed
  PROVE  ListedIsJoined' /\ ListedOnce'
<1>1. \A i \in DOMAIN listed : listed[i].at \in Servers
  <2>1. listed \in Seq(Entries)
    BY DEF ClientTyped
  <2>2. \A i \in DOMAIN listed : listed[i] \in Entries
    BY <2>1, ElementOf
  <2>3. QED
    BY <2>2 DEF Entries
<1>2. QED
  BY <1>1 DEF ListedIsJoined, ListedOnce, Grows

LEMMA MetaKept ==
  ASSUME ServerTyped, ServerTyped', ClientTyped, Grows, Backed(meta), UNCHANGED meta
  PROVE  Backed(meta)'
<1>1. PICK c : c = meta
  OBVIOUS
<1>2. c \in SomeMetas /\ Backed(c)
  BY <1>1 DEF ClientTyped, Backed
<1>3. Backed(c)'
  BY <1>2, MetaStays
<1>4. QED
  BY <1>1, <1>3 DEF Backed

(* What all actions keep of the handlers and the form that they leave      *)
(* alone.                                                                  *)
LEMMA RunsStay ==
  ASSUME ServerTyped, ServerTyped', ClientTyped, Grows, \A r \in Runs : Carried(r),
         \A r \in Runs : RunStands(r) /\ FormIsOf(r), FormStands, UNCHANGED form
  PROVE  (\A r \in Runs : RunStands(r)' /\ FormIsOf(r)') /\ FormStands'
<1>1. \A r \in Runs : RunStands(r)' /\ FormIsOf(r)'
  BY RunStays, FormStays
<1>2. \A r \in Runs : IsBusy(r)' => IsBusy(r)
  BY DEF IsBusy, Carried
<1>3. FormStands'
  BY <1>2 DEF FormStands
<1>4. QED
  BY <1>1, <1>3

-----------------------------------------------------------------------------
(* The screen                                                              *)

LEMMA AddInit == Init => AddInv
<1> SUFFICES ASSUME Init PROVE AddInv
  OBVIOUS
<1>1. DOMAIN jobs = {} /\ listed \in Seq(Entries) /\ DOMAIN listed = {}
  BY DEF Init
<1>2. NoProfile \in SomeProfiles /\ NoRow \in RowStates /\ <<>> \in SomeToken /\ <<>> \in NextMetas
  BY DEF NoProfile, NoRow, SomeProfiles, RowStates, SomeToken, NextMetas
<1>3. ServerTyped
  BY <1>1, <1>2 DEF Init, ServerTyped
<1>4. Idle \in RunStates /\ NoAnchor \in AnchorStates
  BY <1>2 DEF Idle, NoAnchor, RunStates, AnchorStates, MaybeServers
<1>5. ClientTyped
  BY <1>1, <1>4 DEF Init, ClientTyped, FormStates, FreshForm, MaybeServers, SomeMetas
<1>6. RowsStand
  <2>1. \A s \in Servers : row[s] = NoRow /\ Hosts(row[s].anchors) = {}
    BY DEF Init, NoRow, Hosts
  <2>2. QED
    BY <1>1, <2>1 DEF RowsStand, NoRow
<1>7. Backed(NoProfile) /\ Backed(meta)
  BY <1>3, NothingIsBacked DEF Init, Backed, NoProfile
<1>8. ASSUME NEW r \in Runs PROVE RunStands(r) /\ FormIsOf(r) /\ ~IsBusy(r)
  <2>1. run[r] = Idle
    BY DEF Init
  <2>2. Backed(run[r].got)
    BY <1>7, <2>1 DEF Backed, Idle
  <2>3. QED
    BY <2>1, <2>2 DEF RunStands, FormIsOf, IsBusy, Idle
<1>9. FormStands
  BY <1>8 DEF Init, FormStands, FreshForm
<1>10. AnchorStands
  <2>1. Backed(anchor.got)
    BY <1>7 DEF Backed, Init, NoAnchor
  <2>2. QED
    BY <2>1 DEF Init, AnchorStands, NoAnchor
<1>11. ListedIsJoined /\ ListedOnce
  BY <1>1 DEF ListedIsJoined, ListedOnce
<1>12. QED
  BY <1>3, <1>5, <1>6, <1>7, <1>8, <1>9, <1>10, <1>11 DEF AddInv

(* Handlers that lose their places.                                        *)
LEMMA UnmountedCarries ==
  ASSUME ClientTyped, run' = Unmounted(run)
  PROVE  /\ run' \in [Runs -> RunStates]
         /\ \A r \in Runs : Carried(r) /\ ~run'[r].here
<1>1. \A r \in Runs : run[r] \in RunStates /\ run'[r] = [run[r] EXCEPT !.here = FALSE]
  BY DEF ClientTyped, Unmounted
<1>2. \A r \in Runs : [run[r] EXCEPT !.here = FALSE] \in RunStates
  BY <1>1 DEF RunStates
<1>3. \A r \in Runs : Carried(r) /\ ~run'[r].here
  BY <1>1 DEF RunStates, Carried
<1>4. QED
  BY <1>2, <1>3 DEF Unmounted

(* A form without a handler.                                               *)
LEMMA FreshFormStands ==
  ASSUME \A r \in Runs : RunStands(r), form' = FreshForm, \A r \in Runs : ~run'[r].here
  PROVE  (\A r \in Runs : FormIsOf(r)') /\ FormStands'
  BY DEF FormIsOf, FormStands, IsBusy, FreshForm

(* Steps of the screen, with no server.                                    *)
LEMMA ScreenKeeps ==
  ASSUME AddInv, OpenAddServer \/ LeaveScreen \/ Back \/ OpenAddAnchor
  PROVE  AddInv'
<1>1. UNCHANGED <<server, anchor, meta, listed, session>>
  BY DEF OpenAddServer, LeaveScreen, Back, OpenAddAnchor
<1>2. ServerTyped /\ ClientTyped /\ RowsStand
  BY DEF AddInv
<1>3. Grows /\ ServerTyped' /\ RowsStand'
  BY <1>1, <1>2, SameServerGrows
<1>4. AnchorStands' /\ ListedIsJoined' /\ ListedOnce' /\ Backed(meta)'
  BY <1>1, <1>3, AnchorStays, ListStays, MetaKept DEF AddInv
<1>5. ClientTyped' /\ (\A r \in Runs : RunStands(r)' /\ FormIsOf(r)') /\ FormStands'
  <2>1. CASE OpenAddServer \/ OpenAddAnchor
    <3>1. UNCHANGED <<form, run>>
      BY <2>1 DEF OpenAddServer, OpenAddAnchor
    <3>2. \A r \in Runs : Carried(r)
      BY <3>1 DEF Carried
    <3>3. QED
      BY <1>1, <1>2, <1>3, <3>1, <3>2, RunsStay DEF AddInv, ClientTyped
  <2>2. CASE LeaveScreen
    <3>1. run' = Unmounted(run) /\ form' = FreshForm
      BY <2>2 DEF LeaveScreen
    <3>2. run' \in [Runs -> RunStates] /\ \A r \in Runs : Carried(r) /\ ~run'[r].here
      BY <1>2, <3>1, UnmountedCarries
    <3>3. \A r \in Runs : RunStands(r)'
      BY <1>2, <1>3, <3>2, RunStays DEF AddInv
    <3>4. (\A r \in Runs : FormIsOf(r)') /\ FormStands'
      BY <3>1, <3>2, FreshFormStands DEF AddInv
    <3>5. ClientTyped'
      BY <1>1, <1>2, <3>1, <3>2 DEF ClientTyped, FormStates, FreshForm, MaybeServers
    <3>6. QED
      BY <3>3, <3>4, <3>5
  <2>3. CASE Back
    <3>1. /\ UNCHANGED run /\ form.step = "code" /\ ~form.submitting
          /\ form' = [form EXCEPT !.step = "connect"]
      BY <2>3 DEF Back
    <3>2. \A r \in Runs : Carried(r)
      BY <3>1 DEF Carried
    <3>3. \A r \in Runs : RunStands(r)'
      BY <1>2, <1>3, <3>2, RunStays DEF AddInv
    <3>4. /\ form'.step = "connect" /\ form'.probing = form.probing /\ form'.at = form.at
          /\ form'.submitting = form.submitting /\ form'.info = form.info
      BY <1>2, <3>1 DEF ClientTyped, FormStates
    <3>5. \A r \in Runs : FormIsOf(r)'
      BY <3>1, <3>4 DEF AddInv, FormIsOf
    <3>6. FormStands'
      BY <3>1, <3>4 DEF AddInv, FormStands, IsBusy
    <3>7. ClientTyped'
      BY <1>1, <1>2, <3>1 DEF ClientTyped, FormStates
    <3>8. QED
      BY <3>3, <3>5, <3>6, <3>7
  <2>4. QED
    BY <2>1, <2>2, <2>3
<1>6. QED
  BY <1>3, <1>4, <1>5 DEF AddInv

-----------------------------------------------------------------------------
(* A step of one handler                                                   *)

(* What the others hold stays true.                                        *)
LEMMA OneRun ==
  ASSUME AddInv, ServerTyped', Grows, UNCHANGED <<anchor, listed>>, NEW r \in Runs,
         \A q \in Runs : q # r => run'[q] = run[q], RunStands(r)'
  PROVE  /\ \A q \in Runs : RunStands(q)'
         /\ AnchorStands' /\ ListedIsJoined' /\ ListedOnce'
<1>1. ServerTyped /\ ClientTyped
  BY DEF AddInv
<1>2. ASSUME NEW q \in Runs, q # r PROVE RunStands(q)'
  <2>1. Carried(q)
    BY <1>2 DEF Carried
  <2>2. QED
    BY <1>1, <2>1, RunStays DEF AddInv
<1>3. AnchorStands' /\ ListedIsJoined' /\ ListedOnce'
  BY <1>1, AnchorStays, ListStays DEF AddInv
<1>4. QED
  BY <1>2, <1>3

LEMMA NobodyIsBusy ==
  ASSUME AddInv, (~form.probing \/ form.step = "code") /\ ~form.submitting
  PROVE  \A q \in Runs : ~IsBusy(q)
  BY DEF AddInv, IsBusy, FormIsOf

LEMMA NobodyElseIsBusy ==
  ASSUME AddInv, NEW r \in Runs, IsBusy(r)
  PROVE  \A q \in Runs : q # r => ~IsBusy(q)
  BY DEF AddInv, FormStands

(* A handler has the form for itself, and does with it what it will.       *)
LEMMA FormOfOne ==
  ASSUME NEW r \in Runs, \A q \in Runs : q # r => run'[q] = run[q] /\ ~IsBusy(q),
         FormIsOf(r)',
         form'.step = "code" =>
           /\ form'.at \in Servers /\ ~form'.probing
           /\ form'.info # <<>> => form'.info[1].id = form'.at
  PROVE  (\A q \in Runs : FormIsOf(q)') /\ FormStands'
<1>1. \A q \in Runs : q # r => FormIsOf(q)' /\ ~IsBusy(q)'
  BY DEF FormIsOf, IsBusy
<1>2. QED
  BY <1>1 DEF FormStands

(* A handler does not use the form, now or any more.                       *)
LEMMA FormOfOthers ==
  ASSUME AddInv, NEW r \in Runs, \A q \in Runs : q # r => run'[q] = run[q],
         UNCHANGED form, ~IsBusy(r)'
  PROVE  (\A q \in Runs : FormIsOf(q)') /\ FormStands'
<1>1. \A q \in Runs : q # r => FormIsOf(q)' /\ (IsBusy(q)' => IsBusy(q))
  BY DEF AddInv, FormIsOf, IsBusy
<1>2. FormIsOf(r)'
  BY DEF FormIsOf, IsBusy
<1>3. QED
  BY <1>1, <1>2 DEF AddInv, FormStands

(* A handler goes on from one call to the next.                            *)
LEMMA FormGoesOn ==
  ASSUME AddInv, NEW r \in Runs, \A q \in Runs : q # r => run'[q] = run[q], UNCHANGED form,
         run[r].pc \in {"ask", "bind"}, run'[r].pc \in {"ask", "bind"},
         run'[r].here = run[r].here, run'[r].linked = run[r].linked, run'[r].at = run[r].at
  PROVE  (\A q \in Runs : FormIsOf(q)') /\ FormStands'
<1>1. \A q \in Runs : FormIsOf(q)' /\ (IsBusy(q)' => IsBusy(q))
  BY DEF AddInv, FormIsOf, IsBusy
<1>2. QED
  BY <1>1 DEF AddInv, FormStands

(* What an action of one handler must show.                                *)
LEMMA HandlerKeeps ==
  ASSUME AddInv, UNCHANGED <<server, anchor, listed>>, NEW r \in Runs,
         meta' = meta \/ (meta' \in SomeMetas /\ Backed(meta)'),
         session' \in SUBSET Servers, session \subseteq session',
         NEW c \in RunStates, run' = [run EXCEPT ![r] = c], RunStands(r)',
         form' = form \/ form' \in FormStates,
         (\A q \in Runs : FormIsOf(q)') /\ FormStands'
  PROVE  AddInv'
<1>1. ServerTyped /\ ClientTyped /\ RowsStand
  BY DEF AddInv
<1>2. Grows /\ ServerTyped' /\ RowsStand'
  BY <1>1, SameServerGrows
<1>3. run' \in [Runs -> RunStates] /\ \A q \in Runs : q # r => run'[q] = run[q]
  BY <1>1 DEF ClientTyped
<1>4. ClientTyped'
  BY <1>1, <1>3 DEF ClientTyped
<1>5. /\ \A q \in Runs : RunStands(q)'
      /\ AnchorStands' /\ ListedIsJoined' /\ ListedOnce'
  BY <1>2, <1>3, OneRun
<1>6. Backed(meta)'
  BY <1>1, <1>2, MetaKept DEF AddInv
<1>7. QED
  BY <1>2, <1>4, <1>5, <1>6 DEF AddInv

(* A handler that begins, or goes on without what it had before, holds     *)
(* nothing yet but its server and what it is to ask for.                   *)
LEMMA BeginsStands ==
  ASSUME ServerTyped', NEW r \in Runs, run'[r].got = NoProfile, run'[r].next = <<>>,
         run'[r].ans = None,
         run'[r].pc \in {"idle", "probe", "ask"},
         run'[r].pc # "idle" => run'[r].at \in Servers,
         run'[r].pc = "probe" /\ run'[r].linked => run'[r].token # <<>>,
         run'[r].pc = "ask" =>
           /\ run'[r].token # <<>> /\ run'[r].kind \in Kinds
           /\ run'[r].id \in {run'[r].at, None}
  PROVE  RunStands(r)'
<1>1. Backed(NoProfile)'
  BY NothingIsBackedThen
<1>2. Backed(run[r].got)'
  BY <1>1 DEF Backed, NoProfile
<1>3. QED
  BY <1>2 DEF RunStands, None

LEMMA IdleIs ==
  /\ Idle \in RunStates /\ Idle.got = NoProfile /\ Idle.next = <<>> /\ Idle.ans = None
  /\ Idle.pc = "idle" /\ ~Idle.here
  BY DEF Idle, RunStates, NoProfile, SomeProfiles, NextMetas, SomeToken, MaybeServers

LEMMA ConnectRoomKeeps ==
  ASSUME AddInv, NEW r \in Runs, NEW t \in Tokens, ConnectRoom(r, t)
  PROVE  AddInv'
<1>1. PICK c : c = [Idle EXCEPT !.pc = "ask", !.kind = "room", !.at = t.at, !.token = <<t>>,
                                !.here = TRUE]
  OBVIOUS
<1>2. /\ run' = [run EXCEPT ![r] = c] /\ form' = [form EXCEPT !.submitting = TRUE]
      /\ ~form.probing /\ ~form.submitting /\ form.step = "connect"
      /\ UNCHANGED <<server, anchor, listed, meta, session>>
  BY <1>1 DEF ConnectRoom, MayConnect
<1>3. ServerTyped /\ ClientTyped
  BY DEF AddInv
<1>4. t.at \in Servers /\ <<t>> \in SomeToken /\ <<t>> # <<>>
  BY TokensAssumption DEF SomeToken
<1>5. /\ c \in RunStates /\ c.got = NoProfile /\ c.next = <<>> /\ c.ans = None /\ c.pc = "ask"
      /\ c.at \in Servers /\ c.token # <<>> /\ c.kind \in Kinds /\ c.id = None /\ ~c.linked
  BY <1>1, <1>4, IdleIs DEF Idle, RunStates, Kinds, MaybeServers
<1>6. run'[r] = c /\ \A q \in Runs : q # r => run'[q] = run[q]
  BY <1>2, <1>3 DEF ClientTyped
<1>7. ServerTyped'
  BY <1>2, <1>3, SameServerGrows
<1>8. RunStands(r)'
  BY <1>5, <1>6, <1>7, BeginsStands
<1>9. /\ form' \in FormStates
      /\ form'.submitting /\ ~form'.probing /\ form'.step = "connect"
  BY <1>2, <1>3 DEF ClientTyped, FormStates
<1>10. FormIsOf(r)'
  BY <1>5, <1>6, <1>9 DEF FormIsOf
<1>11. \A q \in Runs : ~IsBusy(q)
  BY <1>2, NobodyIsBusy
<1>12. (\A q \in Runs : FormIsOf(q)') /\ FormStands'
  BY <1>6, <1>9, <1>10, <1>11, FormOfOne
<1>13. session' \in SUBSET Servers /\ session \subseteq session'
  BY <1>2, <1>3 DEF ClientTyped
<1>14. QED
  BY <1>2, <1>5, <1>8, <1>9, <1>12, <1>13, HandlerKeeps

LEMMA ProbesKeeps ==
  ASSUME AddInv, NEW r \in Runs, NEW s \in Servers, NEW token \in SomeToken, Probes(r, s, token)
  PROVE  AddInv'
<1>1. PICK c : c = [Idle EXCEPT !.pc = "probe", !.at = s, !.token = token,
                                !.linked = token # <<>>, !.here = TRUE]
  OBVIOUS
<1>2. /\ run' = [run EXCEPT ![r] = c] /\ form' = [form EXCEPT !.at = s, !.probing = TRUE]
      /\ ~form.probing /\ ~form.submitting /\ form.step = "connect"
      /\ UNCHANGED <<server, anchor, listed, meta, session>>
  BY <1>1 DEF Probes, MayConnect
<1>3. ServerTyped /\ ClientTyped
  BY DEF AddInv
<1>4. /\ c \in RunStates /\ c.got = NoProfile /\ c.next = <<>> /\ c.ans = None /\ c.pc = "probe"
      /\ c.at = s /\ (c.linked => c.token # <<>>)
  BY <1>1, IdleIs DEF Idle, RunStates, MaybeServers
<1>5. run'[r] = c /\ \A q \in Runs : q # r => run'[q] = run[q]
  BY <1>2, <1>3 DEF ClientTyped
<1>6. ServerTyped'
  BY <1>2, <1>3, SameServerGrows
<1>7. RunStands(r)'
  BY <1>4, <1>5, <1>6, BeginsStands
<1>8. /\ form' \in FormStates
      /\ ~form'.submitting /\ form'.probing /\ form'.step = "connect" /\ form'.at = s
  BY <1>2, <1>3 DEF ClientTyped, FormStates, MaybeServers
<1>9. FormIsOf(r)'
  BY <1>4, <1>5, <1>8 DEF FormIsOf
<1>10. \A q \in Runs : ~IsBusy(q)
  BY <1>2, NobodyIsBusy
<1>11. (\A q \in Runs : FormIsOf(q)') /\ FormStands'
  BY <1>5, <1>8, <1>9, <1>10, FormOfOne
<1>12. session' \in SUBSET Servers /\ session \subseteq session'
  BY <1>2, <1>3 DEF ClientTyped
<1>13. QED
  BY <1>2, <1>4, <1>7, <1>8, <1>11, <1>12, HandlerKeeps

LEMMA SubmitCodeKeeps ==
  ASSUME AddInv, NEW r \in Runs, NEW t \in Tokens, SubmitCode(r, t)
  PROVE  AddInv'
<1>1. PICK c : c = [AsksFor(SaysClaimed, form.at, t, KnownId) EXCEPT !.here = TRUE]
  OBVIOUS
<1>2. /\ run' = [run EXCEPT ![r] = c] /\ form' = [form EXCEPT !.submitting = TRUE]
      /\ form.step = "code" /\ ~form.submitting
      /\ UNCHANGED <<server, anchor, listed, meta, session>>
  BY <1>1 DEF SubmitCode
<1>3. ServerTyped /\ ClientTyped /\ FormStands /\ form \in FormStates
  BY DEF AddInv, ClientTyped
<1>4. <<t>> \in SomeToken /\ <<t>> # <<>>
  BY DEF SomeToken
<1>5. form.at \in Servers /\ ~form.probing /\ KnownId \in {form.at, None}
  BY <1>2, <1>3 DEF FormStands, KnownId
<1>6. /\ c \in RunStates /\ c.got = NoProfile /\ c.next = <<>> /\ c.ans = None /\ c.pc = "ask"
      /\ c.at = form.at /\ c.token # <<>> /\ c.kind \in Kinds /\ ~c.linked
      /\ c.id \in {c.at, None}
  BY <1>1, <1>4, <1>5, IdleIs DEF AsksFor, Idle, RunStates, Kinds, MaybeServers
<1>7. run'[r] = c /\ \A q \in Runs : q # r => run'[q] = run[q]
  BY <1>2, <1>3 DEF ClientTyped
<1>8. ServerTyped'
  BY <1>2, <1>3, SameServerGrows
<1>9. RunStands(r)'
  BY <1>5, <1>6, <1>7, <1>8, BeginsStands
<1>10. /\ form' \in FormStates /\ form'.submitting /\ form'.probing = form.probing
       /\ form'.at = form.at /\ form'.info = form.info
  BY <1>2, <1>3 DEF FormStates
<1>11. FormIsOf(r)'
  BY <1>5, <1>6, <1>7, <1>10 DEF FormIsOf
<1>12. \A q \in Runs : ~IsBusy(q)
  BY <1>2, NobodyIsBusy
<1>13. (\A q \in Runs : FormIsOf(q)') /\ FormStands'
  BY <1>2, <1>3, <1>5, <1>7, <1>10, <1>11, <1>12, FormOfOne DEF FormStands
<1>14. session' \in SUBSET Servers /\ session \subseteq session'
  BY <1>2, <1>3 DEF ClientTyped
<1>15. QED
  BY <1>2, <1>6, <1>9, <1>10, <1>13, <1>14, HandlerKeeps

(* What the form is told when its handler is still there.                  *)
LEMMA SetsTyped ==
  ASSUME NEW r \in Runs, form \in FormStates, NEW state \in FormStates, Sets(r, state)
  PROVE  /\ form' \in FormStates
         /\ run[r].here => form' = state
         /\ ~run[r].here => form' = form
  BY DEF Sets

LEMMA ProbeAnsweredKeeps ==
  ASSUME AddInv, NEW r \in Runs, NEW claims \in BOOLEAN, ProbeAnswered(r, claims)
  PROVE  AddInv'
<1>1. PICK s : s = run[r].at
  OBVIOUS
<1>2. PICK info : info = <<[claimed |-> claims, id |-> s]>>
  OBVIOUS
<1>3. ServerTyped /\ ClientTyped /\ FormStands /\ form \in FormStates /\ run[r] \in RunStates
      /\ RunStands(r) /\ FormIsOf(r)
  BY DEF AddInv, ClientTyped
<1>4. run[r].pc = "probe" /\ UNCHANGED <<server, anchor, listed, meta, session>>
  BY DEF ProbeAnswered
<1>5. s \in Servers /\ info \in {<<i>> : i \in Infos} /\ info # <<>> /\ info[1].id = s
  <2>1. s \in Servers /\ [claimed |-> claims, id |-> s] \in Infos
    BY <1>1, <1>3, <1>4 DEF RunStands, Infos
  <2>2. QED
    BY <1>2, <2>1
<1>6. ServerTyped' /\ session' \in SUBSET Servers /\ session \subseteq session'
  BY <1>3, <1>4, SameServerGrows DEF ClientTyped
<1>7. run[r].here => /\ IsBusy(r) /\ form.probing /\ ~form.submitting /\ form.at = s
                     /\ form.step = "connect"
  BY <1>1, <1>3, <1>4 DEF FormIsOf, IsBusy
<1>8. CASE run[r].linked
  <2>1. PICK c : c = [AsksFor(claims, s, run[r].token[1], s) EXCEPT !.here = run[r].here,
                                                                     !.linked = TRUE]
    OBVIOUS
  <2>2. PICK f : f = [form EXCEPT !.probing = FALSE, !.submitting = TRUE, !.info = info]
    OBVIOUS
  <2>3. run' = [run EXCEPT ![r] = c] /\ Sets(r, f)
    BY <1>1, <1>2, <1>3, <1>8, <2>1, <2>2 DEF ProbeAnswered, ClientTyped
  <2>4. run[r].token[1] \in Tokens /\ <<run[r].token[1]>> \in SomeToken
    BY <1>3, <1>4, <1>8 DEF RunStands, RunStates, SomeToken
  <2>5. /\ c \in RunStates /\ c.got = NoProfile /\ c.next = <<>> /\ c.ans = None
        /\ c.pc = "ask" /\ c.at = s /\ c.token # <<>> /\ c.kind \in Kinds /\ c.linked
        /\ c.id = s /\ c.here = run[r].here
    <3>1. PICK t, h : t = run[r].token[1] /\ h = run[r].here
      OBVIOUS
    <3>2. <<t>> \in SomeToken /\ <<t>> # <<>> /\ h \in BOOLEAN
      BY <1>3, <2>4, <3>1 DEF RunStates
    <3>3. c = [AsksFor(claims, s, t, s) EXCEPT !.here = h, !.linked = TRUE]
      BY <2>1, <3>1
    <3>4. QED
      BY <1>5, <3>1, <3>2, <3>3, IdleIs DEF AsksFor, Idle, RunStates, Kinds, MaybeServers
  <2>6. run'[r] = c /\ \A q \in Runs : q # r => run'[q] = run[q]
    BY <1>3, <2>3 DEF ClientTyped
  <2>7. RunStands(r)'
    BY <1>5, <1>6, <2>5, <2>6, BeginsStands
  <2>8. /\ f \in FormStates /\ ~f.probing /\ f.submitting /\ f.info = info
        /\ f.at = form.at /\ f.step = form.step
    BY <1>3, <1>5, <2>2 DEF FormStates
  <2>9. form' \in FormStates /\ (run[r].here => form' = f) /\ (~run[r].here => form' = form)
    BY <1>3, <2>3, <2>8, SetsTyped
  <2>10. (\A q \in Runs : FormIsOf(q)') /\ FormStands'
    <3>1. CASE run[r].here
      <4>1. \A q \in Runs : q # r => ~IsBusy(q)
        BY <1>7, <3>1, NobodyElseIsBusy
      <4>2. FormIsOf(r)'
        BY <1>5, <1>7, <2>5, <2>6, <2>8, <2>9, <3>1 DEF FormIsOf
      <4>3. form'.step = "connect"
        BY <1>7, <2>8, <2>9, <3>1
      <4>4. QED
        BY <2>6, <4>1, <4>2, <4>3, FormOfOne
    <3>2. CASE ~run[r].here
      BY <2>5, <2>6, <2>9, <3>2, FormOfOthers DEF IsBusy
    <3>3. QED
      BY <3>1, <3>2
  <2>11. QED
    BY <1>4, <1>6, <2>3, <2>5, <2>7, <2>9, <2>10, HandlerKeeps
<1>9. CASE ~run[r].linked
  <2>1. PICK f : f = [form EXCEPT !.probing = FALSE, !.step = "code", !.info = info]
    OBVIOUS
  <2>2. run' = [run EXCEPT ![r] = Idle] /\ Sets(r, f)
    BY <1>1, <1>2, <1>9, <2>1 DEF ProbeAnswered
  <2>3. run'[r] = Idle /\ \A q \in Runs : q # r => run'[q] = run[q]
    BY <1>3, <2>2 DEF ClientTyped
  <2>4. RunStands(r)'
    BY <1>6, <2>3, IdleIs, BeginsStands
  <2>5. /\ f \in FormStates /\ ~f.probing /\ f.info = info /\ f.at = form.at
    BY <1>3, <1>5, <2>1 DEF FormStates
  <2>6. form' \in FormStates /\ (run[r].here => form' = f) /\ (~run[r].here => form' = form)
    BY <1>3, <2>2, <2>5, SetsTyped
  <2>7. (\A q \in Runs : FormIsOf(q)') /\ FormStands'
    <3>1. CASE run[r].here
      <4>1. \A q \in Runs : q # r => ~IsBusy(q)
        BY <1>7, <3>1, NobodyElseIsBusy
      <4>2. FormIsOf(r)'
        BY <2>3, IdleIs DEF FormIsOf
      <4>3. form'.at \in Servers /\ ~form'.probing /\ form'.info[1].id = form'.at
        BY <1>5, <1>7, <2>5, <2>6, <3>1
      <4>4. QED
        BY <2>3, <4>1, <4>2, <4>3, FormOfOne
    <3>2. CASE ~run[r].here
      BY <2>3, <2>6, <3>2, IdleIs, FormOfOthers DEF IsBusy
    <3>3. QED
      BY <3>1, <3>2
  <2>8. QED
    BY <1>4, <1>6, <2>2, <2>4, <2>6, <2>7, IdleIs, HandlerKeeps
<1>10. QED
  BY <1>8, <1>9

LEMMA ProbeFailedKeeps ==
  ASSUME AddInv, NEW r \in Runs, ProbeFailed(r)
  PROVE  AddInv'
<1>1. PICK f : f = [form EXCEPT !.probing = FALSE, !.step = "code", !.info = InfoLost]
  OBVIOUS
<1>2. /\ run' = [run EXCEPT ![r] = Idle] /\ Sets(r, f) /\ run[r].pc = "probe"
      /\ UNCHANGED <<server, anchor, listed, meta, session>>
  BY <1>1 DEF ProbeFailed
<1>3. ServerTyped /\ ClientTyped /\ form \in FormStates /\ RunStands(r) /\ FormIsOf(r)
  BY DEF AddInv, ClientTyped
<1>4. ServerTyped' /\ session' \in SUBSET Servers /\ session \subseteq session'
  BY <1>2, <1>3, SameServerGrows DEF ClientTyped
<1>5. run'[r] = Idle /\ \A q \in Runs : q # r => run'[q] = run[q]
  BY <1>2, <1>3 DEF ClientTyped
<1>6. RunStands(r)'
  BY <1>4, <1>5, IdleIs, BeginsStands
<1>7. f \in FormStates /\ ~f.probing /\ f.info = <<>> /\ f.at = form.at
  BY <1>1, <1>3 DEF FormStates, InfoLost
<1>8. form' \in FormStates /\ (run[r].here => form' = f) /\ (~run[r].here => form' = form)
  BY <1>2, <1>3, <1>7, SetsTyped
<1>9. (\A q \in Runs : FormIsOf(q)') /\ FormStands'
  <2>1. CASE run[r].here
    <3>1. IsBusy(r) /\ form.at \in Servers
      BY <1>2, <1>3, <2>1 DEF IsBusy, FormIsOf, RunStands
    <3>2. \A q \in Runs : q # r => ~IsBusy(q)
      BY <3>1, NobodyElseIsBusy
    <3>3. FormIsOf(r)'
      BY <1>5, IdleIs DEF FormIsOf
    <3>4. form'.at \in Servers /\ ~form'.probing /\ form'.info = <<>>
      BY <1>7, <1>8, <2>1, <3>1
    <3>5. QED
      BY <1>5, <3>2, <3>3, <3>4, FormOfOne
  <2>2. CASE ~run[r].here
    BY <1>5, <1>8, <2>2, IdleIs, FormOfOthers DEF IsBusy
  <2>3. QED
    BY <2>1, <2>2
<1>10. QED
  BY <1>2, <1>4, <1>6, <1>8, <1>9, IdleIs, HandlerKeeps

LEMMA CallFailsKeeps ==
  ASSUME AddInv, NEW r \in Runs, CallFails(r)
  PROVE  AddInv'
<1>1. PICK f : f = [form EXCEPT !.submitting = FALSE,
                                !.step = IF run[r].linked THEN "code" ELSE @]
  OBVIOUS
<1>2. /\ run' = [run EXCEPT ![r] = Idle] /\ Sets(r, f) /\ run[r].pc \in {"ask", "bind"}
      /\ UNCHANGED <<server, anchor, listed, meta, session>>
  BY <1>1 DEF CallFails
<1>3. ServerTyped /\ ClientTyped /\ form \in FormStates /\ RunStands(r) /\ FormIsOf(r)
      /\ FormStands
  BY DEF AddInv, ClientTyped
<1>4. ServerTyped' /\ session' \in SUBSET Servers /\ session \subseteq session'
  BY <1>2, <1>3, SameServerGrows DEF ClientTyped
<1>5. run'[r] = Idle /\ \A q \in Runs : q # r => run'[q] = run[q]
  BY <1>2, <1>3 DEF ClientTyped
<1>6. RunStands(r)'
  BY <1>4, <1>5, IdleIs, BeginsStands
<1>7. /\ f \in FormStates /\ f.probing = form.probing /\ f.info = form.info /\ f.at = form.at
      /\ ~run[r].linked => f.step = form.step
  BY <1>1, <1>3 DEF FormStates
<1>8. form' \in FormStates /\ (run[r].here => form' = f) /\ (~run[r].here => form' = form)
  BY <1>2, <1>3, <1>7, SetsTyped
<1>9. (\A q \in Runs : FormIsOf(q)') /\ FormStands'
  <2>1. CASE run[r].here
    <3>1. IsBusy(r) /\ ~form.probing
      BY <1>2, <1>3, <2>1 DEF IsBusy, FormIsOf
    <3>2. \A q \in Runs : q # r => ~IsBusy(q)
      BY <3>1, NobodyElseIsBusy
    <3>3. FormIsOf(r)'
      BY <1>5, IdleIs DEF FormIsOf
    <3>4. ASSUME form'.step = "code"
          PROVE  /\ form'.at \in Servers /\ ~form'.probing
                 /\ form'.info # <<>> => form'.info[1].id = form'.at
      <4>1. CASE run[r].linked
        BY <1>2, <1>3, <1>7, <1>8, <2>1, <3>1, <4>1 DEF FormIsOf
      <4>2. CASE ~run[r].linked
        BY <1>3, <1>7, <1>8, <2>1, <3>4, <4>2 DEF FormStands
      <4>3. QED
        BY <4>1, <4>2
    <3>5. QED
      BY <1>5, <3>2, <3>3, <3>4, FormOfOne
  <2>2. CASE ~run[r].here
    BY <1>5, <1>8, <2>2, IdleIs, FormOfOthers DEF IsBusy
  <2>3. QED
    BY <2>1, <2>2
<1>10. QED
  BY <1>2, <1>4, <1>6, <1>8, <1>9, IdleIs, HandlerKeeps

(* What a handler has been told it still holds, when it has got no more.   *)
LEMMA GotStays ==
  ASSUME AddInv, ServerTyped', Grows, NEW r \in Runs,
         run'[r].got = run[r].got, run'[r].next = run[r].next
  PROVE  Backed(run[r].got)' /\ (run'[r].next # <<>> => Backed(run[r].next[1])')
<1>1. ServerTyped /\ ClientTyped /\ run[r] \in RunStates /\ RunStands(r)
  BY DEF AddInv, ClientTyped
<1>2. PICK got, next : got = run[r].got /\ next = run[r].next
  OBVIOUS
<1>3. /\ got \in SomeProfiles /\ next \in NextMetas
      /\ Backed(got) /\ (next # <<>> => Backed(next[1]))
  BY <1>1, <1>2 DEF RunStands, RunStates, Backed
<1>4. Backed(got)'
  BY <1>1, <1>3, BackedStays DEF SomeProfiles
<1>5. ASSUME next # <<>> PROVE Backed(next[1])'
  <2>1. next[1] \in SomeMetas
    BY <1>3, <1>5, NextIsMeta DEF SomeMetas
  <2>2. QED
    BY <1>1, <1>3, <1>5, <2>1, MetaStays
<1>6. QED
  BY <1>2, <1>4, <1>5 DEF Backed

LEMMA AcceptedKeeps ==
  ASSUME AddInv, NEW r \in Runs, Accepted(r)
  PROVE  AddInv'
<1>1. PICK c : c = [run[r] EXCEPT !.pc = "bind", !.ans = None, !.id = AnsweredId(r)]
  OBVIOUS
<1>2. ServerTyped /\ ClientTyped /\ run[r] \in RunStates /\ RunStands(r)
  BY DEF AddInv, ClientTyped
<1>3. run' = [run EXCEPT ![r] = c]
  BY <1>1, <1>2 DEF Accepted, ClientTyped
<1>4. /\ UNCHANGED <<server, form, anchor, listed, meta, session>>
      /\ run[r].pc = "ask" /\ run[r].ans = "done"
  BY DEF Accepted
<1>5. AnsweredId(r) \in {run[r].at, None} /\ run[r].at \in Servers
  BY <1>2, <1>4 DEF RunStands, AnsweredId, ClaimedId, InvitedId, RoomId, Kinds
<1>6. /\ c \in RunStates /\ c.got = run[r].got /\ c.next = run[r].next /\ c.ans = None
      /\ c.pc = "bind" /\ c.at = run[r].at /\ c.id \in {c.at, None} /\ c.here = run[r].here
      /\ c.linked = run[r].linked
  <2>1. PICK d, id : d = run[r] /\ id = AnsweredId(r)
    OBVIOUS
  <2>2. d \in RunStates /\ id \in {d.at, None} /\ id \in MaybeServers
    BY <1>2, <1>5, <2>1 DEF MaybeServers
  <2>3. c = [d EXCEPT !.pc = "bind", !.ans = None, !.id = id]
    BY <1>1, <2>1
  <2>4. QED
    BY <2>1, <2>2, <2>3 DEF RunStates
<1>7. run'[r] = c /\ \A q \in Runs : q # r => run'[q] = run[q]
  BY <1>2, <1>3 DEF ClientTyped
<1>8. Grows /\ ServerTyped' /\ session' \in SUBSET Servers /\ session \subseteq session'
  BY <1>2, <1>4, SameServerGrows DEF ClientTyped
<1>9. Backed(run[r].got)' /\ (run'[r].next # <<>> => Backed(run[r].next[1])')
  BY <1>6, <1>7, <1>8, GotStays
<1>10. RunStands(r)'
  <2>1. member[run[r].at] # "none" /\ row[run[r].at].known
    BY <1>2, <1>4 DEF RunStands
  <2>2. member'[run'[r].at] # "none" /\ row'[run'[r].at].known
    BY <1>5, <1>6, <1>7, <1>8, <2>1 DEF Grows
  <2>3. QED
    BY <1>5, <1>6, <1>7, <1>9, <2>2 DEF RunStands, None
<1>11. (\A q \in Runs : FormIsOf(q)') /\ FormStands'
  BY <1>4, <1>6, <1>7, FormGoesOn
<1>12. form' = form /\ UNCHANGED <<server, anchor, listed, meta>>
  BY <1>4
<1>13. QED
  BY <1>3, <1>6, <1>8, <1>10, <1>11, <1>12, HandlerKeeps

LEMMA BindAnsweredKeeps ==
  ASSUME AddInv, NEW r \in Runs, BindAnswered(r)
  PROVE  AddInv'
<1>1. PICK m : m = Recorded(meta, run[r].got)
  OBVIOUS
<1>2. PICK c : c = [run[r] EXCEPT !.pc = "profile", !.ans = None, !.got = NoProfile,
                                  !.next = <<m>>]
  OBVIOUS
<1>3. ServerTyped /\ ClientTyped /\ run[r] \in RunStates /\ RunStands(r) /\ FormIsOf(r)
      /\ FormStands /\ meta \in SomeMetas /\ form \in FormStates /\ session \subseteq Servers
  BY DEF AddInv, ClientTyped
<1>4. PICK f : f = [form EXCEPT !.submitting = FALSE]
  OBVIOUS
<1>5. run' = [run EXCEPT ![r] = c] /\ session' = session \cup {run[r].at} /\ Sets(r, f)
  BY <1>1, <1>2, <1>3, <1>4 DEF BindAnswered, ClientTyped
<1>6. /\ UNCHANGED <<server, anchor, listed, meta>>
      /\ run[r].pc = "bind" /\ run[r].ans = "done"
  BY DEF BindAnswered, IsBound
<1>7. run[r].at \in Servers /\ member[run[r].at] # "none" /\ row[run[r].at].known
      /\ row[run[r].at].bound /\ run[r].id \in {run[r].at, None}
  BY <1>3, <1>6 DEF RunStands
<1>8. /\ m \in SomeMetas /\ m.version = run[r].got.version /\ m.anchors = run[r].got.anchors
  BY <1>1, <1>3 DEF Recorded, RunStates, SomeMetas, SomeProfiles
<1>9. /\ c \in RunStates /\ c.got = NoProfile /\ c.next = <<m>> /\ c.ans = None
      /\ c.pc = "profile" /\ c.at = run[r].at /\ c.id = run[r].id /\ c.here = run[r].here
  <2>1. PICK d : d = run[r]
    OBVIOUS
  <2>2. <<m>> \in NextMetas /\ NoProfile \in SomeProfiles
    BY <1>8 DEF NextMetas, NoProfile, SomeProfiles
  <2>3. QED
    BY <1>2, <1>3, <2>1, <2>2 DEF RunStates
<1>10. run'[r] = c /\ \A q \in Runs : q # r => run'[q] = run[q]
  BY <1>3, <1>5 DEF ClientTyped
<1>11. Grows /\ ServerTyped' /\ session' \in SUBSET Servers /\ session \subseteq session'
  BY <1>3, <1>5, <1>6, <1>7, SameServerGrows
<1>12. Backed(m)'
  <2>1. Backed(m)
    BY <1>3, <1>8 DEF RunStands, Backed
  <2>2. QED
    BY <1>3, <1>8, <1>11, <2>1, MetaStays
<1>13. RunStands(r)'
  <2>1. Backed(NoProfile)'
    BY <1>11, NothingIsBackedThen
  <2>2. run'[r].got = NoProfile /\ run'[r].next[1] = m /\ run'[r].next # <<>>
    <3>1. run'[r].got = NoProfile /\ run'[r].next = <<m>>
      BY <1>9, <1>10
    <3>2. <<m>>[1] = m /\ <<m>> # <<>>
      OBVIOUS
    <3>3. QED
      BY <3>1, <3>2
  <2>3. Backed(run[r].got)' /\ Backed(run[r].next[1])'
    BY <1>12, <2>1, <2>2 DEF Backed
  <2>4. /\ member'[run'[r].at] # "none" /\ row'[run'[r].at].known /\ row'[run'[r].at].bound
        /\ run'[r].at \in session'
    BY <1>5, <1>7, <1>9, <1>10, <1>11 DEF Grows
  <2>5. QED
    BY <1>7, <1>9, <1>10, <2>2, <2>3, <2>4 DEF RunStands
<1>14. /\ f \in FormStates /\ f.probing = form.probing /\ f.info = form.info /\ f.at = form.at
       /\ f.step = form.step
  BY <1>3, <1>4 DEF FormStates
<1>15. form' \in FormStates /\ (run[r].here => form' = f) /\ (~run[r].here => form' = form)
  BY <1>3, <1>5, <1>14, SetsTyped
<1>16. (\A q \in Runs : FormIsOf(q)') /\ FormStands'
  <2>1. CASE run[r].here
    <3>1. IsBusy(r)
      BY <1>6, <2>1 DEF IsBusy
    <3>2. \A q \in Runs : q # r => ~IsBusy(q)
      BY <3>1, NobodyElseIsBusy
    <3>3. FormIsOf(r)'
      BY <1>9, <1>10 DEF FormIsOf
    <3>4. form'.step = "code" =>
            /\ form'.at \in Servers /\ ~form'.probing
            /\ form'.info # <<>> => form'.info[1].id = form'.at
      BY <1>3, <1>14, <1>15, <2>1 DEF FormStands
    <3>5. QED
      BY <1>10, <3>2, <3>3, <3>4, FormOfOne
  <2>2. CASE ~run[r].here
    BY <1>9, <1>10, <1>15, <2>2, FormOfOthers DEF IsBusy
  <2>3. QED
    BY <2>1, <2>2
<1>17. QED
  BY <1>5, <1>6, <1>9, <1>11, <1>13, <1>15, <1>16, HandlerKeeps

(* What a handler saves is what it has been told.                          *)
LEMMA SavedIs ==
  ASSUME AddInv, NEW r \in Runs, run[r].pc \in {"profile", "first", "list"},
         meta' = run[r].next[1], UNCHANGED <<server, session>>
  PROVE  meta' \in SomeMetas /\ Backed(meta)' /\ Grows /\ ServerTyped' /\ RowsStand'
<1>1. ServerTyped /\ ClientTyped /\ run[r] \in RunStates /\ RunStands(r) /\ RowsStand
  BY DEF AddInv, ClientTyped
<1>2. PICK m : m = run[r].next[1]
  OBVIOUS
<1>3. run[r].next \in NextMetas /\ run[r].next # <<>> /\ Backed(m)
  BY <1>1, <1>2 DEF RunStands, RunStates, Backed
<1>4. m \in SomeMetas
  BY <1>2, <1>3, NextIsMeta DEF SomeMetas
<1>5. Grows /\ ServerTyped' /\ RowsStand'
  BY <1>1, SameServerGrows
<1>6. Backed(m)'
  BY <1>1, <1>3, <1>4, <1>5, MetaStays
<1>7. QED
  BY <1>2, <1>4, <1>5, <1>6 DEF Backed

LEMMA ProfileSavedKeeps ==
  ASSUME AddInv, NEW r \in Runs, ProfileSaved(r)
  PROVE  AddInv'
<1>1. ServerTyped /\ ClientTyped /\ run[r] \in RunStates /\ RunStands(r)
  BY DEF AddInv, ClientTyped
<1>2. /\ run[r].pc = "profile" /\ meta' = run[r].next[1]
      /\ UNCHANGED <<server, form, anchor, listed, session>>
  BY DEF ProfileSaved
<1>3. meta' \in SomeMetas /\ Backed(meta)' /\ Grows /\ ServerTyped'
  BY <1>2, SavedIs
<1>4. PICK m : m = FirstBound(meta')
  OBVIOUS
<1>5. PICK c : c = [run[r] EXCEPT !.pc = "first", !.next = <<m>>]
  OBVIOUS
<1>6. run' = [run EXCEPT ![r] = c]
  BY <1>1, <1>4, <1>5 DEF ProfileSaved, ClientTyped
<1>7. m \in SomeMetas /\ m.version = meta'.version /\ m.anchors = meta'.anchors
  BY <1>3, <1>4 DEF FirstBound, SomeMetas
<1>8. Backed(m)'
  BY <1>3, <1>7 DEF Backed
<1>9. /\ c \in RunStates /\ c.got = run[r].got /\ c.next = <<m>> /\ c.ans = run[r].ans
      /\ c.pc = "first" /\ c.at = run[r].at /\ c.id = run[r].id /\ c.here = run[r].here
  <2>1. PICK d : d = run[r]
    OBVIOUS
  <2>2. <<m>> \in NextMetas
    BY <1>7 DEF NextMetas
  <2>3. QED
    BY <1>1, <1>5, <2>1, <2>2 DEF RunStates
<1>10. run'[r] = c /\ \A q \in Runs : q # r => run'[q] = run[q]
  BY <1>1, <1>6 DEF ClientTyped
<1>11. Backed(run[r].got)' /\ Backed(run[r].next[1])' /\ run'[r].next # <<>>
  <2>1. PICK got : got = run[r].got
    OBVIOUS
  <2>2. got \in SomeProfiles /\ Backed(got)
    BY <1>1, <2>1 DEF RunStands, RunStates, Backed
  <2>3. Backed(got)'
    BY <1>1, <1>3, <2>2, BackedStays DEF SomeProfiles
  <2>4. run'[r].got = got /\ run'[r].next = <<m>>
    BY <1>9, <1>10, <2>1
  <2>5. <<m>>[1] = m /\ <<m>> # <<>>
    OBVIOUS
  <2>6. QED
    BY <1>8, <2>3, <2>4, <2>5 DEF Backed
<1>12. RunStands(r)'
  <2>1. /\ run[r].at \in Servers /\ member[run[r].at] # "none" /\ row[run[r].at].known
        /\ row[run[r].at].bound /\ run[r].at \in session /\ run[r].id \in {run[r].at, None}
    BY <1>1, <1>2 DEF RunStands
  <2>2. /\ member'[run'[r].at] # "none" /\ row'[run'[r].at].known /\ row'[run'[r].at].bound
        /\ run'[r].at \in session'
    BY <1>3, <1>9, <1>10, <2>1 DEF Grows
  <2>3. QED
    BY <1>9, <1>10, <1>11, <2>1, <2>2 DEF RunStands
<1>13. (\A q \in Runs : FormIsOf(q)') /\ FormStands'
  BY <1>2, <1>9, <1>10, FormOfOthers DEF IsBusy
<1>14. session' \in SUBSET Servers /\ session \subseteq session'
  BY <1>1, <1>2 DEF ClientTyped
<1>15. QED
  BY <1>2, <1>3, <1>6, <1>9, <1>12, <1>13, <1>14, HandlerKeeps

LEMMA ListSavedKeeps ==
  ASSUME AddInv, NEW r \in Runs, ListSaved(r)
  PROVE  AddInv'
<1>1. ServerTyped /\ ClientTyped
  BY DEF AddInv
<1>2. /\ run[r].pc = "list" /\ meta' = run[r].next[1] /\ run' = [run EXCEPT ![r] = Idle]
      /\ UNCHANGED <<server, form, anchor, listed, session>>
  BY DEF ListSaved
<1>3. meta' \in SomeMetas /\ Backed(meta)' /\ ServerTyped'
  BY <1>2, SavedIs
<1>4. run'[r] = Idle /\ \A q \in Runs : q # r => run'[q] = run[q]
  BY <1>1, <1>2 DEF ClientTyped
<1>5. RunStands(r)'
  BY <1>3, <1>4, IdleIs, BeginsStands
<1>6. (\A q \in Runs : FormIsOf(q)') /\ FormStands'
  BY <1>2, <1>4, IdleIs, FormOfOthers DEF IsBusy
<1>7. session' \in SUBSET Servers /\ session \subseteq session'
  BY <1>1, <1>2 DEF ClientTyped
<1>8. QED
  BY <1>2, <1>3, <1>5, <1>6, <1>7, IdleIs, HandlerKeeps

-----------------------------------------------------------------------------
(* The list                                                                *)

LEMMA RemoveAtIs ==
  ASSUME NEW S, NEW q \in Seq(S), NEW p \in 1..Len(q)
  PROVE  /\ RemoveAt(q, p) \in Seq(S) /\ Len(RemoveAt(q, p)) = Len(q) - 1
         /\ \A i \in 1..(Len(q) - 1) :
              RemoveAt(q, p)[i] = IF i < p THEN q[i] ELSE q[i + 1]
<1>1. Len(q) \in Nat /\ p \in Nat /\ p >= 1 /\ p <= Len(q)
  OBVIOUS
<1>2. PICK a : a = SubSeq(q, 1, p - 1)
  OBVIOUS
<1>3. PICK b : b = SubSeq(q, p + 1, Len(q))
  OBVIOUS
<1>4. /\ a \in Seq(S) /\ Len(a) = p - 1
      /\ \A i \in 1..(p - 1) : a[i] = q[i]
  BY <1>1, <1>2
<1>5. /\ b \in Seq(S) /\ Len(b) = Len(q) - p
      /\ \A i \in 1..(Len(q) - p) : b[i] = q[p + i]
  BY <1>1, <1>3
<1>6. RemoveAt(q, p) = a \o b
  BY <1>2, <1>3 DEF RemoveAt
<1>7. a \o b \in Seq(S) /\ Len(a \o b) = Len(q) - 1
  <2>1. a \in Seq(S) /\ b \in Seq(S)
    BY <1>4, <1>5
  <2>2. a \o b \in Seq(S)
    BY <2>1
  <2>3. Len(a \o b) = Len(a) + Len(b)
    BY <2>1
  <2>4. (p - 1) + (Len(q) - p) = Len(q) - 1
    BY <1>1
  <2>5. QED
    BY <1>4, <1>5, <2>2, <2>3, <2>4
<1>8. ASSUME NEW i \in 1..(Len(q) - 1) PROVE (a \o b)[i] = IF i < p THEN q[i] ELSE q[i + 1]
  <2>1. CASE i < p
    <3>1. i \in 1..Len(a) /\ i \in 1..(p - 1)
      BY <1>1, <1>4, <2>1
    <3>2. (a \o b)[i] = a[i]
      BY <1>4, <1>5, <3>1
    <3>3. QED
      BY <1>4, <2>1, <3>1, <3>2
  <2>2. CASE ~(i < p)
    <3>1. i \in (Len(a) + 1)..(Len(a) + Len(b)) /\ i - Len(a) = i - p + 1
          /\ i - p + 1 \in 1..(Len(q) - p) /\ p + (i - p + 1) = i + 1
      BY <1>1, <1>4, <1>5, <2>2
    <3>2. (a \o b)[i] = b[i - Len(a)]
      BY <1>4, <1>5, <3>1
    <3>3. b[i - p + 1] = q[i + 1]
      BY <1>5, <3>1
    <3>4. QED
      BY <2>2, <3>1, <3>2, <3>3
  <2>3. QED
    BY <2>1, <2>2
<1>9. QED
  BY <1>6, <1>7, <1>8

(* The list without a server: all the others, each once.                   *)
LEMMA BesidesIs ==
  ASSUME listed \in Seq(Entries), ListedOnce, NEW s \in Servers, NEW b, b = Besides(s)
  PROVE  /\ b \in Seq(Entries)
         /\ \A i \in DOMAIN b : b[i].at # s /\ \E k \in DOMAIN listed : b[i] = listed[k]
         /\ \A i, k \in DOMAIN b : b[i].at = b[k].at => i = k
<1>1. CASE Places(s) = {}
  BY <1>1 DEF Besides, Places, ListedOnce
<1>2. CASE Places(s) # {}
  <2>1. PICK p : p = CHOOSE i \in Places(s) : TRUE
    OBVIOUS
  <2>2. p \in DOMAIN listed /\ listed[p].at = s /\ b = RemoveAt(listed, p)
    BY <1>2, <2>1 DEF Besides, Places
  <2>3. PICK n : n = Len(listed)
    OBVIOUS
  <2>4. n \in Nat /\ DOMAIN listed = 1..n /\ p \in 1..n
    BY <2>2, <2>3
  <2>5. /\ b \in Seq(Entries) /\ Len(b) = n - 1
        /\ \A i \in 1..(n - 1) : b[i] = IF i < p THEN listed[i] ELSE listed[i + 1]
    BY <2>2, <2>3, <2>4, RemoveAtIs
  <2>6. DOMAIN b = 1..(n - 1)
    BY <2>5
  <2>7. \A i \in 1..(n - 1) : \E k \in 1..n : /\ k = IF i < p THEN i ELSE i + 1
                                              /\ k # p /\ b[i] = listed[k]
    BY <2>4, <2>5
  <2>8. \A i \in DOMAIN b : b[i].at # s /\ \E k \in DOMAIN listed : b[i] = listed[k]
    BY <2>2, <2>4, <2>6, <2>7 DEF ListedOnce
  <2>9. ASSUME NEW i \in DOMAIN b, NEW k \in DOMAIN b, b[i].at = b[k].at PROVE i = k
    <3>1. PICK j \in 1..n : j = (IF i < p THEN i ELSE i + 1) /\ j # p /\ b[i] = listed[j]
      BY <2>6, <2>7
    <3>2. PICK l \in 1..n : l = (IF k < p THEN k ELSE k + 1) /\ l # p /\ b[k] = listed[l]
      BY <2>6, <2>7
    <3>3. j = l
      BY <2>4, <2>9, <3>1, <3>2 DEF ListedOnce
    <3>4. i \in Nat /\ k \in Nat
      BY <2>4, <2>6
    <3>5. QED
      BY <2>4, <3>1, <3>2, <3>3, <3>4
  <2>10. QED
    BY <2>5, <2>8, <2>9
<1>3. QED
  BY <1>1, <1>2

LEMMA ListGrows ==
  ASSUME listed \in Seq(Entries), ListedIsJoined, ListedOnce,
         NEW s \in Servers, NEW id \in {s, None}, listed' = Listed(s, id),
         UNCHANGED <<member, row, session>>, member[s] # "none", row[s].bound, s \in session
  PROVE  listed' \in Seq(Entries) /\ ListedIsJoined' /\ ListedOnce'
<1>1. PICK b : b = Besides(s)
  OBVIOUS
<1>2. /\ b \in Seq(Entries)
      /\ \A i \in DOMAIN b : b[i].at # s /\ \E k \in DOMAIN listed : b[i] = listed[k]
      /\ \A i, k \in DOMAIN b : b[i].at = b[k].at => i = k
  BY <1>1, BesidesIs
<1>3. PICK e : e = [at |-> s, id |-> id]
  OBVIOUS
<1>4. e \in Entries /\ e.at = s /\ e.id = id
  BY <1>3 DEF Entries, MaybeServers
<1>5. PICK n : n = Len(b)
  OBVIOUS
<1>6. n \in Nat /\ DOMAIN b = 1..n
  BY <1>2, <1>5
<1>7. listed' = Append(b, e)
  BY <1>1, <1>3 DEF Listed
<1>8. listed' \in Seq(Entries) /\ DOMAIN listed' = 1..(n + 1)
  BY <1>2, <1>4, <1>5, <1>7
<1>9. listed'[n + 1] = e /\ \A i \in 1..n : listed'[i] = b[i]
  BY <1>2, <1>4, <1>5, <1>7
<1>10. \A i \in 1..(n + 1) : i = n + 1 \/ i \in 1..n
  BY <1>6
<1>11. ListedIsJoined'
  <2>1. ASSUME NEW i \in DOMAIN listed'
        PROVE  /\ member[listed'[i].at] # "none" /\ row[listed'[i].at].bound
               /\ listed'[i].at \in session /\ listed'[i].id \in {listed'[i].at, None}
    <3>1. CASE i = n + 1
      BY <1>4, <1>9, <3>1
    <3>2. CASE i \in 1..n
      <4>1. PICK k \in DOMAIN listed : listed'[i] = listed[k]
        BY <1>2, <1>6, <1>9, <3>2
      <4>2. QED
        BY <4>1 DEF ListedIsJoined
    <3>3. QED
      BY <1>8, <1>10, <3>1, <3>2
  <2>2. QED
    BY <2>1 DEF ListedIsJoined
<1>12. ListedOnce'
  <2>1. ASSUME NEW i \in 1..(n + 1), NEW k \in 1..(n + 1), listed'[i].at = listed'[k].at
        PROVE  i = k
    <3>1. CASE i = n + 1 /\ k = n + 1
      BY <3>1
    <3>2. CASE i = n + 1 /\ k \in 1..n
      BY <1>2, <1>4, <1>6, <1>9, <2>1, <3>2
    <3>3. CASE i \in 1..n /\ k = n + 1
      BY <1>2, <1>4, <1>6, <1>9, <2>1, <3>3
    <3>4. CASE i \in 1..n /\ k \in 1..n
      BY <1>2, <1>6, <1>9, <2>1, <3>4
    <3>5. QED
      BY <1>10, <3>1, <3>2, <3>3, <3>4
  <2>2. QED
    BY <1>8, <2>1 DEF ListedOnce
<1>13. QED
  BY <1>8, <1>11, <1>12

LEMMA FirstSavedKeeps ==
  ASSUME AddInv, NEW r \in Runs, FirstSaved(r)
  PROVE  AddInv'
<1>1. ServerTyped /\ ClientTyped /\ RunStands(r) /\ ListedIsJoined /\ ListedOnce
  BY DEF AddInv
<1>2. /\ run[r].pc = "first" /\ meta' = run[r].next[1]
      /\ listed' = Listed(run[r].at, run[r].id)
      /\ UNCHANGED <<server, anchor, session>>
  BY DEF FirstSaved
<1>3. meta' \in SomeMetas /\ Backed(meta)' /\ Grows /\ ServerTyped' /\ RowsStand'
  BY <1>2, SavedIs
<1>4. PICK c : c = [Idle EXCEPT !.pc = "list", !.next = <<meta'>>]
  OBVIOUS
<1>5. <<meta'>> \in NextMetas /\ <<meta'>> # <<>> /\ <<meta'>>[1] = meta'
  BY <1>3 DEF NextMetas
<1>6. /\ c \in RunStates /\ c.pc = "list" /\ c.got = NoProfile /\ c.next = <<meta'>> /\ ~c.here
  BY <1>4, <1>5, IdleIs DEF Idle, RunStates
<1>7. AnchorStands'
  BY <1>1, <1>2, <1>3, AnchorStays DEF AddInv
<1>8. /\ run[r].at \in Servers /\ member[run[r].at] # "none" /\ row[run[r].at].bound
      /\ run[r].at \in session /\ run[r].id \in {run[r].at, None}
  BY <1>1, <1>2 DEF RunStands
<1>9. listed' \in Seq(Entries) /\ ListedIsJoined' /\ ListedOnce'
  <2>1. listed \in Seq(Entries) /\ UNCHANGED <<member, row, session>>
    BY <1>1, <1>2 DEF ClientTyped, server
  <2>2. QED
    BY <1>1, <1>2, <1>8, <2>1, ListGrows
<1>10. ASSUME run'[r] = c PROVE RunStands(r)'
  <2>1. Backed(NoProfile)'
    BY <1>3, NothingIsBackedThen
  <2>2. run'[r].got = NoProfile /\ run'[r].next[1] = meta' /\ run'[r].next # <<>>
    BY <1>5, <1>6, <1>10
  <2>3. Backed(run[r].got)' /\ Backed(run[r].next[1])'
    BY <1>3, <2>1, <2>2 DEF Backed
  <2>4. QED
    BY <1>6, <1>10, <2>2, <2>3 DEF RunStands
<1>11. /\ run' \in [Runs -> RunStates] /\ form' \in FormStates
       /\ \A q \in Runs : RunStands(q)' /\ FormIsOf(q)'
       /\ FormStands'
  <2>1. CASE run' = [Unmounted(run) EXCEPT ![r] = c] /\ form' = FreshForm
    <3>1. PICK u : u = Unmounted(run)
      OBVIOUS
    <3>2. /\ u \in [Runs -> RunStates]
          /\ \A q \in Runs : /\ u[q].pc = run[q].pc /\ u[q].kind = run[q].kind
                             /\ u[q].at = run[q].at /\ u[q].token = run[q].token
                             /\ u[q].id = run[q].id /\ u[q].linked = run[q].linked
                             /\ u[q].ans = run[q].ans /\ u[q].got = run[q].got
                             /\ u[q].next = run[q].next /\ ~u[q].here
      <4>1. \A q \in Runs : run[q] \in RunStates /\ u[q] = [run[q] EXCEPT !.here = FALSE]
        BY <1>1, <3>1 DEF ClientTyped, Unmounted
      <4>2. \A d \in RunStates : [d EXCEPT !.here = FALSE] \in RunStates
        BY DEF RunStates
      <4>3. u \in [Runs -> RunStates]
        BY <3>1, <4>1, <4>2 DEF Unmounted
      <4>4. QED
        BY <4>1, <4>3 DEF RunStates
    <3>3. /\ run' \in [Runs -> RunStates] /\ run'[r] = c
          /\ \A q \in Runs : q # r => run'[q] = u[q]
      BY <1>6, <2>1, <3>1, <3>2
    <3>4. \A q \in Runs : ~run'[q].here
      BY <1>6, <3>2, <3>3
    <3>5. \A q \in Runs : q # r => Carried(q)
      BY <3>2, <3>3 DEF Carried
    <3>6. \A q \in Runs : q # r => RunStands(q)'
      BY <1>1, <1>3, <3>5, RunStays DEF AddInv
    <3>7. (\A q \in Runs : FormIsOf(q)') /\ FormStands'
      BY <2>1, <3>4, FreshFormStands DEF AddInv
    <3>8. form' \in FormStates
      BY <2>1 DEF FreshForm, FormStates, MaybeServers
    <3>9. QED
      BY <1>10, <3>3, <3>6, <3>7, <3>8
  <2>2. CASE run' = [run EXCEPT ![r] = c] /\ UNCHANGED form
    <3>1. /\ run' \in [Runs -> RunStates] /\ run'[r] = c
          /\ \A q \in Runs : q # r => run'[q] = run[q]
      BY <1>1, <1>6, <2>2 DEF ClientTyped
    <3>2. \A q \in Runs : q # r => Carried(q)
      BY <3>1 DEF Carried
    <3>3. \A q \in Runs : q # r => RunStands(q)'
      BY <1>1, <1>3, <3>2, RunStays DEF AddInv
    <3>4. (\A q \in Runs : FormIsOf(q)') /\ FormStands'
      BY <1>6, <2>2, <3>1, FormOfOthers DEF IsBusy
    <3>5. QED
      BY <1>1, <1>10, <2>2, <3>1, <3>3, <3>4 DEF ClientTyped
  <2>3. QED
    BY <1>4, <2>1, <2>2 DEF FirstSaved
<1>12. ClientTyped'
  BY <1>1, <1>2, <1>3, <1>9, <1>11 DEF ClientTyped
<1>13. QED
  BY <1>3, <1>7, <1>9, <1>11, <1>12 DEF AddInv

-----------------------------------------------------------------------------
(* The server                                                              *)

LEMMA HostsTyped ==
  ASSUME NEW A \in SUBSET AnchorForms
  PROVE  Hosts(A) \subseteq Servers
  BY DEF Hosts, AnchorForms

LEMMA HostsWith ==
  ASSUME NEW A, NEW a
  PROVE  Hosts(A \cup {a}) = Hosts(A) \cup {a.host}
  BY DEF Hosts

(* A step of a server in which one handler takes part.                     *)
LEMMA ServerKeeps ==
  ASSUME AddInv, ServerTyped', Grows, RowsStand', NEW r \in Runs, NEW c \in RunStates,
         run' = [run EXCEPT ![r] = c], RunStands(r)',
         run[r].pc \in {"ask", "bind"}, c.pc = run[r].pc, c.here = run[r].here,
         c.linked = run[r].linked, c.at = run[r].at,
         UNCHANGED <<form, anchor, meta, listed, session>>
  PROVE  AddInv'
<1>1. ServerTyped /\ ClientTyped
  BY DEF AddInv
<1>2. /\ run' \in [Runs -> RunStates] /\ run'[r] = c
      /\ \A q \in Runs : q # r => run'[q] = run[q]
  BY <1>1 DEF ClientTyped
<1>3. ClientTyped'
  BY <1>1, <1>2 DEF ClientTyped
<1>4. (\A q \in Runs : FormIsOf(q)') /\ FormStands'
  BY <1>2, FormGoesOn
<1>5. /\ \A q \in Runs : RunStands(q)'
      /\ AnchorStands' /\ ListedIsJoined' /\ ListedOnce'
  BY <1>2, OneRun
<1>6. Backed(meta)'
  BY <1>1, MetaKept DEF AddInv
<1>7. QED
  BY <1>3, <1>4, <1>5, <1>6 DEF AddInv

LEMMA TokenTakenKeeps ==
  ASSUME AddInv, NEW r \in Runs, TokenTaken(r)
  PROVE  AddInv'
<1>1. PICK s : s = run[r].at
  OBVIOUS
<1>2. PICK c : c = [run[r] EXCEPT !.ans = "done"]
  OBVIOUS
<1>3. ServerTyped /\ ClientTyped /\ RowsStand /\ run[r] \in RunStates /\ RunStands(r)
  BY DEF AddInv, ClientTyped
<1>4. PICK t : t = run[r].token[1]
  OBVIOUS
<1>5. run[r].pc = "ask" /\ t.at = s /\ UNCHANGED <<jobs, dropped, form, anchor, meta, listed, session>>
  BY <1>1, <1>4 DEF TokenTaken, IsAccepted
<1>6. s \in Servers /\ t \in Tokens
  BY <1>1, <1>3, <1>4, <1>5 DEF RunStands, RunStates, SomeToken
<1>7. /\ used' = used \cup {t} /\ run' = [run EXCEPT ![r] = c]
      /\ member' = [member EXCEPT ![s] = Joined(run[r].kind, @)]
      /\ row' = [row EXCEPT ![s].known = TRUE]
  BY <1>2, <1>3, <1>4, <1>5 DEF TokenTaken, ClientTyped
<1>8. /\ row' \in [Servers -> RowStates] /\ row'[s].known
      /\ \A q \in Servers : /\ row'[q].bound = row[q].bound /\ row'[q].version = row[q].version
                            /\ row'[q].anchors = row[q].anchors
                            /\ row[q].known => row'[q].known
                            /\ row[q].version <= row'[q].version
  <2>1. \A q \in Servers : row[q] \in RowStates
    BY <1>3 DEF ServerTyped
  <2>2. PICK w : w = [row[s] EXCEPT !.known = TRUE]
    OBVIOUS
  <2>3. /\ w \in RowStates /\ w.known /\ w.bound = row[s].bound /\ w.version = row[s].version
        /\ w.anchors = row[s].anchors
    BY <1>6, <2>1, <2>2 DEF RowStates
  <2>4. row' = [row EXCEPT ![s] = w]
    BY <1>3, <1>6, <1>7, <2>2 DEF ServerTyped
  <2>5. row' \in [Servers -> RowStates] /\ row'[s] = w /\ \A q \in Servers : q # s => row'[q] = row[q]
    BY <1>3, <1>6, <2>3, <2>4 DEF ServerTyped
  <2>6. \A q \in Servers : row[q].version \in Nat /\ row[q].version <= row[q].version
    BY <2>1 DEF RowStates
  <2>7. QED
    BY <2>3, <2>5, <2>6
<1>9. /\ member' \in [Servers -> {"none", "guest", "member"}] /\ member'[s] # "none"
      /\ \A q \in Servers : member[q] # "none" => member'[q] # "none"
  BY <1>3, <1>6, <1>7 DEF ServerTyped, Joined
<1>10. ServerTyped'
  BY <1>3, <1>5, <1>6, <1>7, <1>8, <1>9 DEF ServerTyped
<1>11. Grows
  <2>1. \A h \in Servers : Serves(h) => Serves(h)'
    BY <1>5, <1>8 DEF Serves
  <2>2. QED
    BY <1>5, <1>8, <1>9, <2>1 DEF Grows
<1>12. RowsStand'
  <2>1. \A q \in Servers : Hosts(row[q].anchors) \subseteq Servers
    BY <1>3, HostsTyped DEF ServerTyped, RowStates
  <2>2. \A q \in Servers : \A h \in Hosts(row'[q].anchors) : Serves(h)'
    BY <1>3, <1>8, <1>11, <2>1 DEF RowsStand, Grows
  <2>3. \A j \in DOMAIN jobs : j.at \in Servers
    BY <1>3 DEF ServerTyped, Jobs
  <2>4. QED
    BY <1>3, <1>5, <1>8, <2>2, <2>3 DEF RowsStand
<1>13. /\ c \in RunStates /\ c.pc = "ask" /\ c.kind = run[r].kind /\ c.at = s
       /\ c.token = run[r].token /\ c.id = run[r].id /\ c.here = run[r].here
       /\ c.linked = run[r].linked /\ c.got = run[r].got /\ c.next = run[r].next
  BY <1>1, <1>2, <1>3, <1>5 DEF RunStates
<1>14. run'[r] = c
  BY <1>3, <1>7 DEF ClientTyped
<1>15. RunStands(r)'
  <2>1. Backed(run[r].got)' /\ (run'[r].next # <<>> => Backed(run[r].next[1])')
    BY <1>10, <1>11, <1>13, <1>14, GotStays
  <2>2. /\ c.token # <<>> /\ c.kind \in Kinds /\ c.id \in {s, None}
    BY <1>1, <1>3, <1>5, <1>13 DEF RunStands
  <2>3. QED
    BY <1>6, <1>8, <1>9, <1>13, <1>14, <2>1, <2>2 DEF RunStands
<1>16. QED
  BY <1>1, <1>5, <1>7, <1>10, <1>11, <1>12, <1>13, <1>15, ServerKeeps

LEMMA DeviceBoundKeeps ==
  ASSUME AddInv, NEW r \in Runs, DeviceBound(r)
  PROVE  AddInv'
<1>1. PICK s : s = run[r].at
  OBVIOUS
<1>2. PICK got : got = [version |-> row'[s].version, anchors |-> Hosts(row'[s].anchors)]
  OBVIOUS
<1>3. PICK c : c = [run[r] EXCEPT !.ans = "done", !.got = got]
  OBVIOUS
<1>4. ServerTyped /\ ClientTyped /\ RowsStand /\ run[r] \in RunStates /\ RunStands(r)
  BY DEF AddInv, ClientTyped
<1>5. /\ run[r].pc = "bind"
      /\ UNCHANGED <<used, member, jobs, dropped, form, anchor, meta, listed, session>>
  BY DEF DeviceBound
<1>6. /\ s \in Servers /\ member[s] # "none" /\ row[s].known /\ run[r].id \in {s, None}
  BY <1>1, <1>4, <1>5 DEF RunStands
<1>7. row' = [row EXCEPT ![s] = BoundRow(s)] /\ run' = [run EXCEPT ![r] = c]
  BY <1>1, <1>2, <1>3, <1>4 DEF DeviceBound, ClientTyped
<1>8. /\ BoundRow(s) \in RowStates /\ BoundRow(s).bound /\ BoundRow(s).known = row[s].known
      /\ BoundRow(s).anchors = row[s].anchors \cup {Url(s)}
      /\ row[s].version <= BoundRow(s).version
  <2>1. PICK w : w = row[s]
    OBVIOUS
  <2>2. w \in RowStates
    BY <1>4, <1>6, <2>1 DEF ServerTyped
  <2>3. Url(s) \in AnchorForms
    BY <1>6 DEF Url, AnchorForms
  <2>4. BoundRow(s) = [w EXCEPT !.bound = TRUE, !.anchors = w.anchors \cup {Url(s)},
                                !.version = IF w.bound THEN w.version ELSE w.version + 1]
    BY <2>1, <2>2 DEF BoundRow, RowStates
  <2>5. PICK v : v = IF w.bound THEN w.version ELSE w.version + 1
    OBVIOUS
  <2>6. PICK A : A = w.anchors \cup {Url(s)}
    OBVIOUS
  <2>7. v \in Nat /\ w.version <= v /\ A \in SUBSET AnchorForms
    BY <2>2, <2>3, <2>5, <2>6 DEF RowStates
  <2>8. BoundRow(s) = [w EXCEPT !.bound = TRUE, !.anchors = A, !.version = v]
    BY <2>4, <2>5, <2>6
  <2>9. QED
    BY <2>1, <2>2, <2>6, <2>7, <2>8 DEF RowStates
<1>9. /\ row' \in [Servers -> RowStates] /\ row'[s] = BoundRow(s)
      /\ \A q \in Servers : q # s => row'[q] = row[q]
  BY <1>4, <1>6, <1>7, <1>8 DEF ServerTyped
<1>10. ServerTyped'
  BY <1>4, <1>5, <1>9 DEF ServerTyped
<1>11. Grows
  <2>1. \A q \in Servers : row[q].known => row'[q].known
    BY <1>8, <1>9
  <2>2. \A h \in Servers : Serves(h) => Serves(h)'
    BY <1>5, <2>1 DEF Serves
  <2>3. \A q \in Servers : row[q].version <= row'[q].version
    BY <1>4, <1>8, <1>9 DEF ServerTyped, RowStates
  <2>4. QED
    BY <1>5, <1>8, <1>9, <2>1, <2>2, <2>3 DEF Grows
<1>12. Serves(s)'
  BY <1>6, <1>8, <1>9 DEF Serves
<1>13. \A q \in Servers : Hosts(row[q].anchors) \subseteq Servers
  BY <1>4, HostsTyped DEF ServerTyped, RowStates
<1>14. Hosts(row'[s].anchors) = Hosts(row[s].anchors) \cup {s}
  <2>1. Url(s).host = s
    BY DEF Url
  <2>2. Hosts(row[s].anchors \cup {Url(s)}) = Hosts(row[s].anchors) \cup {Url(s).host}
    BY HostsWith
  <2>3. QED
    BY <1>8, <1>9, <2>1, <2>2
<1>15. \A q \in Servers : \A h \in Hosts(row'[q].anchors) : Serves(h)'
  <2>1. \A q \in Servers : \A h \in Hosts(row[q].anchors) : Serves(h)'
    BY <1>4, <1>11, <1>13 DEF RowsStand, Grows
  <2>2. QED
    BY <1>9, <1>12, <1>14, <2>1
<1>16. RowsStand'
  <2>1. \A j \in DOMAIN jobs : j.at \in Servers
    BY <1>4 DEF ServerTyped, Jobs
  <2>2. \A q \in Servers : row'[q].bound => row'[q].known
    BY <1>4, <1>6, <1>8, <1>9 DEF RowsStand
  <2>3. QED
    BY <1>4, <1>5, <1>11, <1>15, <2>1, <2>2 DEF RowsStand, Grows
<1>17. got \in SomeProfiles /\ Backed(got)'
  <2>1. row'[s].version \in Nat /\ Hosts(row'[s].anchors) \subseteq Servers
    BY <1>6, <1>9, <1>13, <1>14 DEF RowStates
  <2>2. got.version = row'[s].version /\ got.anchors = Hosts(row'[s].anchors)
    BY <1>2
  <2>3. row'[s].version >= got.version
    BY <2>1, <2>2
  <2>4. QED
    BY <1>2, <1>6, <1>15, <2>1, <2>2, <2>3 DEF SomeProfiles, Backed
<1>18. /\ c \in RunStates /\ c.pc = "bind" /\ c.at = s /\ c.id = run[r].id
       /\ c.here = run[r].here /\ c.linked = run[r].linked /\ c.got = got
       /\ c.next = run[r].next /\ c.ans = "done"
  <2>1. PICK d : d = run[r]
    OBVIOUS
  <2>2. QED
    BY <1>1, <1>3, <1>4, <1>5, <1>17, <2>1 DEF RunStates
<1>19. run'[r] = c
  BY <1>4, <1>7 DEF ClientTyped
<1>20. run'[r].next # <<>> => Backed(run[r].next[1])'
  <2>1. PICK next : next = run[r].next
    OBVIOUS
  <2>2. next \in NextMetas /\ (next # <<>> => Backed(next[1]))
    BY <1>4, <2>1 DEF RunStands, RunStates, Backed
  <2>3. ASSUME next # <<>> PROVE Backed(next[1])'
    <3>1. next[1] \in SomeMetas
      BY <2>2, <2>3, NextIsMeta DEF SomeMetas
    <3>2. QED
      BY <1>4, <1>10, <1>11, <2>2, <2>3, <3>1, MetaStays
  <2>4. run'[r].next = next
    BY <1>18, <1>19, <2>1
  <2>5. QED
    BY <2>3, <2>4 DEF Backed
<1>21. RunStands(r)'
  <2>1. Backed(run[r].got)'
    BY <1>17, <1>18, <1>19 DEF Backed
  <2>2. member'[s] # "none" /\ row'[s].known /\ row'[s].bound
    BY <1>5, <1>6, <1>8, <1>9
  <2>3. QED
    BY <1>6, <1>18, <1>19, <1>20, <2>1, <2>2 DEF RunStands
<1>22. QED
  BY <1>1, <1>5, <1>7, <1>10, <1>11, <1>16, <1>18, <1>21, ServerKeeps

-----------------------------------------------------------------------------
(* The anchor, its adoption, and the others                                *)

(* A step in which no handler of the form takes part.                      *)
LEMMA NoHandlerKeeps ==
  ASSUME AddInv, ServerTyped', Grows, RowsStand', UNCHANGED <<form, run, meta, listed, session>>,
         anchor' \in AnchorStates, AnchorStands'
  PROVE  AddInv'
<1>1. ServerTyped /\ ClientTyped
  BY DEF AddInv
<1>2. ClientTyped'
  BY <1>1 DEF ClientTyped, AnchorStates
<1>3. \A r \in Runs : Carried(r)
  BY DEF Carried
<1>4. (\A r \in Runs : RunStands(r)' /\ FormIsOf(r)') /\ FormStands'
  BY <1>1, <1>3, RunsStay DEF AddInv
<1>5. ListedIsJoined' /\ ListedOnce' /\ Backed(meta)'
  BY <1>1, ListStays, MetaKept DEF AddInv
<1>6. QED
  BY <1>2, <1>4, <1>5 DEF AddInv

LEMMA TakenByOtherKeeps ==
  ASSUME AddInv, NEW t \in Tokens, TakenByOther(t)
  PROVE  AddInv'
<1>1. ServerTyped /\ ClientTyped /\ RowsStand /\ AnchorStands
  BY DEF AddInv
<1>2. /\ used' = used \cup {t}
      /\ UNCHANGED <<member, row, jobs, dropped, form, run, anchor, meta, listed, session>>
  BY DEF TakenByOther, client
<1>3. ServerTyped'
  BY <1>1, <1>2 DEF ServerTyped
<1>4. \A h \in Servers : Serves(h) => Serves(h)'
  BY <1>2 DEF Serves
<1>5. \A s \in Servers : row[s].version <= row'[s].version
  BY <1>1, <1>2 DEF ServerTyped, RowStates
<1>6. Grows
  BY <1>2, <1>4, <1>5 DEF Grows
<1>7. RowsStand'
  BY <1>1, <1>2 DEF RowsStand, Serves
<1>8. AnchorStands' /\ anchor' \in AnchorStates
  BY <1>1, <1>2, <1>3, <1>6, AnchorStays DEF ClientTyped, AnchorStates
<1>9. QED
  BY <1>2, <1>3, <1>6, <1>7, <1>8, NoHandlerKeeps

LEMMA NoAnchorIs ==
  /\ NoAnchor \in AnchorStates /\ NoAnchor.pc = "idle" /\ NoAnchor.got = NoProfile
  /\ NoAnchor.next = <<>>
  BY DEF NoAnchor, AnchorStates, MaybeServers, NoProfile, SomeProfiles, NextMetas

LEMMA SubmitAnchorKeeps ==
  ASSUME AddInv, NEW h \in Servers, SubmitAnchor(h)
  PROVE  AddInv'
<1>1. ServerTyped /\ ClientTyped /\ RowsStand /\ ListedIsJoined /\ meta \in SomeMetas
  BY DEF AddInv, ClientTyped
<1>2. PICK s : s = listed[1].at
  OBVIOUS
<1>3. PICK p : p = Signed(h)
  OBVIOUS
<1>4. /\ listed # <<>> /\ UNCHANGED <<server, form, run, meta, listed, session>>
      /\ anchor' = [NoAnchor EXCEPT !.pc = "ask", !.at = s, !.new = h, !.signed = p]
  BY <1>2, <1>3 DEF SubmitAnchor
<1>5. 1 \in DOMAIN listed
  <2>1. listed \in Seq(Entries)
    BY <1>1 DEF ClientTyped
  <2>2. QED
    BY <1>4, <2>1
<1>6. s \in Servers
  <2>1. listed[1] \in Entries
    BY <1>1, <1>5, ElementOf DEF ClientTyped
  <2>2. QED
    BY <1>2, <2>1 DEF Entries
<1>7. row[s].known
  BY <1>1, <1>2, <1>5, <1>6 DEF ListedIsJoined, RowsStand
<1>8. p \in SomeProfiles
  BY <1>1, <1>2, <1>3, <1>6 DEF Signed, SomeMetas, SomeProfiles
<1>9. Grows /\ ServerTyped' /\ RowsStand'
  BY <1>1, <1>4, SameServerGrows
<1>10. /\ anchor' \in AnchorStates /\ anchor'.pc = "ask" /\ anchor'.at = s /\ anchor'.new = h
       /\ anchor'.got = NoProfile /\ anchor'.next = <<>>
  BY <1>4, <1>6, <1>8, NoAnchorIs DEF NoAnchor, AnchorStates, MaybeServers
<1>11. AnchorStands'
  <2>1. Backed(NoProfile)'
    BY <1>9, NothingIsBackedThen
  <2>2. Backed(anchor.got)'
    BY <1>10, <2>1 DEF Backed
  <2>3. row'[s].known
    BY <1>4, <1>7 DEF server
  <2>4. QED
    BY <1>6, <1>10, <2>2, <2>3 DEF AnchorStands
<1>12. QED
  BY <1>4, <1>9, <1>10, <1>11, NoHandlerKeeps

LEMMA AnchorFailsKeeps ==
  ASSUME AddInv, AnchorFails
  PROVE  AddInv'
<1>1. ServerTyped /\ RowsStand
  BY DEF AddInv
<1>2. anchor' = NoAnchor /\ UNCHANGED <<server, form, run, meta, listed, session>>
  BY DEF AnchorFails
<1>3. Grows /\ ServerTyped' /\ RowsStand'
  BY <1>1, <1>2, SameServerGrows
<1>4. AnchorStands' /\ anchor' \in AnchorStates
  <2>1. Backed(NoProfile)'
    BY <1>3, NothingIsBackedThen
  <2>2. anchor'.got = NoProfile /\ anchor'.next = <<>> /\ anchor'.pc = "idle"
    BY <1>2, NoAnchorIs
  <2>3. Backed(anchor.got)'
    BY <2>1, <2>2 DEF Backed
  <2>4. QED
    BY <1>2, <2>2, <2>3, NoAnchorIs DEF AnchorStands
<1>5. QED
  BY <1>2, <1>3, <1>4, NoHandlerKeeps

LEMMA AnchorAnsweredKeeps ==
  ASSUME AddInv, AnchorAnswered
  PROVE  AddInv'
<1>1. ServerTyped /\ ClientTyped /\ RowsStand /\ AnchorStands /\ meta \in SomeMetas
      /\ anchor \in AnchorStates
  BY DEF AddInv, ClientTyped, AnchorStates
<1>2. PICK m : m = Recorded(meta, Published(anchor))
  OBVIOUS
<1>3. /\ anchor' = [NoAnchor EXCEPT !.pc = "profile", !.next = <<m>>]
      /\ UNCHANGED <<server, form, run, meta, listed, session>>
  BY <1>2 DEF AnchorAnswered
<1>4. Grows /\ ServerTyped' /\ RowsStand'
  BY <1>1, <1>3, SameServerGrows
<1>5. m \in SomeMetas /\ m.version = anchor.got.version /\ m.anchors = anchor.got.anchors
  BY <1>1, <1>2 DEF Recorded, Published, Stores, AnchorStates, SomeMetas, SomeProfiles
<1>6. Backed(m)'
  <2>1. Backed(m)
    BY <1>1, <1>5 DEF AnchorStands, Backed
  <2>2. QED
    BY <1>1, <1>4, <1>5, <2>1, MetaStays
<1>7. <<m>> \in NextMetas /\ <<m>> # <<>> /\ <<m>>[1] = m
  BY <1>5 DEF NextMetas
<1>8. /\ anchor' \in AnchorStates /\ anchor'.pc = "profile" /\ anchor'.got = NoProfile
      /\ anchor'.next = <<m>>
  BY <1>3, <1>7, NoAnchorIs DEF NoAnchor, AnchorStates
<1>9. AnchorStands'
  <2>1. Backed(NoProfile)'
    BY <1>4, NothingIsBackedThen
  <2>2. anchor'.next[1] = m /\ anchor'.next # <<>>
    BY <1>7, <1>8
  <2>3. Backed(anchor.got)' /\ Backed(anchor.next[1])'
    BY <1>6, <1>8, <2>1, <2>2 DEF Backed
  <2>4. QED
    BY <1>8, <2>2, <2>3 DEF AnchorStands
<1>10. QED
  BY <1>3, <1>4, <1>8, <1>9, NoHandlerKeeps

LEMMA AnchorSavedKeeps ==
  ASSUME AddInv, AnchorSaved
  PROVE  AddInv'
<1>1. ServerTyped /\ ClientTyped /\ RowsStand /\ AnchorStands /\ anchor \in AnchorStates
  BY DEF AddInv, ClientTyped, AnchorStates
<1>2. /\ anchor.pc = "profile" /\ meta' = anchor.next[1] /\ anchor' = NoAnchor
      /\ form' = FreshForm /\ run' = Unmounted(run) /\ UNCHANGED <<server, listed, session>>
  BY DEF AnchorSaved
<1>3. Grows /\ ServerTyped' /\ RowsStand'
  BY <1>1, <1>2, SameServerGrows
<1>4. PICK m : m = anchor.next[1]
  OBVIOUS
<1>5. anchor.next \in NextMetas /\ anchor.next # <<>> /\ Backed(m)
  BY <1>1, <1>2, <1>4 DEF AnchorStands, AnchorStates, Backed
<1>6. m \in SomeMetas
  BY <1>4, <1>5, NextIsMeta DEF SomeMetas
<1>7. Backed(m)'
  BY <1>1, <1>3, <1>5, <1>6, MetaStays
<1>8. meta' \in SomeMetas /\ Backed(meta)'
  BY <1>2, <1>4, <1>6, <1>7 DEF Backed
<1>9. run' \in [Runs -> RunStates] /\ \A r \in Runs : Carried(r) /\ ~run'[r].here
  BY <1>1, <1>2, UnmountedCarries
<1>10. \A r \in Runs : RunStands(r)'
  BY <1>1, <1>3, <1>9, RunStays DEF AddInv
<1>11. (\A r \in Runs : FormIsOf(r)') /\ FormStands'
  BY <1>2, <1>9, FreshFormStands DEF AddInv
<1>12. AnchorStands' /\ anchor' \in AnchorStates
  <2>1. Backed(NoProfile)'
    BY <1>3, NothingIsBackedThen
  <2>2. anchor'.got = NoProfile /\ anchor'.next = <<>> /\ anchor'.pc = "idle"
    BY <1>2, NoAnchorIs
  <2>3. Backed(anchor.got)'
    BY <2>1, <2>2 DEF Backed
  <2>4. QED
    BY <1>2, <2>2, <2>3, NoAnchorIs DEF AnchorStands
<1>13. form' \in FormStates
  BY <1>2 DEF FreshForm, FormStates, MaybeServers
<1>14. ClientTyped'
  BY <1>1, <1>2, <1>8, <1>9, <1>12, <1>13 DEF ClientTyped, AnchorStates
<1>15. ListedIsJoined' /\ ListedOnce'
  BY <1>1, <1>2, <1>3, ListStays DEF AddInv
<1>16. QED
  BY <1>3, <1>8, <1>10, <1>11, <1>12, <1>14, <1>15 DEF AddInv

LEMMA AnchorTakenKeeps ==
  ASSUME AddInv, AnchorTaken
  PROVE  AddInv'
<1>1. ServerTyped /\ ClientTyped /\ RowsStand /\ AnchorStands /\ anchor \in AnchorStates
  BY DEF AddInv, ClientTyped, AnchorStates
<1>2. PICK s, new, h : s = anchor.at /\ new = anchor.new /\ h = Host(new)
  OBVIOUS
<1>3. /\ anchor.pc = "ask"
      /\ UNCHANGED <<used, member, dropped, form, run, meta, listed, session>>
  BY DEF AnchorTaken
<1>4. s \in Servers /\ new \in Servers /\ row[s].known /\ h \in AnchorForms /\ h.host = new
  BY <1>1, <1>2, <1>3 DEF AnchorStands, Host, AnchorForms
<1>5. \A q \in Servers : row[q] \in RowStates /\ Hosts(row[q].anchors) \subseteq Servers
  BY <1>1, HostsTyped DEF ServerTyped, RowStates
<1>6. PICK got : got = anchor'.got
  OBVIOUS
<1>7. /\ ServerTyped' /\ Grows /\ RowsStand'
      /\ anchor' = [anchor EXCEPT !.ans = "done", !.got = got]
      /\ got \in SomeProfiles /\ got.version = row'[s].version
      /\ got.anchors = Hosts(row'[s].anchors)
  <2>1. CASE /\ h \in row[s].anchors /\ UNCHANGED <<row, ppe, jobs>>
             /\ anchor' = [anchor EXCEPT !.ans = "done",
                  !.got = [version |-> row[s].version, anchors |-> Hosts(row[s].anchors)]]
    <3>1. ServerTyped'
      BY <1>1, <1>3, <2>1 DEF ServerTyped
    <3>2. \A q \in Servers : Serves(q) => Serves(q)'
      BY <1>3, <2>1 DEF Serves
    <3>3. \A q \in Servers : row[q].version <= row'[q].version
      BY <1>5, <2>1 DEF RowStates
    <3>4. Grows
      BY <1>3, <2>1, <3>2, <3>3 DEF Grows
    <3>5. RowsStand'
      BY <1>1, <1>3, <2>1 DEF RowsStand, Serves
    <3>6. got = [version |-> row[s].version, anchors |-> Hosts(row[s].anchors)]
      BY <1>1, <1>6, <2>1 DEF AnchorStates
    <3>7. row[s].version \in Nat /\ Hosts(row[s].anchors) \subseteq Servers
      BY <1>4, <1>5 DEF RowStates
    <3>8. QED
      BY <2>1, <3>1, <3>4, <3>5, <3>6, <3>7 DEF SomeProfiles
  <2>2. CASE /\ h \notin row[s].anchors /\ IsNewer
             /\ row' = [row EXCEPT ![s].anchors = @ \cup {h},
                                   ![s].version = anchor.signed.version]
             /\ jobs' = WithJob([at |-> s, new |-> new])
             /\ anchor' = [anchor EXCEPT !.ans = "done",
                             !.got = [version |-> anchor.signed.version,
                                      anchors |-> Hosts(row[s].anchors \cup {h})]]
    <3>1. PICK v, A : v = anchor.signed.version /\ A = row[s].anchors \cup {h}
      OBVIOUS
    <3>2. v \in Nat /\ v > row[s].version /\ row[s].version \in Nat /\ A \in SUBSET AnchorForms
      BY <1>1, <1>2, <1>4, <1>5, <2>2, <3>1 DEF IsNewer, AnchorStates, SomeProfiles, RowStates
    <3>3. PICK w : w = [row[s] EXCEPT !.anchors = A, !.version = v]
      OBVIOUS
    <3>4. /\ w \in RowStates /\ w.known = row[s].known /\ w.bound = row[s].bound
          /\ w.version = v /\ w.anchors = A
      BY <1>4, <1>5, <3>2, <3>3 DEF RowStates
    <3>5. row' = [row EXCEPT ![s] = w]
      BY <1>1, <1>4, <2>2, <3>1, <3>3 DEF ServerTyped
    <3>6. /\ row' \in [Servers -> RowStates] /\ row'[s] = w
          /\ \A q \in Servers : q # s => row'[q] = row[q]
      BY <1>1, <1>4, <3>4, <3>5 DEF ServerTyped
    <3>7. PICK job : job = [at |-> s, new |-> new]
      OBVIOUS
    <3>8. job \in Jobs /\ job.at = s /\ job.new = new /\ DOMAIN jobs' = DOMAIN jobs \cup {job}
      BY <1>4, <2>2, <3>7 DEF WithJob, Jobs
    <3>9. ServerTyped'
      BY <1>1, <1>3, <3>6, <3>8 DEF ServerTyped
    <3>10. \A q \in Servers : /\ row'[q].known = row[q].known /\ row'[q].bound = row[q].bound
                              /\ row[q].version <= row'[q].version
      BY <1>5, <3>2, <3>4, <3>6 DEF RowStates
    <3>11. (\A q \in Servers : Serves(q) => Serves(q)') /\ Serves(new)'
      BY <1>3, <3>8, <3>10 DEF Serves
    <3>12. Grows
      BY <1>3, <3>10, <3>11 DEF Grows
    <3>13. Hosts(A) = Hosts(row[s].anchors) \cup {new}
      <4>1. Hosts(row[s].anchors \cup {h}) = Hosts(row[s].anchors) \cup {h.host}
        BY HostsWith
      <4>2. QED
        BY <1>4, <3>1, <4>1
    <3>14. RowsStand'
      <4>1. \A q \in Servers : \A x \in Hosts(row[q].anchors) : Serves(x)'
        BY <1>1, <1>5, <3>11 DEF RowsStand
      <4>2. \A q \in Servers : \A x \in Hosts(row'[q].anchors) : Serves(x)'
        BY <3>4, <3>6, <3>11, <3>13, <4>1
      <4>3. \A j \in DOMAIN jobs : j.at \in Servers
        BY <1>1 DEF ServerTyped, Jobs
      <4>4. \A j \in DOMAIN jobs' : row'[j.at].known
        BY <1>1, <1>4, <3>8, <3>10, <4>3 DEF RowsStand
      <4>5. QED
        BY <1>1, <3>10, <4>2, <4>4 DEF RowsStand
    <3>15. got = [version |-> v, anchors |-> Hosts(A)]
      BY <1>1, <1>6, <2>2, <3>1 DEF AnchorStates
    <3>16. Hosts(A) \subseteq Servers
      BY <3>2, HostsTyped
    <3>17. got \in SomeProfiles /\ got.version = row'[s].version
           /\ got.anchors = Hosts(row'[s].anchors)
      BY <3>2, <3>4, <3>6, <3>15, <3>16 DEF SomeProfiles
    <3>18. anchor' = [anchor EXCEPT !.ans = "done", !.got = got]
      BY <2>2, <3>1, <3>15
    <3>19. QED
      BY <3>9, <3>12, <3>14, <3>17, <3>18
  <2>3. QED
    BY <1>2, <2>1, <2>2 DEF AnchorTaken
<1>8. /\ anchor' \in AnchorStates /\ anchor'.pc = "ask" /\ anchor'.at = s /\ anchor'.new = new
      /\ anchor'.got = got /\ anchor'.next = anchor.next
  BY <1>1, <1>2, <1>3, <1>7 DEF AnchorStates
<1>9. Backed(got)'
  <2>1. row'[s].version \in Nat
    BY <1>4, <1>7 DEF ServerTyped, RowStates
  <2>2. row'[s].version >= got.version
    BY <1>7, <2>1
  <2>3. QED
    BY <1>4, <1>7, <2>2 DEF Backed, RowsStand
<1>10. anchor'.next # <<>> => Backed(anchor.next[1])'
  <2>1. PICK next : next = anchor.next
    OBVIOUS
  <2>2. next \in NextMetas /\ (next # <<>> => Backed(next[1]))
    BY <1>1, <2>1 DEF AnchorStands, AnchorStates, Backed
  <2>3. ASSUME next # <<>> PROVE Backed(next[1])'
    <3>1. next[1] \in SomeMetas
      BY <2>2, <2>3, NextIsMeta DEF SomeMetas
    <3>2. QED
      BY <1>1, <1>7, <2>2, <2>3, <3>1, MetaStays
  <2>4. anchor'.next = next
    BY <1>8, <2>1
  <2>5. QED
    BY <2>3, <2>4 DEF Backed
<1>11. AnchorStands'
  <2>1. Backed(anchor.got)'
    BY <1>8, <1>9 DEF Backed
  <2>2. row'[s].known
    BY <1>4, <1>7 DEF Grows
  <2>3. QED
    BY <1>4, <1>8, <1>10, <2>1, <2>2 DEF AnchorStands
<1>12. QED
  BY <1>3, <1>7, <1>8, <1>11, NoHandlerKeeps

LEMMA AdoptionTriedKeeps ==
  ASSUME AddInv, NEW j \in Jobs, AdoptionTried(j)
  PROVE  AddInv'
<1>1. ServerTyped /\ ClientTyped /\ RowsStand /\ AnchorStands
  BY DEF AddInv
<1>2. /\ j \in DOMAIN jobs
      /\ UNCHANGED <<used, member, form, run, anchor, meta, listed, session>>
  BY DEF AdoptionTried, client
<1>3. j.at \in Servers /\ j.new \in Servers /\ row[j.at].known
  BY <1>1, <1>2 DEF Jobs, RowsStand
<1>4. \A s \in Servers : row[s] \in RowStates /\ Hosts(row[s].anchors) \subseteq Servers
  BY <1>1, HostsTyped DEF ServerTyped, RowStates
<1>5. /\ DOMAIN jobs' \subseteq DOMAIN jobs /\ dropped' \in {dropped, dropped \cup {j}}
      /\ \/ DOMAIN jobs \cup dropped = DOMAIN jobs' \cup dropped'
         \/ Adopts(j) /\ DOMAIN jobs' = DOMAIN jobs \ {j} /\ dropped' = dropped
  <2>1. CASE Retried(j)
    <3>1. CASE jobs' = [jobs EXCEPT ![j] = @ + 1] /\ UNCHANGED dropped
      BY <3>1
    <3>2. CASE jobs' = Without(j) /\ dropped' = dropped \cup {j}
      BY <1>2, <3>2 DEF Without
    <3>3. QED
      BY <2>1, <3>1, <3>2 DEF Retried
  <2>2. CASE Adopts(j) /\ jobs' = Without(j) /\ UNCHANGED dropped
    BY <2>2 DEF Without
  <2>3. QED
    BY <2>1, <2>2 DEF AdoptionTried
<1>6. /\ row' \in [Servers -> RowStates]
      /\ Adopts(j) => row'[j.new].known
      /\ \A s \in Servers :
           /\ row'[s].bound = row[s].bound
           /\ row[s].known => row'[s].known
           /\ row'[s].version = row[s].version
           /\ row'[s].anchors \in {row[s].anchors, {Url(j.at)}}
  <2>1. CASE UNCHANGED row /\ ~Adopts(j)
    BY <1>1, <2>1 DEF ServerTyped
  <2>2. CASE Adopts(j)
    <3>1. PICK w : w = [row[j.new] EXCEPT !.known = TRUE, !.anchors = {Url(j.at)}]
      OBVIOUS
    <3>2. {Url(j.at)} \in SUBSET AnchorForms
      BY <1>3 DEF Url, AnchorForms
    <3>3. /\ w \in RowStates /\ w.known /\ w.bound = row[j.new].bound
          /\ w.version = row[j.new].version /\ w.anchors = {Url(j.at)}
      BY <1>3, <1>4, <3>1, <3>2 DEF RowStates
    <3>4. row' = [row EXCEPT ![j.new] = w]
      BY <1>1, <1>3, <2>2, <3>1 DEF Adopts, ServerTyped
    <3>5. /\ row' \in [Servers -> RowStates] /\ row'[j.new] = w
          /\ \A s \in Servers : s # j.new => row'[s] = row[s]
      BY <1>1, <1>3, <3>3, <3>4 DEF ServerTyped
    <3>6. QED
      BY <3>3, <3>5
  <2>3. QED
    BY <2>1, <2>2 DEF AdoptionTried
<1>7. ServerTyped'
  BY <1>1, <1>2, <1>5, <1>6 DEF ServerTyped
<1>8. \A h \in Servers : Serves(h) => Serves(h)'
  <2>1. ASSUME NEW h \in Servers, Serves(h) PROVE Serves(h)'
    <3>1. CASE row[h].known
      BY <1>6, <3>1 DEF Serves
    <3>2. ASSUME NEW k \in DOMAIN jobs \cup dropped, k.new = h PROVE Serves(h)'
      <4>1. CASE k \in DOMAIN jobs' \cup dropped'
        BY <3>2, <4>1 DEF Serves
      <4>2. CASE k = j /\ Adopts(j)
        BY <1>6, <3>2, <4>2 DEF Serves
      <4>3. QED
        BY <1>5, <3>2, <4>1, <4>2
    <3>3. QED
      BY <2>1, <3>1, <3>2 DEF Serves
  <2>2. QED
    BY <2>1
<1>9. Grows
  <2>1. \A s \in Servers : row[s].version <= row'[s].version
    BY <1>4, <1>6 DEF RowStates
  <2>2. QED
    BY <1>2, <1>6, <1>8, <2>1 DEF Grows
<1>10. RowsStand'
  <2>1. Hosts({Url(j.at)}) = {j.at} /\ Serves(j.at)'
    BY <1>3, <1>6 DEF Hosts, Url, Serves
  <2>2. \A s \in Servers : \A h \in Hosts(row[s].anchors) : Serves(h)'
    BY <1>1, <1>4, <1>8 DEF RowsStand
  <2>3. \A s \in Servers : \A h \in Hosts(row'[s].anchors) : Serves(h)'
    BY <1>6, <2>1, <2>2
  <2>4. \A k \in DOMAIN jobs : k.at \in Servers
    BY <1>1 DEF ServerTyped, Jobs
  <2>5. \A k \in DOMAIN jobs' : row'[k.at].known
    BY <1>1, <1>5, <1>6, <2>4 DEF RowsStand
  <2>6. QED
    BY <1>1, <1>6, <2>3, <2>5 DEF RowsStand
<1>11. AnchorStands' /\ anchor' \in AnchorStates
  BY <1>1, <1>2, <1>7, <1>9, AnchorStays DEF ClientTyped
<1>12. QED
  BY <1>2, <1>7, <1>9, <1>10, <1>11, NoHandlerKeeps

-----------------------------------------------------------------------------
(* The theorems                                                            *)

LEMMA HandlerStepKeeps ==
  ASSUME AddInv, NEW r \in Runs, HandlerStep(r)
  PROVE  AddInv'
<1>1. ASSUME NEW t \in Tokens, ConnectLink(r, t) PROVE AddInv'
  <2>1. t.at \in Servers /\ <<t>> \in SomeToken
    BY TokensAssumption DEF SomeToken
  <2>2. QED
    BY <1>1, <2>1, ProbesKeeps DEF ConnectLink
<1>2. ASSUME NEW s \in Servers, ConnectAddress(r, s) PROVE AddInv'
  <2>1. <<>> \in SomeToken
    BY DEF SomeToken
  <2>2. QED
    BY <1>2, <2>1, ProbesKeeps DEF ConnectAddress
<1>3. QED
  BY <1>1, <1>2, ConnectRoomKeeps, SubmitCodeKeeps, ProbeAnsweredKeeps, ProbeFailedKeeps,
     TokenTakenKeeps, AcceptedKeeps, DeviceBoundKeeps, BindAnsweredKeeps, CallFailsKeeps,
     ProfileSavedKeeps, FirstSavedKeeps, ListSavedKeeps DEF HandlerStep

LEMMA StutterKeepsAdd == ASSUME AddInv, UNCHANGED vars PROVE AddInv'
<1>1. ServerTyped /\ RowsStand /\ AnchorStands /\ anchor \in AnchorStates
  BY DEF AddInv, ClientTyped
<1>2. UNCHANGED <<server, form, run, anchor, meta, listed, session>>
  BY DEF vars, client
<1>3. Grows /\ ServerTyped' /\ RowsStand'
  BY <1>1, <1>2, SameServerGrows
<1>4. AnchorStands'
  BY <1>1, <1>2, <1>3, AnchorStays DEF AddInv
<1>5. QED
  BY <1>1, <1>2, <1>3, <1>4, NoHandlerKeeps

(* The invariant holds in every state of the client and its servers,       *)
(* whatever is pasted, lost, refused, left or used by somebody else        *)
(* meanwhile (AddServerScreen.tsx, AddAnchorScreen.tsx, identity.ex).      *)
THEOREM AddInvariant == Spec => []AddInv
<1>1. Init => AddInv
  BY AddInit
<1>2. AddInv /\ [Next]_vars => AddInv'
  <2>1. SUFFICES ASSUME AddInv, [Next]_vars PROVE AddInv'
    OBVIOUS
  <2>2. CASE ScreenStep
    BY <2>1, <2>2, ScreenKeeps, SubmitAnchorKeeps DEF ScreenStep
  <2>3. CASE AnchorStep
    BY <2>1, <2>3, AnchorTakenKeeps, AnchorFailsKeeps, AnchorAnsweredKeeps, AnchorSavedKeeps
       DEF AnchorStep
  <2>4. CASE \E r \in Runs : HandlerStep(r)
    BY <2>1, <2>4, HandlerStepKeeps
  <2>5. CASE \E t \in Tokens : TakenByOther(t)
    BY <2>1, <2>5, TakenByOtherKeeps
  <2>6. CASE \E j \in Jobs : AdoptionTried(j)
    BY <2>1, <2>6, AdoptionTriedKeeps
  <2>7. CASE UNCHANGED vars
    BY <2>1, <2>7, StutterKeepsAdd
  <2>8. QED
    BY <2>1, <2>2, <2>3, <2>4, <2>5, <2>6, <2>7 DEF Next
<1>3. QED
  BY <1>1, <1>2, PTL DEF Spec

(* A server that is listed has been joined, the device is bound there and  *)
(* its session stored, under no identifier of another server (runBind,     *)
(* handleJoinViaLink, addServer).                                          *)
THEOREM JoinedBeforeListed == Spec => []ListedIsJoined
<1>1. AddInv => ListedIsJoined
  BY DEF AddInv
<1>2. QED
  BY <1>1, AddInvariant, PTL

(* Every anchor that the client publishes and every one that a server has  *)
(* stored for the person knows the person, is asked to adopt it or was     *)
(* given up (AppendAnchorHost, EnqueueAnchorAdoption, adopt_identity).     *)
THEOREM AnchorsServe == Spec => []PublishedServes
<1>1. AddInv => PublishedServes
  BY DEF AddInv, RowsStand, Backed, PublishedServes
<1>2. QED
  BY <1>1, AddInvariant, PTL

(* The version in the metadata is one that a server has given, however     *)
(* overlapping handlers write over each other (recordBoundProfile).        *)
THEOREM VersionGiven == Spec => []VersionIsStored
<1>1. AddInv => VersionIsStored
  BY DEF AddInv, Backed, VersionIsStored
<1>2. QED
  BY <1>1, AddInvariant, PTL

-----------------------------------------------------------------------------
(* The open channel                                                        *)

(* The inductive invariants of ChannelPane, one for each part of the       *)
(* screen.  What a pane shows and what was begun on it belongs to its      *)
(* channel, and what is shown has a latest message.                        *)
Ref == {<<>>} \cup ({chan} \X Nat)
PaneStates ==
  [status : {"connecting", "joined", "error", "removed"}, manages : BOOLEAN,
   messages : SUBSET ({chan} \X Nat), lastRead : Ref, frame : BOOLEAN,
   reply : Ref, editing : Ref, deleting : Ref]
HasLatest(messages) ==
  messages # {} => \E m \in messages : \A other \in messages : other[2] <= m[2]

PaneInv ==
  /\ chan \in Channels /\ stored \in [Channels -> Nat]
  /\ \A e \in events : e.upto \in Nat
  /\ pane \in PaneStates /\ HasLatest(pane.messages)

(* A lookup that may still answer is one for the query that is shown.      *)
FindInv ==
  /\ find \in [query : Queries \cup {Nothing}, hits : Answers, searching : BOOLEAN,
               due : BOOLEAN, lookups : SUBSET (Queries \cup {Nothing})]
  /\ find.lookups \subseteq {find.query}
  /\ ResultsAreCurrent

(* One order at most is one of the sheet that is open, and what an order   *)
(* has done is done.                                                       *)
SheetInv ==
  /\ sheet \in [open : BOOLEAN, pending : Others \cup {0},
                labelled : SUBSET Others, error : BOOLEAN]
  /\ orders \subseteq [who : Others, here : BOOLEAN, done : BOOLEAN]
  /\ \A o \in orders : o.done => o.who \in gone
  /\ \A o, p \in orders : o.here /\ p.here => o = p
  /\ ~sheet.open => sheet.pending = 0
  /\ SheetIsTrue

-----------------------------------------------------------------------------
(* What the pane shows                                                     *)

LEMMA LatestIsShown ==
  ASSUME PaneInv, Shown # {}
  PROVE  Latest \in {chan} \X Nat
<1>1. PICK m \in pane.messages : \A other \in pane.messages : other[2] <= m[2]
  BY DEF PaneInv, HasLatest, Shown
<1>2. Latest \in pane.messages
  BY <1>1 DEF Latest, Shown
<1>3. QED
  BY <1>2 DEF PaneInv, PaneStates

LEMMA PaneStarts == PaneInit => PaneInv
<1> SUFFICES ASSUME PaneInit PROVE PaneInv
  OBVIOUS
<1>1. chan \in Channels
  BY ChannelsAssumption DEF PaneInit
<1>2. stored \in [Channels -> Nat] /\ events = {}
  BY DEF PaneInit
<1>3. pane \in PaneStates /\ pane.messages = {}
  BY DEF PaneInit, FreshPane, PaneStates, Ref
<1>4. QED
  BY <1>1, <1>2, <1>3 DEF PaneInv, HasLatest

(* Most actions change no more than marks on messages of the channel.      *)
LEMMA MarksKeep ==
  ASSUME PaneInv, UNCHANGED <<stored, chan>>, \A e \in events' : e \in events \/ e.upto \in Nat,
         pane' \in PaneStates, pane'.messages = pane.messages
  PROVE  PaneInv'
<1>1. Ref' = Ref /\ PaneStates' = PaneStates
  BY DEF Ref, PaneStates
<1>2. QED
  BY <1>1 DEF PaneInv, HasLatest

LEMMA SwitchKeeps ==
  ASSUME PaneInv, NEW c \in Channels, SwitchChannel(c)
  PROVE  PaneInv'
<1>1. /\ chan' = c /\ stored' = stored /\ events' = {} /\ pane' = FreshPane
  BY DEF SwitchChannel, Keyed, LeftBehind
<1>2. pane' \in PaneStates' /\ pane'.messages = {}
  BY <1>1 DEF FreshPane, PaneStates, Ref
<1>3. QED
  BY <1>1, <1>2 DEF PaneInv, HasLatest

LEMMA PostedKeeps ==
  ASSUME PaneInv, NEW c \in Channels, Posted(c)
  PROVE  PaneInv'
<1>1. /\ stored' = [stored EXCEPT ![c] = @ + 1] /\ chan' = chan /\ pane' = pane
      /\ events' \subseteq events \cup {[kind |-> "new", upto |-> stored'[c]]}
  BY DEF Posted
<1>2. stored' \in [Channels -> Nat] /\ stored'[c] \in Nat
  BY <1>1 DEF PaneInv
<1>3. \A e \in events' : e.upto \in Nat
  BY <1>1, <1>2 DEF PaneInv
<1>4. Ref' = Ref /\ PaneStates' = PaneStates
  BY <1>1 DEF Ref, PaneStates
<1>5. QED
  BY <1>1, <1>2, <1>3, <1>4 DEF PaneInv, HasLatest

LEMMA HandledKeeps ==
  ASSUME PaneInv, NEW e \in events, Handled(e)
  PROVE  PaneInv'
<1>1. PICK now : now = IF e.kind = "history" THEN {chan} \X (1..e.upto)
                         ELSE pane.messages \cup {<<chan, e.upto>>}
  OBVIOUS
<1>2. e.upto \in Nat /\ pane \in PaneStates /\ HasLatest(pane.messages)
  BY DEF PaneInv
<1>3. PICK frame : frame = (pane.frame \/ AsksFrame(pane.messages, now))
  OBVIOUS
<1>4. /\ pane' = [pane EXCEPT !.messages = now, !.frame = frame]
      /\ stored' = stored /\ chan' = chan /\ events' \subseteq events
  BY <1>1, <1>3 DEF Handled, Shown
<1>5. now \in SUBSET ({chan} \X Nat) /\ HasLatest(now)
  <2>1. CASE e.kind = "history"
    <3>1. now = {chan} \X (1..e.upto)
      BY <1>1, <2>1
    <3>2. \A m \in now : m[2] \in 1..e.upto /\ m[2] <= e.upto
      BY <1>2, <3>1
    <3>3. ASSUME now # {} PROVE <<chan, e.upto>> \in now
      <4>1. PICK m \in now : TRUE
        BY <3>3
      <4>2. m[2] \in 1..e.upto
        BY <3>1, <4>1
      <4>3. e.upto \in 1..e.upto
        BY <1>2, <4>2
      <4>4. QED
        BY <3>1, <4>3
    <3>4. HasLatest(now)
      <4>1. ASSUME now # {} PROVE \E m \in now : \A other \in now : other[2] <= m[2]
        <5>1. PICK m : m = <<chan, e.upto>>
          OBVIOUS
        <5>2. m \in now /\ m[2] = e.upto
          BY <3>3, <4>1, <5>1
        <5>3. QED
          BY <3>2, <5>2
      <4>2. QED
        BY <4>1 DEF HasLatest
    <3>5. QED
      BY <1>2, <3>1, <3>4
  <2>2. CASE e.kind # "history"
    <3>1. PICK new : new = <<chan, e.upto>>
      OBVIOUS
    <3>2. now = pane.messages \cup {new} /\ new \in {chan} \X Nat /\ new[2] = e.upto
      BY <1>1, <1>2, <2>2, <3>1
    <3>3. pane.messages \subseteq {chan} \X Nat /\ \A m \in pane.messages : m[2] \in Nat
      BY <1>2 DEF PaneStates
    <3>4. \E m \in now : \A other \in now : other[2] <= m[2]
      <4>1. CASE \A m \in pane.messages : m[2] <= new[2]
        BY <1>2, <3>2, <4>1
      <4>2. CASE \E m \in pane.messages : ~(m[2] <= new[2])
        <5>1. PICK m \in pane.messages : \A other \in pane.messages : other[2] <= m[2]
          BY <1>2, <4>2 DEF HasLatest
        <5>2. PICK l \in pane.messages : ~(l[2] <= new[2])
          BY <4>2
        <5>3. m[2] \in Nat /\ l[2] \in Nat /\ new[2] \in Nat /\ l[2] <= m[2]
          BY <1>2, <3>2, <3>3, <5>1, <5>2
        <5>4. new[2] <= m[2]
          BY <5>2, <5>3
        <5>5. QED
          BY <3>2, <5>1, <5>4
      <4>3. QED
        BY <4>1, <4>2
    <3>5. QED
      BY <3>2, <3>3, <3>4 DEF HasLatest
  <2>3. QED
    BY <2>1, <2>2
<1>6. frame \in BOOLEAN
  BY <1>3
<1>7. pane' \in PaneStates /\ pane'.messages = now
  BY <1>2, <1>4, <1>5, <1>6 DEF PaneStates
<1>8. Ref' = Ref /\ PaneStates' = PaneStates
  BY <1>4 DEF Ref, PaneStates
<1>9. QED
  BY <1>4, <1>5, <1>7, <1>8 DEF PaneInv, HasLatest

LEMMA MarkReadKeeps ==
  ASSUME PaneInv, NEW p \in PaneStates, p.messages = pane.messages, MarkRead(p),
         UNCHANGED <<stored, chan, events>>
  PROVE  PaneInv'
<1>1. CASE pane' = p
  BY <1>1, MarksKeep
<1>2. CASE Shown # {} /\ pane' = [p EXCEPT !.lastRead = Latest]
  <2>1. Latest \in Ref
    BY <1>2, LatestIsShown DEF Ref
  <2>2. pane' \in PaneStates /\ pane'.messages = pane.messages
    BY <1>2, <2>1 DEF PaneStates
  <2>3. QED
    BY <2>2, MarksKeep
<1>3. QED
  BY <1>1, <1>2 DEF MarkRead

LEMMA PaneSteps ==
  ASSUME PaneInv, [PaneNext]_paneVars
  PROVE  PaneInv'
<1>1. pane \in PaneStates /\ (\A m \in pane.messages : m \in Ref) /\ <<>> \in Ref
      /\ stored \in [Channels -> Nat] /\ chan \in Channels
  BY DEF PaneInv, PaneStates, Ref
<1>2. CASE UNCHANGED <<stored, chan, pane>> /\ \A e \in events' : e \in events \/ e.upto \in Nat
  BY <1>1, <1>2, MarksKeep
<1>3. CASE Connects
  <2>1. CASE HistorySent
    <3>1. stored[chan] \in Nat
      BY <1>1
    <3>2. QED
      BY <1>2, <2>1, <3>1 DEF HistorySent
  <2>2. CASE Drops
    BY <1>2, <2>2 DEF Drops
  <2>3. CASE SocketGiven
    <3>1. pane' \in PaneStates /\ pane'.messages = pane.messages
      BY <1>1, <2>3 DEF SocketGiven, PaneStates
    <3>2. QED
      BY <2>3, <3>1, MarksKeep DEF SocketGiven
  <2>4. CASE JoinAnswered
    <3>1. pane' \in PaneStates /\ pane'.messages = pane.messages
      BY <1>1, <2>4 DEF JoinAnswered, PaneStates
    <3>2. QED
      BY <2>4, <3>1, MarksKeep DEF JoinAnswered
  <2>5. CASE Removed
    <3>1. pane' \in PaneStates /\ pane'.messages = pane.messages
      BY <1>1, <2>5 DEF Removed, PaneStates
    <3>2. QED
      BY <2>5, <3>1, MarksKeep DEF Removed, link
  <2>6. QED
    BY <1>3, <2>1, <2>2, <2>3, <2>4, <2>5 DEF Connects
<1>4. CASE Begins \/ Finishes
  <2>1. /\ UNCHANGED <<stored, chan, events>>
        /\ \E m \in Ref : \/ pane' = [pane EXCEPT !.reply = m]
                          \/ pane' = [pane EXCEPT !.editing = m]
                          \/ pane' = [pane EXCEPT !.deleting = m]
    BY <1>1, <1>4 DEF Begins, Finishes, CancelEdit, CancelReply,
       CancelDelete, Cancel, BeginReply, BeginEdit, BeginDelete,
       Send, SubmitEdit, ConfirmDelete, rest, link, Shown
  <2>2. pane' \in PaneStates /\ pane'.messages = pane.messages
    BY <1>1, <2>1 DEF PaneStates
  <2>3. QED
    BY <2>1, <2>2, MarksKeep
<1>5. CASE Frame \/ Focus
  <2>1. [pane EXCEPT !.frame = FALSE] \in PaneStates
        /\ [pane EXCEPT !.frame = FALSE].messages = pane.messages
    BY <1>1 DEF PaneStates
  <2>2. CASE Frame
    BY <2>1, <2>2, MarkReadKeeps DEF Frame, link
  <2>3. CASE Focus
    BY <1>1, <2>3, MarkReadKeeps DEF Focus, link
  <2>4. QED
    BY <1>5, <2>2, <2>3
<1>6. CASE Searches \/ Finds
  BY <1>2, <1>6 DEF Searches, Finds, TimerFires, SetQuery, Found,
     others, link
<1>7. CASE \/ ToggleMembers \/ \E who \in Others : Ask(who)
           \/ \E o \in orders : Obeyed(o) \/ Returned(o)
  BY <1>2, <1>7 DEF ToggleMembers, Ask, Obeyed, Returned, besides,
     link
<1>8. CASE \E c \in Channels : SwitchChannel(c) \/ Posted(c)
  BY <1>8, SwitchKeeps, PostedKeeps
<1>9. CASE \E e \in events : Handled(e)
  BY <1>9, HandledKeeps
<1>10. CASE UNCHANGED paneVars
  BY <1>2, <1>10 DEF paneVars, link
<1>11. QED
  BY <1>3, <1>4, <1>5, <1>6, <1>7, <1>8, <1>9, <1>10 DEF PaneNext

-----------------------------------------------------------------------------
(* The search                                                              *)

LEMMA FindStarts == PaneInit => FindInv
  BY DEF PaneInit, FindInv, NoSearch, ResultsAreCurrent, Answers

LEMMA FindSteps ==
  ASSUME FindInv, [PaneNext]_paneVars
  PROVE  FindInv'
<1>1. CASE UNCHANGED find
  BY <1>1 DEF FindInv, ResultsAreCurrent
<1>2. CASE find' = NoSearch
  BY <1>2 DEF FindInv, NoSearch, ResultsAreCurrent, Answers
<1>3. CASE TimerFires
  <2>1. find' = [find EXCEPT !.due = FALSE, !.lookups = find.lookups \cup {find.query}]
    BY <1>3 DEF TimerFires, FindInv
  <2>2. QED
    BY <2>1 DEF FindInv, ResultsAreCurrent
<1>4. ASSUME NEW q \in Queries \cup {Nothing}, SetQuery(q) PROVE FindInv'
  <2>1. CASE q = Nothing
    <3>1. find' = NoSearch
      BY <1>4, <2>1 DEF SetQuery, Cancelled, NoSearch
    <3>2. QED
      BY <1>2, <3>1
  <2>2. CASE q # Nothing
    <3>1. find' = [find EXCEPT !.query = q, !.searching = TRUE, !.due = TRUE, !.lookups = {}]
      BY <1>4, <2>2 DEF SetQuery, Cancelled
    <3>2. QED
      BY <1>4, <3>1 DEF FindInv, ResultsAreCurrent
  <2>3. QED
    BY <2>1, <2>2
<1>5. ASSUME NEW q \in find.lookups, Found(q) PROVE FindInv'
  <2>1. PICK hits \in {q, Failed} :
          find' = [find EXCEPT !.hits = hits, !.searching = FALSE,
                               !.lookups = find.lookups \ {q}]
    BY <1>5 DEF Found, Searching, FindInv
  <2>2. q = find.query /\ hits \in Answers
    BY <1>5 DEF FindInv, Answers
  <2>3. QED
    BY <2>1, <2>2 DEF FindInv, ResultsAreCurrent
<1>6. UNCHANGED find \/ find' = NoSearch \/ Searches \/ Finds
  BY DEF PaneNext, paneVars, Connects, SocketGiven, JoinAnswered, Drops,
     HistorySent, Removed, Begins, CancelEdit, CancelReply,
     CancelDelete, Cancel, BeginReply, BeginEdit, BeginDelete,
     Finishes, Send, SubmitEdit, ConfirmDelete, rest, Frame,
     Focus, ToggleMembers, Ask, Obeyed, Returned, besides,
     SwitchChannel, Posted, Handled
<1>7. QED
  BY <1>1, <1>2, <1>3, <1>4, <1>5, <1>6 DEF Searches, Finds

-----------------------------------------------------------------------------
(* The sheet of members                                                    *)

LEMMA SheetStarts == PaneInit => SheetInv
<1> SUFFICES ASSUME PaneInit PROVE SheetInv
  OBVIOUS
<1>1. sheet = NoSheet /\ orders = {} /\ gone = {}
  BY DEF PaneInit
<1>2. QED
  BY <1>1 DEF SheetInv, NoSheet, SheetIsTrue

(* Whom the orders of this sheet are about, one by one.                    *)
LEMMA SheetSays ==
  ASSUME SheetInv
  PROVE  /\ sheet.labelled \subseteq gone
         /\ \A o \in orders : o.here => o.who = sheet.pending /\ sheet.pending # 0
         /\ sheet.pending # 0 => \E o \in orders : o.here /\ o.who = sheet.pending
<1>1. /\ sheet.labelled \subseteq gone
      /\ {o.who : o \in {o \in orders : o.here}} = {sheet.pending} \ {0}
  BY DEF SheetInv, SheetIsTrue
<1>2. ASSUME NEW o \in orders, o.here PROVE o.who = sheet.pending /\ sheet.pending # 0
  <2>1. o.who \in {p.who : p \in {p \in orders : p.here}}
    BY <1>2
  <2>2. QED
    BY <1>1, <2>1
<1>3. ASSUME sheet.pending # 0 PROVE \E o \in orders : o.here /\ o.who = sheet.pending
  <2>1. sheet.pending \in {p.who : p \in {p \in orders : p.here}}
    BY <1>1, <1>3
  <2>2. QED
    BY <2>1
<1>4. QED
  BY <1>1, <1>2, <1>3

SheetStates ==
  [open : BOOLEAN, pending : Others \cup {0}, labelled : SUBSET Others, error : BOOLEAN]
OrderStates == [who : Others, here : BOOLEAN, done : BOOLEAN]

LEMMA ClosesKeeps ==
  ASSUME SheetInv, Closes, UNCHANGED gone
  PROVE  SheetInv'
<1>1. sheet' = NoSheet /\ orders' = {[o EXCEPT !.here = FALSE] : o \in orders}
  BY DEF Closes
<1>2. orders \subseteq OrderStates /\ \A o \in orders : o.done => o.who \in gone
  BY DEF SheetInv, OrderStates
<1>3. ASSUME NEW p \in orders'
      PROVE  p \in OrderStates /\ ~p.here /\ (p.done => p.who \in gone)
  <2>1. PICK o \in orders : p = [o EXCEPT !.here = FALSE]
    BY <1>1
  <2>2. QED
    BY <1>2, <2>1 DEF OrderStates
<1>4. sheet' \in SheetStates /\ sheet'.labelled = {} /\ sheet'.pending = 0
  BY <1>1 DEF SheetStates, NoSheet
<1>5. SheetIsTrue'
  BY <1>3, <1>4 DEF SheetIsTrue
<1>6. QED
  BY <1>3, <1>4, <1>5 DEF SheetInv, SheetStates, OrderStates

LEMMA AskKeeps ==
  ASSUME SheetInv, NEW who \in Others, Ask(who)
  PROVE  SheetInv'
<1>1. PICK new : new = [who |-> who, here |-> TRUE, done |-> FALSE]
  OBVIOUS
<1>2. /\ sheet.pending = 0 /\ sheet' = [sheet EXCEPT !.pending = who, !.error = FALSE]
      /\ orders' = orders \cup {new} /\ gone' = gone /\ sheet.open
  BY <1>1 DEF Ask
<1>3. sheet \in SheetStates /\ orders \subseteq OrderStates
  BY DEF SheetInv, SheetStates, OrderStates
<1>4. new \in OrderStates /\ new.here /\ ~new.done /\ new.who = who
  BY <1>1 DEF OrderStates
<1>5. sheet' \in SheetStates /\ sheet'.pending = who /\ sheet'.labelled = sheet.labelled
      /\ sheet'.open
  BY <1>2, <1>3 DEF SheetStates
<1>6. \A o \in orders : ~o.here
  BY <1>2, SheetSays
<1>7. who # 0
  BY DEF Others
<1>8. sheet.labelled \subseteq gone
  BY SheetSays
<1>9. SheetIsTrue'
  BY <1>2, <1>4, <1>5, <1>6, <1>7, <1>8 DEF SheetIsTrue
<1>10. /\ \A o \in orders' : o.done => o.who \in gone'
       /\ \A o, p \in orders' : o.here /\ p.here => o = p
  BY <1>2, <1>4, <1>6 DEF SheetInv
<1>11. QED
  BY <1>2, <1>3, <1>4, <1>5, <1>9, <1>10 DEF SheetInv, SheetStates, OrderStates

LEMMA ObeyedKeeps ==
  ASSUME SheetInv, NEW o \in orders, Obeyed(o)
  PROVE  SheetInv'
<1>1. PICK new : new = [o EXCEPT !.done = TRUE]
  OBVIOUS
<1>2. /\ sheet' = sheet /\ gone' = gone \cup {o.who}
      /\ orders' = (orders \ {o}) \cup {new}
  BY <1>1 DEF Obeyed, besides
<1>3. orders \subseteq OrderStates /\ o \in OrderStates
  BY DEF SheetInv, OrderStates
<1>4. new \in OrderStates /\ new.here = o.here /\ new.done /\ new.who = o.who
  BY <1>1, <1>3 DEF OrderStates
<1>5. /\ sheet.labelled \subseteq gone
      /\ \A p \in orders : p.here => p.who = sheet.pending /\ sheet.pending # 0
      /\ sheet.pending # 0 => \E p \in orders : p.here /\ p.who = sheet.pending
  BY SheetSays
<1>6. /\ sheet'.labelled \subseteq gone'
      /\ \A p \in orders' : p.here => p.who = sheet'.pending /\ sheet'.pending # 0
      /\ sheet'.pending # 0 => \E p \in orders' : p.here /\ p.who = sheet'.pending
  BY <1>2, <1>4, <1>5
<1>7. SheetIsTrue'
  BY <1>6 DEF SheetIsTrue
<1>8. /\ \A p \in orders' : p.done => p.who \in gone'
      /\ \A p, q \in orders' : p.here /\ q.here => p = q
  BY <1>2, <1>4 DEF SheetInv
<1>9. QED
  BY <1>2, <1>3, <1>4, <1>7, <1>8 DEF SheetInv, OrderStates

LEMMA ReturnedKeeps ==
  ASSUME SheetInv, NEW o \in orders, Returned(o)
  PROVE  SheetInv'
<1>1. sheet \in SheetStates /\ orders \subseteq OrderStates /\ o \in OrderStates
  BY DEF SheetInv, SheetStates, OrderStates
<1>2. /\ sheet.labelled \subseteq gone
      /\ \A p \in orders : p.here => p.who = sheet.pending /\ sheet.pending # 0
      /\ sheet.pending # 0 => \E p \in orders : p.here /\ p.who = sheet.pending
  BY SheetSays
<1>3. PICK ok \in {o.done, FALSE} :
        /\ orders' = orders \ {o} /\ gone' = gone
        /\ sheet' = IF o.here
             THEN [sheet EXCEPT !.pending = 0, !.error = ~ok,
                                !.labelled = IF ok THEN @ \cup {o.who} ELSE @]
             ELSE sheet
  BY DEF Returned, IsLabelled
<1>4. ok \in BOOLEAN /\ (ok => o.who \in gone)
  BY <1>1, <1>3 DEF SheetInv, OrderStates
<1>5. /\ \A p \in orders' : p.done => p.who \in gone'
      /\ \A p, q \in orders' : p.here /\ q.here => p = q
      /\ orders' \subseteq OrderStates
  BY <1>1, <1>3 DEF SheetInv
<1>6. CASE o.here
  <2>1. PICK labelled : labelled = IF ok THEN sheet.labelled \cup {o.who} ELSE sheet.labelled
    OBVIOUS
  <2>2. sheet' = [sheet EXCEPT !.pending = 0, !.error = ~ok, !.labelled = labelled]
    BY <1>3, <1>6, <2>1
  <2>3. labelled \in SUBSET Others /\ labelled \subseteq gone
    BY <1>1, <1>2, <1>4, <2>1 DEF SheetStates, OrderStates
  <2>4. sheet' \in SheetStates /\ sheet'.pending = 0 /\ sheet'.labelled = labelled
    BY <1>1, <1>4, <2>2, <2>3 DEF SheetStates
  <2>5. \A p \in orders' : ~p.here
    BY <1>3, <1>6 DEF SheetInv
  <2>6. SheetIsTrue'
    BY <1>3, <2>3, <2>4, <2>5 DEF SheetIsTrue
  <2>7. QED
    BY <1>5, <2>4, <2>6 DEF SheetInv, SheetStates, OrderStates
<1>7. CASE ~o.here
  <2>1. sheet' = sheet
    BY <1>3, <1>7
  <2>2. /\ sheet'.labelled \subseteq gone'
        /\ \A p \in orders' : p.here => p.who = sheet'.pending /\ sheet'.pending # 0
        /\ sheet'.pending # 0 => \E p \in orders' : p.here /\ p.who = sheet'.pending
    BY <1>2, <1>3, <1>7, <2>1
  <2>3. SheetIsTrue'
    BY <2>2 DEF SheetIsTrue
  <2>4. QED
    BY <1>1, <1>5, <2>1, <2>3 DEF SheetInv, SheetStates, OrderStates
<1>8. QED
  BY <1>6, <1>7

LEMMA SheetSteps ==
  ASSUME SheetInv, [PaneNext]_paneVars
  PROVE  SheetInv'
<1>1. CASE UNCHANGED <<sheet, orders, gone>>
  BY <1>1 DEF SheetInv, SheetIsTrue
<1>2. CASE Closes /\ UNCHANGED gone
  BY <1>2, ClosesKeeps
<1>3. CASE ~sheet.open /\ sheet' = [NoSheet EXCEPT !.open = TRUE] /\ UNCHANGED <<orders, gone>>
  <2>1. sheet' \in SheetStates /\ sheet'.labelled = {} /\ sheet'.pending = 0
    BY <1>3 DEF SheetStates, NoSheet
  <2>2. \A o \in orders' : ~o.here
    BY <1>3, SheetSays DEF SheetInv
  <2>3. SheetIsTrue'
    BY <2>1, <2>2 DEF SheetIsTrue
  <2>4. QED
    BY <1>3, <2>1, <2>3 DEF SheetInv, SheetStates
<1>4. CASE \/ \E who \in Others : Ask(who)
           \/ \E o \in orders : Obeyed(o) \/ Returned(o)
  BY <1>4, AskKeeps, ObeyedKeeps, ReturnedKeeps
<1>5. CASE ToggleMembers
  BY <1>2, <1>3, <1>5 DEF ToggleMembers
<1>6. CASE \E c \in Channels : SwitchChannel(c) \/ Posted(c)
  BY <1>1, <1>2, <1>6 DEF SwitchChannel, Posted, members
<1>7. CASE Connects
  BY <1>1, <1>2, <1>7 DEF Connects, SocketGiven, JoinAnswered, Drops,
     HistorySent, Removed, members
<1>8. CASE Begins \/ Finishes
  BY <1>1, <1>8 DEF Begins, CancelEdit, CancelReply, CancelDelete,
     Cancel, BeginReply, BeginEdit, BeginDelete, Finishes, Send,
     SubmitEdit, ConfirmDelete, rest, members
<1>9. CASE Searches \/ Finds \/ Frame \/ Focus
  BY <1>1, <1>9 DEF Searches, Finds, TimerFires, SetQuery, Found,
     others, Frame, Focus, members
<1>10. CASE \E e \in events : Handled(e)
  BY <1>1, <1>10 DEF Handled, members
<1>11. CASE UNCHANGED paneVars
  BY <1>1, <1>11 DEF paneVars, members
<1>12. QED
  BY <1>4, <1>5, <1>6, <1>7, <1>8, <1>9, <1>10, <1>11 DEF PaneNext

-----------------------------------------------------------------------------
(* The theorems                                                            *)

(* The invariants hold in every state of an open channel, whatever is      *)
(* posted, lost, overtaken or left meanwhile (ChannelScreen.tsx,           *)
(* channel-store.ts, search.ts, server-moderation.ts).                     *)
THEOREM PaneInvariant == PaneSpec => []PaneInv
<1>1. PaneInit => PaneInv
  BY PaneStarts
<1>2. PaneInv /\ [PaneNext]_paneVars => PaneInv'
  BY PaneSteps
<1>3. QED
  BY <1>1, <1>2, PTL DEF PaneSpec

(* Only lookups for the query that is shown can still answer, however     *)
(* often it is changed or cleared meanwhile (useMessageSearch).            *)
THEOREM FindInvariant == PaneSpec => []FindInv
<1>1. FindInv /\ [PaneNext]_paneVars => FindInv'
  BY FindSteps
<1>2. QED
  BY <1>1, FindStarts, PTL DEF PaneSpec

(* One order at most belongs to the sheet that is open, however often it   *)
(* is closed and opened again while orders are under way (MemberSheet).    *)
THEOREM SheetInvariant == PaneSpec => []SheetInv
<1>1. SheetInv /\ [PaneNext]_paneVars => SheetInv'
  BY SheetSteps
<1>2. QED
  BY <1>1, SheetStarts, PTL DEF PaneSpec

(* What a pane pushes is about a message of its own channel, also when     *)
(* another was open before (ChannelScreen.tsx, keyed by its channel).      *)
THEOREM PushesStay == PaneSpec => []PushesStayInChannel
<1>1. PaneInv => PushesStayInChannel
  BY DEF PaneInv, PaneStates, Ref, PushesStayInChannel
<1>2. QED
  BY <1>1, PaneInvariant, PTL

(* When a search is over, what is shown was found for the query that is    *)
(* shown (useMessageSearch).                                               *)
THEOREM ResultsCurrent == PaneSpec => []ResultsAreCurrent
<1>1. FindInv => ResultsAreCurrent
  BY DEF FindInv
<1>2. QED
  BY <1>1, FindInvariant, PTL

(* Who is labelled as removed was removed, and the buttons of the sheet    *)
(* are off while an order of this sheet is under way (MemberSheet).        *)
THEOREM SheetTells == PaneSpec => []SheetIsTrue
<1>1. SheetInv => SheetIsTrue
  BY DEF SheetInv
<1>2. QED
  BY <1>1, SheetInvariant, PTL
=============================================================================

--------------------------- MODULE SessionClient ---------------------------
(***************************************************************************)
(* A client that keeps the pair of its device in storage and asks for a    *)
(* usable session token from many places at once (assets/app/session.ts    *)
(* getValidSessionToken), against the server of SessionTokens.  A call is  *)
(* named by the process that serves its rotate_refresh request.            *)
(*                                                                         *)
(* Each call runs alone between its awaits: one that gets an answer writes *)
(* the storage before another call runs.                                   *)
(***************************************************************************)
EXTENDS SessionTokens

CONSTANT MaxLogins  \* bound: pairs issued by a login

VARIABLES
  store,    \* the pair in storage
  lapsing,  \* pairs whose session ends within the leeway of 60 seconds
  call,     \* call[p]: how far call p is
  loaded    \* loaded[p]: the pair call p has read from storage

clientVars == <<store, lapsing, call, loaded>>
allVars == <<vars, clientVars>>

ClientInit ==
  /\ Init
  /\ store = None
  /\ lapsing = {}
  /\ call = [p \in Rotators |-> "idle"]
  /\ loaded = [p \in Rotators |-> None]

-----------------------------------------------------------------------------
(* Bound: a name is left for the pair of every rotation under way.         *)
UnderWay == {p \in Rotators : call[p] = "sending" \/ rotation[p].pc # "idle"}
NamesRemain == Cardinality(rows) + Cardinality(UnderWay) < Cardinality(Tokens)

(* submitBindDevice: after an invite or a claim, and by ensureSession when *)
(* a call has failed, the server issues a pair and it is stored.           *)
Login(t, d) ==
  /\ NamesRemain
  /\ Cardinality({line[u] : u \in rows}) < MaxLogins
  /\ IssuePair(t, d)
  /\ store' = t
  /\ UNCHANGED <<lapsing, call, loaded>>

(* Most of an hour passes.                                                 *)
Lapse ==
  /\ store # None /\ store \notin lapsing
  /\ lapsing' = lapsing \cup {store}
  /\ UNCHANGED vars /\ UNCHANGED <<store, call, loaded>>

(* Without a stored pair, or with a fresh one, the call returns at once.   *)
Load(p) ==
  /\ call[p] = "idle" /\ rotation[p].pc = "idle" /\ NamesRemain
  /\ store \in lapsing
  /\ call' = [call EXCEPT ![p] = "sending"]
  /\ loaded' = [loaded EXCEPT ![p] = store]
  /\ UNCHANGED vars /\ UNCHANGED <<store, lapsing>>

Send(p) ==
  /\ call[p] = "sending"
  /\ ReadRefresh(p, loaded[p])
  /\ call' = [call EXCEPT ![p] = "waiting"]
  /\ UNCHANGED <<store, lapsing, loaded>>

(* fetch throws: the request or its answer is lost, and the storage stays. *)
FetchThrows(p) ==
  /\ call[p] \in {"sending", "waiting"}
  /\ call' = [call EXCEPT ![p] = "idle"]
  /\ UNCHANGED vars /\ UNCHANGED <<store, lapsing, loaded>>

(* Mutant: what was loaded is saved again.                                 *)
SettleLoaded(p) ==
  /\ call[p] = "waiting" /\ rotation[p].pc = "idle"
  /\ store' = IF rotation[p].reply = "ok" THEN rotation[p].old ELSE None
  /\ call' = [call EXCEPT ![p] = "idle"]
  /\ UNCHANGED vars /\ UNCHANGED <<lapsing, loaded>>

(* The answer arrives: the new pair is stored, and on any other answer the *)
(* storage is cleared.                                                     *)
Settle(p) ==
  /\ call[p] = "waiting" /\ rotation[p].pc = "idle"
  /\ store' = IF rotation[p].reply = "ok" THEN rotation[p].new ELSE None
  /\ call' = [call EXCEPT ![p] = "idle"]
  /\ UNCHANGED vars /\ UNCHANGED <<lapsing, loaded>>

-----------------------------------------------------------------------------
(* The server's own steps, once a request has reached it.  An expired pair *)
(* is refused like a revoked one, so time does not pass here.              *)
ServerStep ==
  /\ \/ \E p \in Rotators : RotationStep(p) \/ AbortRotation(p)
     \/ \E v \in Revokers :
          \/ RevocationStep(v) \/ AbortRevocation(v)
          \/ \E devices \in (SUBSET Devices) \ {{}} : RevokeSessions(v, devices)
  /\ UNCHANGED clientVars

ClientNext ==
  \/ ServerStep
  \/ \E t \in Tokens, d \in Devices : Login(t, d)
  \/ Lapse
  \/ \E p \in Rotators : Load(p) \/ Send(p) \/ FetchThrows(p) \/ Settle(p)

ClientSpec == ClientInit /\ [][ClientNext]_allVars

-----------------------------------------------------------------------------
(* Properties                                                              *)

(* A late answer never puts back a pair that has been rotated since: what  *)
(* is written to the storage is the last of its line.                      *)
StoreMovesForward ==
  [][store' # store /\ store' # None => store' \in rows' /\ next'[store'] = None]_store

=============================================================================

------------------------------- MODULE RoomPage -------------------------------
(* What a signed-in owner's browser shows while its calls are in flight:      *)
(* apps/web/src/App.tsx, with lib/auth-session.ts and lib/networkStatus.ts.   *)
(*                                                                            *)
(* Calls answer in any order, after the owner has gone to another room, signed*)
(* out, or signed in again; which answers still count is decided three ways   *)
(* here: a request number, an effect's `active` flag, and the session's token *)
(* captured when the call began.                                              *)
(*                                                                            *)
(* A list of messages is the set of the rooms its messages are from; their    *)
(* order and number, the Library's search and the directory are left out.     *)
EXTENDS Naturals, FiniteSets

CONSTANTS
  Rooms,       \* rooms the owner may open
  None,        \* no room
  MaxSignIns,  \* bound on sign-ins
  MaxCalls     \* bound on calls in flight

PageAssumption == None \notin Rooms /\ MaxSignIns \in Nat

Tokens == 1..MaxSignIns
NoToken == 0

Kinds == {"load", "first", "poll", "earlier", "send", "logout"}

(* `shell` is the mounted shell that called, `token` the session's when it   *)
(* did, `live` whether its request number or effect is still the current one.*)
Calls == [kind : Kinds, shell : Tokens, token : Tokens \cup {NoToken},
          room : Rooms \cup {None}, live : BOOLEAN]

Outcomes == {"ok", "unauthorized", "refused", "broken", "unreachable"}
Loads == {"all", "some", "none"}

VARIABLES
  store,     \* sessionStorage's session
  shell,     \* the session ParticipantApp is mounted for
  minted,    \* sessions signed in so far
  selected,  \* the room rendered
  applied,   \* the room the effects last ran for
  pageOf,    \* messagesRoomId
  listed,    \* messages
  calls,     \* calls without an answer
  tone,      \* network.tone
  loaded     \* what the last load that counted found; "never" before it

pageVars == <<store, shell, minted, selected, applied, pageOf, listed, calls, tone, loaded>>

view == <<selected, applied, pageOf, listed, tone, loaded>>

Call(kind, of, token, room) ==
  [kind |-> kind, shell |-> of, token |-> token, room |-> room, live |-> TRUE]

(* A shell that mounts, or none, starts from fresh private state.            *)
Fresh ==
  /\ selected' = None /\ applied' = None /\ pageOf' = None
  /\ listed' = {} /\ tone' = "checking" /\ loaded' = "never"

(* The first load of a shell that mounts.                                    *)
FirstLoad(of) == IF of = NoToken THEN {} ELSE {Call("load", of, of, None)}

-----------------------------------------------------------------------------
(* The owner.                                                                *)

SignIn ==
  /\ shell = NoToken
  /\ minted < MaxSignIns
  /\ minted' = minted + 1
  /\ store' = minted'
  /\ shell' = minted'
  /\ calls' = calls \cup FirstLoad(minted')
  /\ Fresh

(* A reload forgets every call and mounts what sessionStorage holds.         *)
Reload ==
  /\ shell' = store
  /\ calls' = FirstLoad(store)
  /\ Fresh
  /\ UNCHANGED <<store, minted>>

(* A committed route selects a room, or none.  React runs the effects of one *)
(* render before the next.                                                   *)
Select(room) ==
  /\ shell # NoToken
  /\ Cardinality(calls) < MaxCalls
  /\ applied = selected
  /\ room # selected
  /\ selected' = room
  /\ UNCHANGED <<store, shell, minted, applied, pageOf, listed, calls, tone, loaded>>

OfTheRoom == {"first", "poll"}

(* The effects of a new room: the older request and poll no longer count, the *)
(* list is emptied and its first page asked for.                              *)
RunEffects ==
  /\ shell # NoToken
  /\ applied # selected
  /\ applied' = selected
  /\ LET old == {[call EXCEPT !.live = @ /\ call.kind \notin OfTheRoom] : call \in calls}
     IN  IF selected = None
           THEN calls' = old /\ UNCHANGED <<pageOf, listed>>
           ELSE /\ calls' = old \cup {Call("first", shell, store, selected)}
                /\ pageOf' = selected
                /\ listed' = {}
  /\ UNCHANGED <<store, shell, minted, selected, tone, loaded>>

(* refresh, the poll, loadEarlierMessages, sendMessage and logout call out.  *)
(* One poll is in flight for all the rooms of a shell.                       *)
Begin(kind) ==
  /\ shell # NoToken
  /\ Cardinality(calls) < MaxCalls
  /\ kind \in {"poll", "earlier", "send"} => selected # None
  /\ kind = "poll" => /\ applied = selected
                      /\ \A call \in calls : call.kind = "poll" => call.shell # shell
  /\ calls' = calls \cup
       {Call(kind, shell, store, IF kind \in {"load", "logout"} THEN None ELSE selected)}
  /\ UNCHANGED <<store, shell, minted, view>>

-----------------------------------------------------------------------------
(* The answers.                                                              *)

(* withSession: only a 401 of the session still stored ends it.              *)
EndsSession(call, outcome) == outcome = "unauthorized" /\ store = call.token

StoreAfter(call, outcome) == IF EndsSession(call, outcome) THEN NoToken ELSE store

(* capturePrivateOperation: the shell is mounted, on the token it had.       *)
StillCurrent(call, outcome) ==
  call.shell = shell /\ call.token # NoToken /\ StoreAfter(call, outcome) = call.token

(* Mutant: the request number is not compared. *)
StillMounted(call) == call.shell = shell

(* A first page or a poll: its request number or effect is the current one.  *)
StillAsked(call) == call.shell = shell /\ call.live

(* nextNetworkStatus, for a full load; nextPollNetworkStatus, for a probe.   *)
LoadTone(found) ==
  CASE found = "all" -> "online" [] found = "some" -> "degraded" [] found = "none" -> "offline"

PollTone(outcome) ==
  CASE outcome = "ok" /\ tone = "offline" -> "degraded"
    [] outcome = "unreachable" -> "offline"
    [] outcome = "broken" -> "degraded"
    [] OTHER -> tone

Forget(call) == calls' = calls \ {call}

(* setMessages: the first page replaces the list.                            *)
FirstPage(call, outcome) ==
  /\ call.kind = "first"
  /\ listed' = IF StillAsked(call) /\ outcome = "ok" THEN {call.room} ELSE listed
  /\ UNCHANGED <<shell, selected, applied, pageOf, tone, loaded>>

(* The poll adds to it and is a probe of the network.                        *)
PollPage(call, outcome) ==
  /\ call.kind = "poll"
  /\ listed' = IF StillAsked(call) /\ outcome = "ok" THEN listed \cup {call.room} ELSE listed
  /\ tone' = IF StillAsked(call) THEN PollTone(outcome) ELSE tone
  /\ UNCHANGED <<shell, selected, applied, pageOf, loaded>>

(* An earlier page or a message sent adds to the list of the room it is of.  *)
OwnPage(call, outcome) ==
  /\ call.kind \in {"earlier", "send"}
  /\ listed' = IF outcome = "ok" /\ StillCurrent(call, outcome) /\ selected = call.room
                 THEN listed \cup {call.room} ELSE listed
  /\ UNCHANGED <<shell, selected, applied, pageOf, tone, loaded>>

(* A load that finds no session stored gives the shell up.                   *)
LoadLands(call, outcome, found) ==
  /\ call.kind = "load"
  /\ outcome = "ok" <=> found = "all"
  /\ IF call.shell = shell /\ StoreAfter(call, outcome) = NoToken
       THEN shell' = NoToken /\ Fresh
       ELSE /\ tone' = IF StillCurrent(call, outcome) THEN LoadTone(found) ELSE tone
            /\ loaded' = IF StillCurrent(call, outcome) THEN found ELSE loaded
            /\ UNCHANGED <<shell, selected, applied, pageOf, listed>>

(* Whatever it answers, logout clears the store and unmounts the shell.      *)
LogoutLands(call) ==
  /\ call.kind = "logout"
  /\ store' = NoToken
  /\ shell' = NoToken
  /\ Fresh

Answer(call, outcome) ==
  /\ Forget(call)
  /\ \/ /\ \/ FirstPage(call, outcome)
           \/ PollPage(call, outcome)
           \/ OwnPage(call, outcome)
           \/ \E found \in Loads : LoadLands(call, outcome, found)
        /\ store' = StoreAfter(call, outcome)
     \/ LogoutLands(call)
  /\ UNCHANGED minted

PageInit ==
  /\ store = NoToken /\ shell = NoToken /\ minted = 0
  /\ selected = None /\ applied = None /\ pageOf = None
  /\ listed = {} /\ calls = {} /\ tone = "checking" /\ loaded = "never"

PageNext ==
  \/ SignIn
  \/ Reload
  \/ \E room \in Rooms \cup {None} : Select(room)
  \/ RunEffects
  \/ \E kind \in Kinds \ {"first"} : Begin(kind)
  \/ \E call \in calls, outcome \in Outcomes : Answer(call, outcome)

PageSpec == PageInit /\ [][PageNext]_pageVars

-----------------------------------------------------------------------------
(* Every variable holds what the code can store in it.                       *)
PageTypeOK ==
  /\ {store, shell, minted} \subseteq Tokens \cup {NoToken}
  /\ {selected, applied, pageOf} \subseteq Rooms \cup {None}
  /\ listed \subseteq Rooms
  /\ calls \subseteq Calls
  /\ tone \in {"checking", "online", "degraded", "offline"}
  /\ loaded \in Loads \cup {"never"}

(* What the room's screen renders (App.tsx:193).                             *)
Displayed == IF pageOf = selected THEN listed ELSE {}

(* However the answers of rooms opened, closed and opened again overtake one *)
(* another, a room's screen shows messages of that room only.                *)
OwnRoom == Displayed \subseteq {selected}

(* The shell and the store never hold two sessions, and the header says      *)
(* Online only when the last full load to count found everything: a poll's   *)
(* success never makes it so (networkStatus.ts:44-45).                       *)
SessionAndToneAreTrue ==
  /\ store \in {NoToken, shell}
  /\ tone = "online" => loaded = "all"

ScreenIsTrue == OwnRoom /\ SessionAndToneAreTrue
=============================================================================

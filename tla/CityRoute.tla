------------------------------ MODULE CityRoute ------------------------------
(* The web shell's route, its history and the dive between the city and a     *)
(* screen: apps/web/src/components/shell/diveMachine.ts and useCityRoute.ts.  *)
(*                                                                            *)
(* The URL is pushed when a dive lands or an exit uncovers the city, not when *)
(* it starts; Back and Forward move the URL first and the machine has to      *)
(* follow, whatever it was doing; a timer drives it; a signed-in owner may    *)
(* become a guest, who may not see every screen, in the middle of it.         *)
(*                                                                            *)
(* A building's place and name are left out: a dive only asks whether the     *)
(* route has a building.  The camera is where it rests, "home" or "away".     *)
EXTENDS Naturals, Sequences

CONSTANTS
  Rooms,       \* rooms a route may name
  MaxHistory   \* bound on the entries of the browser's history

Screens == {"rooms", "owner"} \cup Rooms
Routes == {"city"} \cup Screens

(* An id is none of the words that the paths of the other screens have.      *)
RouteAssumption == Rooms \cap {"city", "rooms", "owner", "none"} = {}

Commits == [route : Routes, push : BOOLEAN]
NoCommit == [route |-> "none", push |-> FALSE]

VARIABLES
  history,   \* the browser's entries
  at,        \* the one whose URL is shown
  shown,     \* the route the shell renders
  dive,      \* DiveState
  due,       \* ticks the timers set will fire
  camera,    \* where the camera rests
  guest      \* the shell is the public showcase

routeVars == <<history, at, shown, dive, due, camera, guest>>

Idle == [phase |-> "idle", covered |-> FALSE, pending |-> NoCommit, fromScreen |-> FALSE]
Inside == [Idle EXCEPT !.phase = "inside"]

Dives == [phase : {"idle", "focusing", "diving", "inside", "exiting"}, covered : BOOLEAN,
          pending : Commits \cup {NoCommit}, fromScreen : BOOLEAN]

Url == history[at]

(* A guest never opens Owner controls: that route is the city.               *)
Allowed(asGuest, route) == IF asGuest /\ route = "owner" THEN "city" ELSE route

InitialDive(route) == IF route \in Screens THEN Inside ELSE Idle

(* What one event makes of the machine: its next state and its effects.      *)
Result(state, commit, move, timed) ==
  [dive |-> state, commit |-> commit, move |-> move, timed |-> timed]

Ignore == Result(dive, NoCommit, "hold", FALSE)

To(route, push) == [route |-> route, push |-> push]

-----------------------------------------------------------------------------
(* The events of reduceDive.                                                 *)

OpenNow(route, push) == Result(Inside, To(route, push), "hold", FALSE)

DiveInto(route, push, fromScreen) ==
  Result([phase |-> "focusing", covered |-> FALSE, pending |-> To(route, push),
          fromScreen |-> fromScreen],
         IF fromScreen THEN To("city", FALSE) ELSE NoCommit, "away", TRUE)

(* Only the rooms directory hands over to a room's building with a dive.     *)
Redive(route) == shown = "rooms" /\ route \in Rooms

Open(route, push, immediate, flies) ==
  CASE immediate -> OpenNow(route, push)
    [] ~immediate /\ dive.phase = "idle" ->
         IF flies THEN DiveInto(route, push, FALSE) ELSE OpenNow(route, push)
    [] ~immediate /\ dive.phase = "inside" ->
         IF flies /\ Redive(route) THEN DiveInto(route, push, TRUE) ELSE OpenNow(route, push)
    [] OTHER -> Ignore

CloseNow(route, push) == Result(Idle, To(route, push), "home", FALSE)

(* A cancelled dive has committed nothing, unless it hid a screen first or   *)
(* the URL has already moved.                                                *)
Reconciles(push) == dive.fromScreen \/ ~push

Cancel(route, push) ==
  Result(Idle, IF Reconciles(push) THEN To(route, push) ELSE NoCommit, "home", FALSE)

Exit(route, push) ==
  Result([phase |-> "exiting", covered |-> TRUE, pending |-> To(route, push),
          fromScreen |-> FALSE], NoCommit, "away", TRUE)

(* Back while the overlay covers the screen drops the pending push.          *)
DropPush(route) ==
  Result([dive EXCEPT !.pending = To(route, FALSE)], NoCommit, "hold", FALSE)

Close(route, push, flies) ==
  CASE dive.phase = "idle" -> Result(Idle, To(route, push), "hold", FALSE)
    [] dive.phase = "inside" -> IF flies THEN Exit(route, push) ELSE CloseNow(route, push)
    [] dive.phase \in {"focusing", "diving"} -> Cancel(route, push)
    [] dive.phase = "exiting" /\ ~push /\ dive.pending # NoCommit -> DropPush(route)
    [] OTHER -> Ignore

OnTick ==
  CASE dive.phase = "focusing" -> Result([dive EXCEPT !.phase = "diving"], NoCommit, "away", TRUE)
    [] dive.phase = "diving" -> Result(Inside, dive.pending, "hold", FALSE)
    [] dive.phase = "exiting" /\ dive.covered ->
         Result([dive EXCEPT !.covered = FALSE, !.pending = NoCommit], dive.pending, "home", TRUE)
    [] dive.phase = "exiting" /\ ~dive.covered -> Result(Idle, NoCommit, "hold", FALSE)
    [] OTHER -> Ignore

-----------------------------------------------------------------------------
(* DiveController.send: a change of phase, or a new timer, clears the old    *)
(* one; a commit pushes only what is not the URL already.                    *)

Stale(result) == result.dive.phase # dive.phase \/ result.timed

Pushes(entries, here, commit) == commit.push /\ commit.route # entries[here]

(* Sends the result with the browser at entry `here` of `entries`.           *)
Send(result, entries, here, left) ==
  LET commit == result.commit
  IN  /\ dive' = result.dive
      /\ due' = (IF Stale(result) THEN 0 ELSE left) + (IF result.timed THEN 1 ELSE 0)
      /\ camera' = IF result.move = "hold" THEN camera ELSE result.move
      /\ shown' = IF commit = NoCommit THEN shown ELSE commit.route
      /\ history' = IF Pushes(entries, here, commit)
                      THEN Append(SubSeq(entries, 1, here), commit.route)
                      ELSE entries
      /\ at' = IF Pushes(entries, here, commit) THEN here + 1 ELSE here
      /\ UNCHANGED guest

(* navigate and close; `flies`: motion is allowed, the city is drawn and the *)
(* route has a building.                                                     *)
Navigate(route, flies) ==
  LET next == Allowed(guest, route)
  IN  /\ at < MaxHistory
      /\ Send(IF next \in Screens THEN Open(next, TRUE, FALSE, flies) ELSE Close(next, TRUE, flies),
              history, at, due)

(* popstate: the URL has moved; a screen opens at once, the city is left     *)
(* with the exit.  A route the viewer may not open is replaced in place.     *)
Traverse(here, flies) ==
  LET next == Allowed(guest, history[here])
  IN  /\ here # at
      /\ Send(IF next \in Screens THEN Open(next, FALSE, TRUE, flies) ELSE Close(next, FALSE, flies),
              [history EXCEPT ![here] = next], here, due)

Tick ==
  /\ due > 0
  /\ Send(OnTick, history, at, due - 1)

(* A shell mounts on the URL: its controller, camera and route are new.      *)
Mount(entries, here, asGuest) ==
  LET route == Allowed(asGuest, entries[here])
  IN  /\ history' = [entries EXCEPT ![here] = route]
      /\ at' = here
      /\ shown' = route
      /\ dive' = InitialDive(route)
      /\ due' = 0
      /\ camera' = "home"
      /\ guest' = asGuest

(* authenticate and signedOut show the city in the history before the other  *)
(* shell mounts; a lost session and a reload mount where the URL is.         *)
ChangeSession ==
  /\ at < MaxHistory
  /\ IF Url = "city" THEN Mount(history, at, ~guest)
                     ELSE Mount(Append(SubSeq(history, 1, at), "city"), at + 1, ~guest)

LoseSession == ~guest /\ Mount(history, at, TRUE)

Reload == Mount(history, at, guest)

RouteInit ==
  /\ guest \in BOOLEAN
  /\ \E route \in Routes :
       /\ shown = Allowed(guest, route)
       /\ history = <<shown>>
       /\ dive = InitialDive(shown)
  /\ at = 1
  /\ due = 0
  /\ camera = "home"

RouteNext ==
  \/ \E route \in Routes, flies \in BOOLEAN : Navigate(route, flies)
  \/ \E here \in 1..Len(history), flies \in BOOLEAN : Traverse(here, flies)
  \/ Tick
  \/ ChangeSession
  \/ LoseSession
  \/ Reload

RouteSpec == RouteInit /\ [][RouteNext]_routeVars

-----------------------------------------------------------------------------
(* Every variable holds what the code can store in it.                       *)
RouteTypeOK ==
  /\ history \in Seq(Routes)
  /\ at \in 1..Len(history)
  /\ shown \in Routes
  /\ dive \in Dives
  /\ due \in 0..1
  /\ camera \in {"home", "away"}
  /\ guest \in BOOLEAN

(* Whatever order clicks, Escape, Back, Forward, timers and session changes  *)
(* come in, a shell at rest shows what its URL says: the screen of the URL,  *)
(* or the city with the camera home; no timer is left to fire into it, and a *)
(* guest is never at rest on Owner controls (useCityRoute.ts:42-46,          *)
(* diveMachine.ts:12-15).                                                    *)
ShownIsUrl ==
  dive.phase \in {"idle", "inside"} =>
    /\ shown = Url
    /\ dive = InitialDive(shown)
    /\ due = 0
    /\ dive.phase = "idle" => camera = "home"
    /\ guest => shown # "owner"
=============================================================================

------------------------------ MODULE AppRouter ------------------------------
(***************************************************************************)
(* The router (router.ts) and what the shell (app-shell.ts) shows of where *)
(* it is: the browser's history, the element in the outlet, and the links  *)
(* of the sidebar.                                                         *)
(*                                                                         *)
(* navigate and go call one another, and nothing else runs meanwhile: each *)
(* call is a step, and what the user does waits until none is pending.     *)
(***************************************************************************)
EXTENDS Integers, Sequences

CONSTANTS
  Segment, Path,           \* sequences of segments the user may ask for
  NoPath                   \* no call is pending

Pages == {"none", "redirect", "pipeline-list", "pipeline-detail", "pipeline-canvas", "pvc-list", "secret-list"}

Root  == <<>>
Param == {":namespace", ":name"}

Component(path, component) == [path |-> path, component |-> component, redirect |-> NoPath]
Redirect(path, target)     == [path |-> path, component |-> "redirect", redirect |-> target]

\* Mutant: the root is itself where it redirects to.
RoutesLoop == << Redirect(Root, Root), Component(<<"pipelines">>, "pipeline-list") >>

\* The routes, in the order in which they are tried.
Routes == <<
  Redirect(Root, <<"pipelines">>),
  Component(<<"pipelines">>, "pipeline-list"),
  Component(<<"pipelines", ":namespace", ":name">>, "pipeline-detail"),
  Component(<<"builder">>, "pipeline-canvas"),
  Component(<<"builder", ":namespace", ":name">>, "pipeline-canvas"),
  Component(<<"storage">>, "pvc-list"),
  Component(<<"secrets">>, "secret-list") >>

Target == {<<"pipelines">>}

ASSUME PathAssumption ==
  /\ Path \subseteq Seq(Segment) /\ "" \in Segment /\ NoPath \notin Path
  /\ {Root} \cup Target \subseteq Path

VARIABLES
  history, at,             \* the browser's history, and the entry it is at
  pending,                 \* the argument of a call of navigate under way
  outlet,                  \* the element in the outlet and its parameters
  currentPath              \* where the shell thinks it is

router == <<history, at, pending, outlet, currentPath>>

Location == history[at]
Idle     == pending = NoPath

----------------------------------------------------------------------------
\* Matching: a parameter stands for any segment that is not empty.

Matches(route, path) ==
  /\ Len(route.path) = Len(path)
  /\ \A i \in DOMAIN path : IF route.path[i] \in Param THEN path[i] # "" ELSE route.path[i] = path[i]

Matching(path) == {n \in DOMAIN Routes : Matches(Routes[n], path)}

FirstMatch(path) == Routes[CHOOSE n \in Matching(path) : \A m \in Matching(path) : n <= m]

Params(route, path) ==
  [p \in Param |-> IF \E i \in DOMAIN path : route.path[i] = p
                   THEN path[CHOOSE i \in DOMAIN path : route.path[i] = p] ELSE ""]

Element(path) == [component |-> FirstMatch(path).component, params |-> Params(FirstMatch(path), path)]

NoElement == [component |-> "none", params |-> [p \in Param |-> ""]]

IsRoute(path)    == Matching(path) # {}
IsRedirect(path) == IsRoute(path) /\ FirstMatch(path).component = "redirect"

----------------------------------------------------------------------------
\* A new entry after this one; those that followed it are gone.  pushState
\* tells nobody.
Push(path) ==
  /\ history' = Append(SubSeq(history, 1, at), path)
  /\ at' = at + 1

\* Mutant: the entry is not made.
GoWithoutPush(path) == pending' = path /\ UNCHANGED <<history, at, outlet, currentPath>>

Go(path) == Push(path) /\ pending' = path /\ UNCHANGED <<outlet, currentPath>>

\* The element is replaced, also by one of its own kind, and the shell is told.
RenderComponent(path) ==
  /\ outlet' = Element(path)
  /\ currentPath' = Location
  /\ pending' = NoPath
  /\ UNCHANGED <<history, at>>

GiveUp == pending' = NoPath /\ UNCHANGED <<history, at, outlet, currentPath>>

NoRoute == ~ Idle /\ ~ IsRoute(pending) /\ IF pending = Root THEN GiveUp ELSE Go(Root)

FollowRedirect == ~ Idle /\ IsRedirect(pending) /\ Go(FirstMatch(pending).redirect)

Arrive == ~ Idle /\ IsRoute(pending) /\ ~ IsRedirect(pending) /\ RenderComponent(pending)

----------------------------------------------------------------------------
\* What the browser does.

\* Back and forward: popstate reaches the shell, then the router.
PopState(n) ==
  /\ Idle /\ n \in DOMAIN history
  /\ at' = n /\ currentPath' = history[n] /\ pending' = history[n]
  /\ UNCHANGED <<history, outlet>>

\* The server has the same page for every path that is neither the API nor
\* a file: the application starts anew at it.
Load(path) ==
  /\ outlet' = NoElement
  /\ currentPath' = path /\ pending' = path

\* The address bar, and a link inside a component, which the router's
\* listener on the document does not see; or the same page again, after a
\* reload, or back to a page the browser has dropped.
LoadNew(path) == Idle /\ Push(path) /\ Load(path)
Reload(n)     == Idle /\ n \in DOMAIN history /\ at' = n /\ Load(history[n]) /\ UNCHANGED history

RouterInit ==
  /\ history \in {<<path>> : path \in Path} /\ at = 1
  /\ outlet = NoElement /\ currentPath = history[1] /\ pending = history[1]

NavigateStep == NoRoute \/ FollowRedirect \/ Arrive
=============================================================================

------------------------------ MODULE Inspector ------------------------------
(***************************************************************************)
(* muduo::net::Inspector: commands that threads register and remove, and   *)
(* that the loop of its HttpServer looks up and runs for the requests it   *)
(* gets.  mutex_ is held from the lookup until the command has returned.   *)
(***************************************************************************)
EXTENDS Integers, Sequences

CONSTANTS Modules, Commands,    \* names
          Builtin,              \* commands of ProcessInspector and SystemInspector
          MaxAdds               \* bound: calls of add()

Names == Modules \X Commands

ASSUME InspectorAssumption == Builtin \subseteq Names

\* The paths of requests, cut at every '/': the help page "/", "//", the icon, a module alone, a
\* command with or without an argument, and one with an empty part.
Root == <<"", "">>
Paths ==
  {Root, <<"", "", "">>, <<"", "favicon.ico">>} \union {<<"", m>> : m \in Modules}
    \union {<<"", n[1], n[2]>> : n \in Names} \union {<<"", n[1], "", n[2], "arg">> : n \in Names}

VARIABLES started,        \* is server_ listening?
          modules_,       \* the callback of each command: 0 if there is none, negative if it is empty
          helps_,         \* commands that have a help text
          calls,          \* calls of add(), counted; they name the callbacks
          locked,         \* does the loop hold mutex_ while a command runs?
          request,        \* the path that onRequest() works on, or <<>>
          runs,           \* the callback that runs, with its name: [name, cb], or NoRun
          listing,        \* the commands of the last help page, and
          status          \* the status of the last response

inspectorVars == <<started, modules_, helps_, calls, locked, request, runs, listing, status>>

NoRun == [name |-> <<>>, cb |-> 0]

------------------------------------------------------------------------------

\* The constructor: the commands are there before the loop starts the server.
InspectorInit ==
  /\ started = FALSE
  /\ modules_ = [n \in Names |-> IF n \in Builtin THEN 1 ELSE 0] /\ helps_ = Builtin
  /\ calls = 1 /\ locked = FALSE /\ request = <<>> /\ runs = NoRun /\ listing = {} /\ status = 0

start ==
  /\ ~started /\ started' = TRUE
  /\ UNCHANGED <<modules_, helps_, calls, locked, request, runs, listing, status>>

\* add() and remove() hold mutex_ all the time.
add(n, empty) ==
  /\ ~locked /\ calls < MaxAdds /\ calls' = calls + 1
  /\ modules_' = [modules_ EXCEPT ![n] = IF empty THEN -calls' ELSE calls'] /\ helps_' = helps_ \union {n}
  /\ UNCHANGED <<started, locked, request, runs, listing, status>>

\* Mutant: the help text stays.
Unhelped_Not(n) == helps_

Unhelped(n) == helps_ \ {n}

remove(n) ==
  /\ ~locked
  /\ modules_' = [modules_ EXCEPT ![n] = 0] /\ helps_' = Unhelped(n)
  /\ UNCHANGED <<started, calls, locked, request, runs, listing, status>>

------------------------------------------------------------------------------
(* onRequest(), in the loop. *)

\* The parts of a path that are not empty.
split(path) == SelectSeq(path, LAMBDA part : part # "")

Arrive(path) ==
  /\ started /\ request = <<>> /\ request' = path
  /\ UNCHANGED <<started, modules_, helps_, calls, locked, runs, listing, status>>

Respond(s) == status' = s /\ request' = <<>>

\* The path "/": the page is made with mutex_ held.
Help ==
  /\ request = Root /\ ~locked
  /\ listing' = helps_ /\ Respond(200)
  /\ UNCHANGED <<started, modules_, helps_, calls, locked, runs>>

\* Paths with one part or none take no mutex.
Simple ==
  /\ request \notin {<<>>, Root} /\ Len(split(request)) < 2
  /\ Respond(IF split(request) = <<"favicon.ico">> THEN 200 ELSE 404)
  /\ UNCHANGED <<started, modules_, helps_, calls, locked, runs, listing>>

Named == LET parts == split(request) IN <<parts[1], parts[2]>>

\* Mutant: mutex_ is released before the command runs.
HeldWhileRunning_Not == FALSE

HeldWhileRunning == TRUE

Lookup ==
  /\ request # <<>> /\ Len(split(request)) >= 2 /\ runs = NoRun /\ ~locked
  /\ IF modules_[Named] > 0
     THEN /\ runs' = [name |-> Named, cb |-> modules_[Named]] /\ locked' = HeldWhileRunning
          /\ UNCHANGED <<request, status>>
     ELSE Respond(404) /\ UNCHANGED <<runs, locked>>
  /\ UNCHANGED <<started, modules_, helps_, calls, listing>>

\* The command returns, and mutex_ is released.
Return ==
  /\ runs # NoRun /\ runs' = NoRun
  /\ locked' = FALSE
  /\ Respond(200)
  /\ UNCHANGED <<started, modules_, helps_, calls, listing>>

onRequest == Help \/ Simple \/ Lookup \/ Return

InspectorNext ==
  \/ start \/ onRequest \/ \E p \in Paths : Arrive(p)
  \/ \E n \in Names : remove(n) \/ \E empty \in BOOLEAN : add(n, empty)

InspectorSpec == InspectorInit /\ [][InspectorNext]_inspectorVars

------------------------------------------------------------------------------
(* Properties. *)

\* A command that runs is the one registered under its name for as long as it runs: when remove()
\* has returned, or add() has replaced it, its callback does not run and its help text is gone
\* (Inspector.cc:88-107, 173-190).
RemovedIsQuiet ==
  /\ runs # NoRun => modules_[runs.name] = runs.cb
  /\ helps_ = {n \in Names : modules_[n] # 0}
=============================================================================

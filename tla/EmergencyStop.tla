---------------------------- MODULE EmergencyStop -----------------------------
(***************************************************************************)
(* src/src/risk/_state.py, kill_switch.py, keyboard_stop.py, shutdown.py:  *)
(* one StopState, set by the SIGINT handler, by the thread that watches    *)
(* the kill-switch file, by the thread that reads the keyboard, and by the *)
(* main thread, whose risk checks look at the file too.                    *)
(*                                                                         *)
(* The SIGINT handler is a frame on the main thread's stack: it may start  *)
(* between any two steps of the main frame, which then waits for it.  The  *)
(* lock is not reentrant: a handler that starts while the main frame holds *)
(* it waits for ever, and the stop it asks for never comes.                *)
(***************************************************************************)
EXTENDS Naturals, Sequences, FiniteSets, Functions

CONSTANTS Hooks,       \* callbacks the main thread registers
          None

Frames == {"main", "handler", "monitor", "listener"}

VARIABLES stopped,     \* _stopped_event
          first,       \* _first_event: the reason of the first request
          lock,        \* the frame that holds _lock
          hooks,       \* _hooks, in the order of registration
          at,          \* Frames -> where the frame is
          todo,        \* Frames -> hooks_snapshot, what is left of it
          ran,         \* history: hooks that ran, in order
          killFile,    \* the kill-switch file exists
          key,         \* ESC was pressed and not read yet
          sigints      \* _sigint_count

vars == <<stopped, first, lock, hooks, at, todo, ran, killFile, key, sigints>>
world == <<killFile, key, sigints>>
state == <<stopped, first, lock, hooks, todo, ran>>

Reason == [main |-> "KILL_SWITCH", monitor |-> "KILL_SWITCH",
           listener |-> "ESC_KEY", handler |-> "SIGINT"]

TypeOK ==
    /\ stopped \in BOOLEAN
    /\ first \in {None, "KILL_SWITCH", "ESC_KEY", "SIGINT"}
    /\ lock \in Frames \union {None}
    /\ \A f \in Frames :
           at[f] \in {"idle", "looking", "wanting", "locked", "recorded", "set", "hooks",
                      "registering", "exited"}
    /\ Range(hooks) \subseteq Hooks /\ Len(hooks) <= Cardinality(Hooks)

Init ==
    /\ stopped = FALSE /\ first = None /\ lock = None
    /\ hooks = <<>> /\ ran = <<>>
    /\ at = [f \in Frames |-> "idle"]
    /\ todo = [f \in Frames |-> <<>>]
    /\ killFile = FALSE /\ key = FALSE /\ sigints = 0

\* The main frame stands still while the handler runs on top of it.
CanRun(f) == at[f] # "exited" /\ (f = "main" => at["handler"] = "idle")
GoTo(f, place) == at' = [at EXCEPT ![f] = place]
-----------------------------------------------------------------------------
(* StopState.request_stop and register_hook *)

Acquire(f) ==
    /\ at[f] = "wanting" /\ CanRun(f)
    /\ lock = None
    /\ lock' = f
    /\ GoTo(f, "locked")
    /\ UNCHANGED <<stopped, first, hooks, todo, ran, world>>

AlreadyStopped(f) ==
    /\ at[f] = "locked" /\ CanRun(f)
    /\ stopped
    /\ lock' = None
    /\ GoTo(f, "idle")
    /\ UNCHANGED <<stopped, first, hooks, todo, ran, world>>

\* Mutant: the event is looked at before the lock and not again under it.
RecordAlways(f) ==
    /\ at[f] = "locked" /\ CanRun(f)
    /\ first' = Reason[f]
    /\ GoTo(f, "recorded")
    /\ UNCHANGED <<stopped, lock, hooks, todo, ran, world>>

Record(f) ==
    /\ at[f] = "locked" /\ CanRun(f)
    /\ ~stopped
    /\ first' = Reason[f]
    /\ GoTo(f, "recorded")
    /\ UNCHANGED <<stopped, lock, hooks, todo, ran, world>>

SetEvent(f) ==
    /\ at[f] = "recorded" /\ CanRun(f)
    /\ stopped' = TRUE
    /\ GoTo(f, "set")
    /\ UNCHANGED <<first, lock, hooks, todo, ran, world>>

Release(f) ==
    /\ at[f] = "set" /\ CanRun(f)
    /\ lock' = None
    /\ todo' = [todo EXCEPT ![f] = hooks]
    /\ GoTo(f, "hooks")
    /\ UNCHANGED <<stopped, first, hooks, ran, world>>

\* Hooks run outside the lock; an exception of one does not stop the others.
RunHook(f) ==
    /\ at[f] = "hooks" /\ CanRun(f)
    /\ \/ /\ todo[f] # <<>>
          /\ ran' = Append(ran, Head(todo[f]))
          /\ todo' = [todo EXCEPT ![f] = Tail(@)]
          /\ UNCHANGED at
       \/ /\ todo[f] = <<>>
          /\ GoTo(f, "idle")
          /\ UNCHANGED <<todo, ran>>
    /\ UNCHANGED <<stopped, first, lock, hooks, world>>

RegisterHook ==
    /\ at["main"] = "idle" /\ CanRun("main")
    /\ lock = None /\ Len(hooks) < Cardinality(Hooks)
    /\ lock' = "main"
    /\ GoTo("main", "registering")
    /\ UNCHANGED <<stopped, first, hooks, todo, ran, world>>

Registered ==
    /\ at["main"] = "registering" /\ CanRun("main")
    /\ \E h \in Hooks \ Range(hooks) : hooks' = Append(hooks, h)
    /\ lock' = None
    /\ GoTo("main", "idle")
    /\ UNCHANGED <<stopped, first, todo, ran, world>>
-----------------------------------------------------------------------------
(* Who asks for a stop *)

\* check_now, of the risk checks and in the loop of the watching thread: nothing
\* to do once stopped (the loop ends); otherwise look at the file, which may be
\* there or fail to answer.
CheckNow(f) ==
    /\ f \in {"main", "monitor"} /\ at[f] = "idle" /\ CanRun(f)
    /\ ~stopped
    /\ GoTo(f, "looking")
    /\ UNCHANGED <<state, world>>

LookAtFile(f) ==
    /\ at[f] = "looking" /\ CanRun(f)
    /\ \/ ~killFile /\ GoTo(f, "idle")
       \/ GoTo(f, "wanting")
    /\ UNCHANGED <<state, world>>

ListenerReads ==
    /\ at["listener"] = "idle"
    /\ ~stopped /\ key
    /\ key' = FALSE
    /\ GoTo("listener", "wanting")
    /\ UNCHANGED <<state, killFile, sigints>>

\* The first SIGINT asks for a stop; the second ends the process, even inside
\* the handler of the first one.
Sigint ==
    /\ at["main"] # "exited" /\ sigints < 2
    /\ sigints' = sigints + 1
    /\ at' = IF sigints = 0 THEN [at EXCEPT !["handler"] = "wanting"]
             ELSE [f \in Frames |-> "exited"]
    /\ UNCHANGED <<state, killFile, key>>

Operator ==
    /\ \/ ~killFile /\ killFile' = TRUE /\ UNCHANGED key
       \/ ~key /\ key' = TRUE /\ UNCHANGED killFile
    /\ at["main"] # "exited"
    /\ UNCHANGED <<state, at, sigints>>

Next ==
    \/ \E f \in Frames :
          \/ Acquire(f) \/ AlreadyStopped(f) \/ Record(f) \/ SetEvent(f) \/ Release(f)
          \/ RunHook(f) \/ CheckNow(f) \/ LookAtFile(f)
    \/ RegisterHook \/ Registered \/ ListenerReads \/ Sigint \/ Operator

Spec == Init /\ [][Next]_vars
-----------------------------------------------------------------------------
(* What must hold *)

\* Whoever sees the stop, without taking the lock, finds its reason recorded,
\* and no later request replaces it, whichever of the four comes second.
FirstReasonStands ==
    [][/\ (stopped' => first' # None)
       /\ (stopped => first' = first)]_vars

\* The hooks (cancel open orders, snapshot positions, disconnect) run at most
\* once each and in the order of their registration, however many frames ask
\* for the stop at the same time.
HooksRunOnce ==
    /\ Len(ran) <= Len(hooks)
    /\ \A k \in 1 .. Len(ran) : ran[k] = hooks[k]

\* Whoever holds the lock can go on and give it back, but for one case: the
\* handler interrupted the main frame under the lock and waits for it itself.
\* Only the second SIGINT, which ends the process, gets out of that.
LockComesFree ==
    lock = None \/ at["main"] = "exited"
      \/ (at[lock] \in {"locked", "recorded", "set", "registering"}
            /\ (CanRun(lock) \/ (lock = "main" /\ at["handler"] = "wanting")))

\* What the main thread, the watchers and the signal handler owe each other: one
\* stop, each hook once and in order, and a lock that nobody else holds for ever.
OneStopForAll == TypeOK /\ HooksRunOnce /\ LockComesFree
=============================================================================

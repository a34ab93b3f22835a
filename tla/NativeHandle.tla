---------------------------- MODULE NativeHandle ----------------------------
(***************************************************************************)
(* The wrappers that Go, Java and C# put around a handle of the C ABI.     *)
(* Each owns a pointer that a method passes to the library, that closing   *)
(* the wrapper frees, and that the garbage collector frees when it finds   *)
(* the wrapper unreachable - at any moment from the last use of the        *)
(* wrapper's own object on, be a native call with its pointer still        *)
(* running.  Go and C# keep the object alive with KeepAlive, Java with     *)
(* reachabilityFence; a C# SafeHandle counts the calls besides, except for *)
(* Update.                                                                 *)
(*                                                                         *)
(* A wrapper is not thread-safe: one caller at a time uses it, next to the *)
(* collector; only what a SafeHandle counts may be disposed of meanwhile.  *)
(***************************************************************************)
EXTENDS Naturals

CONSTANTS
    Objects,    \* the wrappers
    Kinds,      \* what each may be a wrapper of
    Careful     \* the kinds whose callers keep the wrapper until a call returns

Wrappers == {"go", "java", "java_feed", "csharp"}

ASSUME KindsAssumption == Kinds \subseteq Wrappers /\ Careful \subseteq Wrappers

VARIABLES
    kind,     \* what the wrapper is
    held,     \* does the program still hold a reference
    call,     \* the method running: "update", "batch", "shut" (the native close
              \* of a feed), "closing", or "idle"
    closed,   \* the wrapper's own flag: a nil handle, closed, IsClosed
    armed,    \* is there a finalizer or cleaner action still to run
    users,    \* the count of a SafeHandle: one for itself, one per counted call
    frees     \* history: how often the library's _free was called

wrapperVars == <<kind, held, call, closed, armed, users, frees>>

Methods == {"update", "batch"}
Calls == Methods \cup {"shut", "closing", "idle"}

WrapperInit ==
    /\ kind \in [Objects -> Kinds]
    /\ held = [o \in Objects |-> TRUE]
    /\ call = [o \in Objects |-> "idle"]
    /\ closed = [o \in Objects |-> FALSE]
    /\ armed = [o \in Objects |-> TRUE]
    /\ users = [o \in Objects |-> IF kind[o] = "csharp" THEN 1 ELSE 0]
    /\ frees = [o \in Objects |-> 0]

\* Mutant: KeepAlive does not follow the native call.
NothingFenced(o) == {}

\* The calls after which the method uses its own object once more, if only to
\* keep it alive: next of BinanceFeed.java is the one that does not.
Fenced(o) ==
    IF kind[o] = "java_feed" THEN {"shut"} ELSE Methods

\* Mutant: the action that frees the handle refers to the wrapper.
HeldByAction(o) == held[o] \/ armed[o] \/ call[o] \in Fenced(o)

\* What the collector goes by.  Go's Close ends with a use of its object.
Reachable(o) ==
    \/ held[o]
    \/ call[o] \in Fenced(o)
    \/ kind[o] = "go" /\ call[o] = "closing"

\* A SafeHandle counts every call that goes through the marshaller; Update takes
\* its pointer past it.
Counted(o, method) == kind[o] = "csharp" /\ method = "batch"

Ready(o) == held[o] /\ call[o] = "idle"

\* A method reads the pointer and enters the library.  On a closed wrapper it
\* throws, or passes the NULL that every function of the library turns away.
Enter(o, method) ==
    /\ Ready(o)
    /\ ~closed[o]
    /\ call' = [call EXCEPT ![o] = method]
    /\ users' = [users EXCEPT ![o] = IF Counted(o, method) THEN @ + 1 ELSE @]
    /\ UNCHANGED <<kind, held, closed, armed, frees>>

\* The library returns.  The last user of a disposed SafeHandle frees it.
Return(o) ==
    /\ call[o] \in Methods
    /\ call' = [call EXCEPT ![o] = "idle"]
    /\ IF Counted(o, call[o])
       THEN /\ users' = [users EXCEPT ![o] = @ - 1]
            /\ frees' = [frees EXCEPT ![o] = IF users[o] = 1 THEN @ + 1 ELSE @]
       ELSE UNCHANGED <<users, frees>>
    /\ UNCHANGED <<kind, held, closed, armed>>

\* The caller's last reference goes, perhaps while its last call runs.
Drop(o) ==
    /\ held[o]
    /\ kind[o] \in Careful => call[o] \notin Methods
    /\ held' = [held EXCEPT ![o] = FALSE]
    /\ UNCHANGED <<kind, call, closed, armed, users, frees>>

-----------------------------------------------------------------------------
(* Go: Close frees, clears the handle and takes the finalizer off. *)

GoClose(o) ==
    /\ kind[o] = "go"
    /\ Ready(o)
    /\ ~closed[o]
    /\ frees' = [frees EXCEPT ![o] = @ + 1]
    /\ call' = [call EXCEPT ![o] = "closing"]
    /\ UNCHANGED <<kind, held, closed, armed, users>>

\* Mutant: Close leaves the pointer in place.
GoClosedKeepsPointer(o) ==
    /\ kind[o] = "go"
    /\ call[o] = "closing"
    /\ armed' = [armed EXCEPT ![o] = FALSE]
    /\ call' = [call EXCEPT ![o] = "idle"]
    /\ UNCHANGED <<kind, held, closed, users, frees>>

GoClosed(o) ==
    /\ kind[o] = "go"
    /\ call[o] = "closing"
    /\ closed' = [closed EXCEPT ![o] = TRUE]
    /\ armed' = [armed EXCEPT ![o] = FALSE]
    /\ call' = [call EXCEPT ![o] = "idle"]
    /\ UNCHANGED <<kind, held, users, frees>>

\* The finalizer is Close.
GoFinalize(o) ==
    /\ kind[o] = "go"
    /\ armed[o]
    /\ ~Reachable(o)
    /\ frees' = [frees EXCEPT ![o] = IF closed[o] THEN @ ELSE @ + 1]
    /\ closed' = [closed EXCEPT ![o] = TRUE]
    /\ armed' = [armed EXCEPT ![o] = FALSE]
    /\ UNCHANGED <<kind, held, call, users>>

-----------------------------------------------------------------------------
(* Java: close and the Cleaner share an action that runs once. *)

Java(o) == kind[o] \in {"java", "java_feed"}

JavaClose(o) ==
    /\ kind[o] = "java"
    /\ Ready(o)
    /\ ~closed[o]
    /\ closed' = [closed EXCEPT ![o] = TRUE]
    /\ call' = [call EXCEPT ![o] = "closing"]
    /\ UNCHANGED <<kind, held, armed, users, frees>>

\* close of a feed closes the connection first, by a native call of its own.
FeedShut(o) ==
    /\ kind[o] = "java_feed"
    /\ Ready(o)
    /\ ~closed[o]
    /\ call' = [call EXCEPT ![o] = "shut"]
    /\ UNCHANGED <<kind, held, closed, armed, users, frees>>

FeedClose(o) ==
    /\ call[o] = "shut"
    /\ closed' = [closed EXCEPT ![o] = TRUE]
    /\ call' = [call EXCEPT ![o] = "closing"]
    /\ UNCHANGED <<kind, held, armed, users, frees>>

\* The action registered with the Cleaner.
FreeAction(o) ==
    /\ frees' = [frees EXCEPT ![o] = IF armed[o] THEN @ + 1 ELSE @]
    /\ armed' = [armed EXCEPT ![o] = FALSE]

\* cleanable.clean(), the last statement of close.
JavaClean(o) ==
    /\ Java(o)
    /\ call[o] = "closing"
    /\ FreeAction(o)
    /\ call' = [call EXCEPT ![o] = "idle"]
    /\ UNCHANGED <<kind, held, closed, users>>

\* The Cleaner's thread.
Cleaner(o) ==
    /\ Java(o)
    /\ armed[o]
    /\ ~Reachable(o)
    /\ FreeAction(o)
    /\ UNCHANGED <<kind, held, call, closed, users>>

-----------------------------------------------------------------------------
(* C#: a SafeHandle frees with its last user. *)

Release(o) ==
    /\ closed' = [closed EXCEPT ![o] = TRUE]
    /\ armed' = [armed EXCEPT ![o] = FALSE]
    /\ users' = [users EXCEPT ![o] = @ - 1]
    /\ frees' = [frees EXCEPT ![o] = IF users[o] = 1 THEN @ + 1 ELSE @]

\* From the caller, or from another thread while a counted call runs; "A Dispose
\* on another thread while an update is in flight is not guarded".
Dispose(o) ==
    /\ kind[o] = "csharp"
    /\ held[o]
    /\ call[o] # "update"
    /\ ~closed[o]
    /\ Release(o)
    /\ UNCHANGED <<kind, held, call>>

\* The finalizer of the SafeHandle.
FinalizeSafeHandle(o) ==
    /\ kind[o] = "csharp"
    /\ armed[o]
    /\ ~Reachable(o)
    /\ Release(o)
    /\ UNCHANGED <<kind, held, call>>

-----------------------------------------------------------------------------
Collect(o) == GoFinalize(o) \/ Cleaner(o) \/ FinalizeSafeHandle(o)
Proceed(o) == Return(o) \/ GoClosed(o) \/ FeedClose(o) \/ JavaClean(o)

WrapperNext ==
    \E o \in Objects :
        \/ \E method \in Methods : Enter(o, method)
        \/ Drop(o)
        \/ GoClose(o) \/ JavaClose(o) \/ FeedShut(o) \/ Dispose(o)
        \/ Proceed(o)
        \/ Collect(o)

WrapperSpec == WrapperInit /\ [][WrapperNext]_wrapperVars

\* Calls return, and a collector that goes on running finds what is unreachable.
WrapperFairness ==
    \A o \in Objects : WF_wrapperVars(Proceed(o)) /\ WF_wrapperVars(Collect(o))
WrapperFairSpec == WrapperSpec /\ WrapperFairness

-----------------------------------------------------------------------------
(* Properties. *)

\* "handle must be a valid pointer from ..._new (not freed), or NULL": for as long
\* as a call is in the library, whatever the collector does meanwhile.
InLibrary(o) == call[o] \in Methods \cup {"shut"}
NotFreedInUse == \A o \in Objects : InLibrary(o) => frees[o] = 0

\* "and not previously freed": closing twice, closing while the finalizer or the
\* Cleaner runs, disposing while a call runs - none frees the handle twice.
FreedOnce == \A o \in Objects : frees[o] <= 1

\* "Handles are freed by Close and, as a backstop, by a finalizer": a wrapper that
\* was closed or that nobody refers to any more does not leak.
FreedInTheEnd ==
    \A o \in Objects : (closed[o] \/ ~held[o]) ~> (frees[o] >= 1)

=============================================================================

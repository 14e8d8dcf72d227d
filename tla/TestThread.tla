----------------------------- MODULE TestThread -----------------------------
(***************************************************************************)
(* GPS sessions (garden_entry and test_main, test_android_gps.cpp), one    *)
(* per manager thread, and their helper test_thread, which the first one   *)
(* creates and which waits on test_thread_cond.  Callbacks of the location *)
(* library and of the XTRA client hand it work through the single slot     *)
(* test_thread_action.                                                     *)
(*                                                                         *)
(* test_thread_mutex is held by the helper from the moment it wakes until  *)
(* it waits again ("serving"); every other critical section is one action. *)
(* In Spec sessions follow one another; GpsDaemon says which threads run   *)
(* them, and when they overlap.                                            *)
(***************************************************************************)
EXTENDS Naturals

CONSTANTS
  Tids,          \* the manager threads
  Agps,          \* TRUE: the start arguments carry -S (an APN)
  Posts,         \* the actions callbacks post
  MaxSessions,   \* bound: sessions run
  MaxPosts       \* bound: actions posted by callbacks

AtlActions == {"OPEN_ATL", "CLOSE_ATL"}
XtraActions == {"XTRA_DATA", "XTRA_TIME"}
Work == AtlActions \cup XtraActions

ASSUME SessionConstants ==
  /\ "static" \notin Tids
  /\ Agps \in BOOLEAN /\ Posts \subseteq Work
  /\ MaxSessions \in Nat /\ MaxPosts \in Nat

VARIABLES
  pc, sessions,          \* where each thread is in test_main; sessions begun
  lib_handle,            \* the library is loaded
  interface,             \* location_test_interface_ptr: "unmade" (NULL, create not yet called),
                         \* "made", or "null" (create gave none, for good)
  xtra_engine_init_flag, xtra_inits,   \* and how often the XTRA client was initialised
  apn,                   \* whose memory sOptions.agpsData.apn points to: a thread's stack
                         \* or "static"
  exited,                \* exit(-1), or a call through a null pointer
  helper, creations,     \* test_thread, and how often it and its mutexes were set up
  test_thread_action,
  early,                 \* history: the action was posted before the helper first waited
  fresh,                 \* history: downloaded XTRA data not yet injected
  posts

libVars == <<lib_handle, interface, exited>>
xtraVars == <<xtra_engine_init_flag, xtra_inits>>
sessVars == <<pc, sessions, libVars, xtraVars, apn>>
helperVars == <<helper, creations>>
slotVars == <<test_thread_action, early>>
cbVars == <<fresh, posts>>
vars == <<sessVars, helperVars, slotVars, cbVars>>

Initialised == {"init", "nav", "quit", "sleep"}
PcStates == Initialised \cup {"idle", "create", "load", "interface", "xtrainit", "xtraflag"}

TypeOK ==
  /\ pc \in [Tids -> PcStates] /\ sessions \in 0..MaxSessions /\ apn \in Tids \cup {"static"}
  /\ lib_handle \in BOOLEAN
  /\ interface \in {"unmade", "made", "null"} /\ exited \in BOOLEAN
  /\ xtra_engine_init_flag \in BOOLEAN /\ xtra_inits \in Nat
  /\ helper \in {"none", "starting", "waiting", "woken", "serving", "exited"}
  /\ creations \in 0..1
  /\ test_thread_action \in Work \cup {"NONE", "QUIT"}
  /\ early \in BOOLEAN /\ fresh \in BOOLEAN
  /\ posts \in 0..MaxPosts

Init ==
  /\ pc = [t \in Tids |-> "idle"] /\ sessions = 0 /\ apn = "static"
  /\ lib_handle = FALSE /\ interface = "unmade" /\ exited = FALSE
  /\ xtra_engine_init_flag = FALSE /\ xtra_inits = 0
  /\ helper = "none" /\ creations = 0
  /\ test_thread_action = "NONE" /\ early = FALSE /\ fresh = FALSE
  /\ posts = 0

Goto(t, l) == pc' = [pc EXCEPT ![t] = l]

-----------------------------------------------------------------------------
(* A session.  The operators with a suffix are mutants.                    *)

SlotAtStart_Kept == test_thread_action   \* the slot is not cleared
SlotAtStart == "NONE"

ApnOf_Once(t) == IF Agps /\ sessions = 0 THEN t ELSE apn   \* getopt is not restarted
\* -S leaves a pointer into the command line, which lies on the thread's stack.
ApnOf(t) == IF Agps THEN t ELSE apn

FirstTime_Always == TRUE   \* every session initialises the mutexes and the helper
FirstTime == ~lib_handle

\* garden_entry parses its arguments; test_main clears the slot, without the mutex and
\* whatever it holds.
Enter(t) ==
  /\ pc[t] = "idle" /\ sessions < MaxSessions
  /\ sessions' = sessions + 1
  /\ apn' = ApnOf(t)
  /\ test_thread_action' = SlotAtStart
  /\ Goto(t, IF FirstTime THEN "create" ELSE "load")
  /\ UNCHANGED <<libVars, xtraVars, helperVars, early, cbVars>>

\* mutex_init and pthread_create of test_thread, which may fail: its result is ignored,
\* and no later session creates the helper.
CreateHelper(t) ==
  /\ pc[t] = "create" /\ Goto(t, "load")
  /\ creations' = creations + 1
  /\ helper' = "starting" \/ UNCHANGED helper
  /\ UNCHANGED <<sessions, libVars, xtraVars, apn, slotVars, cbVars>>

Exit_GoOn(t) == Goto(t, "xtrainit") /\ UNCHANGED exited   \* the failure is only logged
Exit(t) == exited' = TRUE /\ UNCHANGED pc

\* lib_handle is tested a second time; dlopen may fail.
Load(t) ==
  /\ pc[t] = "load"
  /\ \/ lib_handle /\ Goto(t, "xtrainit") /\ UNCHANGED <<lib_handle, exited>>
     \/ ~lib_handle /\ lib_handle' = TRUE /\ Goto(t, "interface") /\ UNCHANGED exited
     \/ ~lib_handle /\ Exit(t) /\ UNCHANGED lib_handle
  /\ UNCHANGED <<sessions, interface, xtraVars, apn, helperVars, slotVars, cbVars>>

\* dlsym, which may fail, and create, whose result is stored in a global of its own; with
\* no create, or no interface from it, the session goes on all the same.
MakeInterface(t) ==
  /\ pc[t] = "interface"
  /\ \/ interface' \in {"made", "null"} /\ Goto(t, "xtrainit") /\ UNCHANGED exited
     \/ Exit(t) /\ UNCHANGED interface
  /\ UNCHANGED <<sessions, lib_handle, xtraVars, apn, helperVars, slotVars, cbVars>>

XtraDone_Never == FALSE   \* the flag is not looked at
XtraDone == xtra_engine_init_flag

\* Without an XTRA client (get_xtra_client_interface gives NULL), or with one that was
\* initialised before, the session goes on to location_init. The flag is set after the
\* call it guards.
XtraInit(t) ==
  /\ pc[t] = "xtrainit"
  /\ \/ Goto(t, "init") /\ UNCHANGED xtra_inits
     \/ ~XtraDone /\ Goto(t, "xtraflag") /\ xtra_inits' = xtra_inits + 1
  /\ UNCHANGED <<sessions, libVars, xtra_engine_init_flag, apn, helperVars, slotVars, cbVars>>

XtraFlag(t) ==
  /\ pc[t] = "xtraflag" /\ Goto(t, "init")
  /\ xtra_engine_init_flag' = TRUE
  /\ UNCHANGED <<sessions, libVars, xtra_inits, apn, helperVars, slotVars, cbVars>>

Move(t, from, to) ==
  /\ pc[t] = from /\ Goto(t, to)
  /\ UNCHANGED <<sessions, libVars, xtraVars, apn, helperVars, slotVars, cbVars>>

\* location_init: with -1 test_main returns at once, leaving the helper alone; through
\* a null pointer the call ends the process.
HaveInterface == interface = "made"
Navigate(t) == HaveInterface /\ Move(t, "init", "nav")
LocationInitFails(t) == HaveInterface /\ Move(t, "init", "idle")
LocationInitDies(t) ==
  /\ pc[t] = "init" /\ ~HaveInterface /\ Exit(t)
  /\ UNCHANGED <<sessions, lib_handle, interface, xtraVars, apn, helperVars, slotVars, cbVars>>

\* The stop flag is seen; navigation is stopped and the location client closed.
StopNavigation(t) == Move(t, "nav", "quit")

-----------------------------------------------------------------------------
(* The slot.                                                               *)

MutexFree_Unlocked == TRUE   \* callbacks fill the slot without the mutex
MutexFree_Quit == helper \notin {"serving", "exited"}   \* the mutex stays locked on QUIT
MutexFree == helper # "serving"

\* One critical section: the action replaces whatever the slot held, and the signal
\* wakes the helper if it waits.
Post(a) ==
  /\ MutexFree
  /\ test_thread_action' = a
  /\ early' = (helper \in {"none", "starting"})
  /\ helper' = IF helper = "waiting" THEN "woken" ELSE helper
  /\ UNCHANGED creations

PostQuit(t) ==
  /\ pc[t] = "quit" /\ Goto(t, "sleep")
  /\ Post("QUIT")
  /\ UNCHANGED <<sessions, libVars, xtraVars, apn, cbVars>>

\* sleep(5), for the events the library has not processed yet, is taken to be long
\* enough for the helper to run.
SleepOver(t) ==
  /\ helper \notin {"starting", "woken", "serving"}
  /\ Move(t, "sleep", "idle")

\* test_agps_status_cb: from location_init on, and, as sleep(5) is there to assume, not
\* later than its end.
AgpsStatus(a) ==
  /\ \E t \in Tids : pc[t] \in {"nav", "quit", "sleep"}
  /\ a \in AtlActions /\ posts < MaxPosts
  /\ Post(a)
  /\ posts' = posts + 1
  /\ UNCHANGED <<sessVars, fresh>>

\* The XTRA client, initialised once, answers whenever it likes, in a later
\* session or between two.
XtraAnswer(a) ==
  /\ xtra_inits > 0 /\ a \in XtraActions /\ posts < MaxPosts
  /\ Post(a)
  /\ fresh' = (fresh \/ a = "XTRA_DATA")
  /\ posts' = posts + 1
  /\ UNCHANGED sessVars

-----------------------------------------------------------------------------
(* The helper.                                                             *)

Idle == UNCHANGED <<sessVars, creations, slotVars, cbVars>>

HelperStart == helper = "starting" /\ helper' = "waiting" /\ Idle

\* pthread_cond_wait may return without a signal; the helper has no predicate.
SpuriousWakeup == helper = "waiting" /\ helper' = "woken" /\ Idle

Wake ==
  /\ helper = "woken"
  /\ helper' = IF test_thread_action = "QUIT" THEN "exited" ELSE "serving"
  /\ Idle

SlotAfter == "NONE"

\* The switch, the call into the library, and test_thread_action = ACTION_NONE.
Serve ==
  /\ helper = "serving" /\ (test_thread_action \in Work => HaveInterface)
  /\ helper' = "waiting"
  /\ fresh' = (fresh /\ test_thread_action # "XTRA_DATA")
  /\ test_thread_action' = SlotAfter
  /\ UNCHANGED <<sessVars, creations, early, posts>>

ServeDies ==
  /\ helper = "serving" /\ test_thread_action \in Work /\ ~HaveInterface
  /\ exited' = TRUE
  /\ UNCHANGED <<pc, sessions, lib_handle, interface, xtraVars, apn, helperVars, slotVars,
                 cbVars>>

\* After exit nothing runs; a mutex that is initialised again under its users is
\* undefined, and the model goes no further.
Running == ~exited /\ creations <= 1

Session(t) ==
  \/ Enter(t) \/ CreateHelper(t) \/ Load(t) \/ MakeInterface(t) \/ XtraInit(t) \/ XtraFlag(t)
  \/ Navigate(t) \/ LocationInitFails(t) \/ LocationInitDies(t)
  \/ StopNavigation(t) \/ PostQuit(t) \/ SleepOver(t)
Callback == \E a \in Posts : AgpsStatus(a) \/ XtraAnswer(a)
Helper == HelperStart \/ Wake \/ Serve \/ ServeDies

Next == Running /\ ((\E t \in Tids : Session(t)) \/ Callback \/ Helper \/ SpuriousWakeup)

\* Sessions follow one another.
Alone == \A t, u \in Tids : pc[t] # "idle" /\ pc[u] # "idle" => t = u

\* The helper runs when it can; nobody must call back, start or stop a session.
Spec == Init /\ [][Next /\ Alone']_vars
FairSpec == Spec /\ WF_vars(Running /\ Helper)
-----------------------------------------------------------------------------
(* Properties, where sessions follow one another.                          *)

\* test_android_gps.cpp:853 "do this only the first time": the mutexes and condition
\* variables are initialised, and a helper created, only once, never under a helper or a
\* callback that uses them, however many sessions run and fail.
HelperOnce == [][creations' # creations => creations = 0 /\ xtra_inits = 0]_vars

\* Neither a session at location_init or beyond nor a helper with work to do ever comes
\* before the interface it calls through: the pointer is null only if the library gave
\* none. And the XTRA client is initialised at most once, whichever session found one.
InterfaceReady ==
  /\ \A t \in Tids : pc[t] \in Initialised => interface # "unmade"
  /\ helper = "serving" /\ test_thread_action \in Work => interface # "unmade"
  /\ xtra_inits <= 1

\* What becomes of work in the slot, other than being served. Posted before the helper's
\* first wait, or after its end, it is nobody's (early; "exited"). A later post, or the
\* QUIT, replaces it as long as the woken helper has not got the mutex. And test_main
\* clears the slot without the mutex: that can hit an answer of the XTRA client that
\* comes between two sessions, but no AGPS action, since sleep(5) outlasts the helper.
\* No other step takes work out of the slot, and no later work is slept on.
Lost == test_thread_action \in Work /\ test_thread_action' # test_thread_action
          /\ ~(helper = "serving" /\ helper' = "waiting")
WorkAccounted ==
  [][/\ Lost => \/ early \/ helper = "exited"
                \/ helper = "woken" /\ test_thread_action' # "NONE"
                \/ test_thread_action \in XtraActions /\ \A t \in Tids : pc[t] = "idle"
     /\ helper' = "waiting" /\ test_thread_action' \in Work => early']_vars

\* The helper opens the data connection with an APN whose memory is still there:
\* that of a session now in test_main, or the static default (an action posted
\* before its first wait, that a spurious wakeup may bring back later, aside).
ApnValid ==
  helper = "serving" /\ test_thread_action = "OPEN_ATL" /\ ~early /\ apn # "static"
    => pc[apn] # "idle"

\* A QUIT belongs to the session that posted it: one the helper missed cannot end
\* it in the middle of a later session.
NoStaleQuit ==
  [][helper' = "exited" /\ helper # "exited"
       => \A t \in Tids : pc[t] \in {"sleep", "idle"}]_vars

\* test_android_gps.cpp:440: "Signal data to test_thread that data is ready":
\* XTRA data handed over while a session navigates is injected, unless it stops or the
\* helper was not yet there to be signalled.
Navigating == \E t \in Tids : pc[t] = "nav"
DataInjected ==
  Navigating /\ test_thread_action = "XTRA_DATA" /\ ~early ~> ~fresh \/ ~Navigating
=============================================================================

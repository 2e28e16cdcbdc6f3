---------------------------- MODULE X11Platform -----------------------------
(***************************************************************************)
(* What a client opens of X11 and OpenGL (client/localclient_x11.cpp) and  *)
(* shares with the thread of its GlLoader (client/opengl/glloader_x11.cpp):*)
(* one thing after the other, each of which may fail, in the constructor   *)
(* of LocalClient, and back again in its destructor.                       *)
(*                                                                         *)
(* The start and the end of the loader's thread are as in ThreadLifecycle: *)
(* its constructor returns once the thread runs, and finish once it has    *)
(* cleaned up.  The thread does nothing in between.                        *)
(***************************************************************************)
VARIABLES cliPc,     \* where the main thread is
          held,      \* the things that are open or allocated
          loaderPc   \* the loader's thread: "none", "init", "loop", "finish"
                     \* (asked to end), "ended" (it has cleaned up and said
                     \* so), "gone" or "thrown"

platformVars == <<held, loaderPc>>

(* PlatformData, what the main thread has in it, and what the loader has.  *)
OfMain == {"platform", "dpy", "win", "ctx"}
OfLoader == {"ldr_dpy", "ldr_draw", "ldr_ctx"}

PlatformInit == cliPc = "display" /\ held = {} /\ loaderPc = "none"
-----------------------------------------------------------------------------
(* One stage of initializePlatform: it gets what it asks for, or gives     *)
(* back what there is and throws, which ends the process.                  *)
Stage(from, to, gets, drops) ==
  /\ cliPc = from
  /\ \/ cliPc' = to /\ held' = held \cup gets
     \/ cliPc' = "aborted" /\ held' = held \ drops
  /\ UNCHANGED loaderPc

OpenDisplay   == Stage("display", "config", {"platform", "dpy"}, {})
ChooseConfig  == Stage("config", "visual", {}, {"dpy", "platform"})
GetVisual     == Stage("visual", "window", {}, {"dpy", "platform"})
CreateWindow  == Stage("window", "context", {"win"}, {"dpy", "platform"})
CreateContext == Stage("context", "loader", {"ctx"}, {"win", "dpy", "platform"})

(* The loader starts its thread and waits for it; then the renderer.       *)
StartLoader ==
  /\ cliPc = "loader"
  /\ cliPc' = "waitLoader"
  /\ loaderPc' = "init"
  /\ UNCHANGED held

SeeLoader ==
  /\ cliPc = "waitLoader"
  /\ loaderPc = "loop"
  /\ cliPc' = "new"
  /\ held' = held \cup {"loader", "renderer"}
  /\ UNCHANGED loaderPc

InitializePlatform ==
  \/ OpenDisplay \/ ChooseConfig \/ GetVisual \/ CreateWindow \/ CreateContext
  \/ StartLoader \/ SeeLoader
-----------------------------------------------------------------------------
(* The loader's thread.  An exception in it ends the process, after it has *)
(* closed the display of the main thread in the place of its own.          *)
LoaderUp ==
  /\ loaderPc = "init"
  /\ loaderPc' = "loop"
  /\ held' = held \cup OfLoader
  /\ UNCHANGED cliPc

LoaderThrows ==
  /\ loaderPc = "init"
  /\ loaderPc' = "thrown"
  /\ cliPc' = "aborted"
  /\ \/ held' = (held \cup {"ldr_dpy"}) \ {"dpy", "platform"}
     \/ held' = held \cup {"ldr_dpy"}

LoaderDown ==
  /\ loaderPc = "finish"
  /\ loaderPc' = "ended"
  /\ held' = held \ OfLoader
  /\ UNCHANGED cliPc

(* The last notify, after the lock: once the loader has been deleted it    *)
(* does nothing, or the process dies.                                      *)
LoaderNotify ==
  /\ loaderPc = "ended"
  /\ loaderPc' = "gone"
  /\ cliPc' \in {cliPc} \cup (IF "loader" \notin held THEN {"aborted"} ELSE {})
  /\ UNCHANGED held
-----------------------------------------------------------------------------
(* The server has been deleted and the client is destroyed:                *)
(* finalizePlatform asks the loader to end, ...                            *)
FinishLoader ==
  /\ cliPc = "delete"
  /\ cliPc' = "finish"
  /\ loaderPc' = "finish"
  /\ UNCHANGED held

(* Faulty variant: ... does not wait, ... *)
FinalizeAtOnce ==
  /\ cliPc = "finish"
  /\ cliPc' = "gone"
  /\ held' = held \ (OfMain \cup {"loader", "renderer"})
  /\ UNCHANGED loaderPc

(* ... waits for it, and closes what is left. *)
FinalizePlatform ==
  /\ cliPc = "finish"
  /\ loaderPc \in {"ended", "gone"}
  /\ cliPc' = "gone"
  /\ held' = held \ (OfMain \cup {"loader", "renderer"})
  /\ UNCHANGED loaderPc
-----------------------------------------------------------------------------
(* "This closes the application window and cleans up any global graphics   *)
(* resources" (localclient.hpp:45-47), while nobody uses them any more and *)
(* without leaving anything behind: the loader, whose context shares that  *)
(* of the main thread, is done before that goes; and a constructor that    *)
(* fails before it has started the loader gives back what it had           *)
(* (localclient_x11.cpp:23-108, glloader_x11.cpp:18-46).  Later failures   *)
(* are different.  One of the loader ends the process with the things it   *)
(* had; one of the connection, or of a message, leaves everything open and *)
(* the loader's thread with all it uses (localclient.cpp:12-15).           *)
PlatformOutlivesLoader ==
  /\ loaderPc \in {"init", "loop", "finish"} => OfMain \subseteq held
  /\ cliPc = "gone" => held = {}
  /\ cliPc = "aborted" /\ loaderPc = "none" => held = {}
  /\ cliPc = "aborted" /\ loaderPc = "loop"
       => held = OfMain \cup OfLoader \cup {"loader", "renderer"}
=============================================================================

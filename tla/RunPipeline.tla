----------------------------- MODULE RunPipeline -----------------------------
(***************************************************************************)
(* The command `arrower run`: a goroutine that watches the files of a      *)
(* project, one that builds and runs the app, one that tells the browser   *)
(* tabs to reload, a web server, and one that shuts all of them down. They *)
(* are connected by the channels fileChanged (unbuffered) and hotReload    *)
(* (one file), by a context and by WaitGroups.                             *)
(***************************************************************************)
EXTENDS Naturals, Sequences, FiniteSets

CONSTANTS
  Tabs,        \* browser tabs
  MaxChanges,  \* bound: how often a file is changed
  Faults       \* what may fail: "watch", "build", "tidy", "start", "sigterm", "kill", "browser"

ASSUME RunAssumption ==
  /\ MaxChanges \in Nat
  /\ Faults \subseteq {"watch", "build", "tidy", "start", "sigterm", "kill", "browser"}

Versions == 0 .. MaxChanges
Builds   == 1 .. MaxChanges + 1
NoBuild  == 0

VARIABLES
  disk,     \* how often a file was changed
  fsEvents, \* the channel of the notify library
  watcher,  \* WatchFolders: where it is, the file in its hands, debounceActive
  loop,     \* WatchBuildAndRunApp: where it is, its file, and the app that stop ends
  builds,   \* how many builds have begun
  proc,     \* by build: its process ("none" before and after, "failed" if its tidying or its
            \* start has failed), and the version of the files it was made from
  bins,     \* the builds whose binary is in the folder for temporary files
  hot,      \* the channel hotReload
  reloader, \* the goroutine of HotReloadHandler: the files in its hands
  tab,      \* by tab: its page, the version it shows, whether a stray app has served it, and
            \* the version it was told of
  server,   \* the server for the tabs
  ctl       \* the goroutine that waits for a signal

vars == <<disk, fsEvents, watcher, loop, builds, proc, bins, hot, reloader, tab,
          server, ctl>>

Kinds == {"go", "html", "css", "other"}
Files == [kind : Kinds, ver : Versions]
NoFile == [kind |-> "other", ver |-> 0]
NoPage == [st |-> "closed", shows |-> 0, stray |-> FALSE, told |-> 0]

TypeOK ==
  /\ disk \in Versions
  /\ fsEvents \in Seq(Files) /\ Len(fsEvents) <= 1
  /\ watcher \in [pc : {"watch", "select", "send", "done"}, file : Files, debounce : BOOLEAN]
  /\ loop \in [pc : {"build", "tidy", "start", "browser", "select", "stop", "wait", "reload",
                     "group", "done"},
               file : Files, stop : Builds \cup {NoBuild}]
  /\ builds \in 0 .. MaxChanges + 1
  /\ proc \in [Builds -> [st : {"none", "failed", "running", "asked", "stray"},
                          ver : Versions]]
  /\ bins \subseteq Builds
  /\ hot \in Seq(Files) /\ Len(hot) <= 1
  /\ reloader \in Seq(Files) /\ Len(reloader) <= 1
  /\ tab \in [Tabs -> [st : {"closed", "loaded", "connected"}, shows : Versions, stray : BOOLEAN,
                     told : Versions]]
  /\ server \in {"starting", "up", "down"}
  /\ ctl \in {"running", "shutdown", "group", "done", "crashed"}

\* The context that all goroutines share is done.
Cancelled == ctl \in {"shutdown", "group", "done"}

Alive == ctl # "crashed"

\* Bound: what developers, browsers and apps do after the command has ended.
Followed == ctl \notin {"crashed", "done"}

Init ==
  /\ disk = 0 /\ fsEvents = <<>>
  /\ watcher = [pc |-> "watch", file |-> NoFile, debounce |-> FALSE]
  /\ loop = [pc |-> "build", file |-> NoFile, stop |-> NoBuild]
  /\ builds = 0
  /\ proc = [b \in Builds |-> [st |-> "none", ver |-> 0]]
  /\ bins = {} /\ hot = <<>> /\ reloader = <<>>
  /\ tab = [t \in Tabs |-> NoPage]
  /\ server = "starting" /\ ctl = "running"

-----------------------------------------------------------------------------
(* The files, and WatchFolders.                                            *)

IsFrontendSource(file) == file.kind \in {"html", "css"}

IsObservedFile(file) == file.kind = "go" \/ IsFrontendSource(file)

IsCSS(file) == file.kind = "css"

\* The library does not wait for the channel: it drops what does not fit.
Fits == watcher.pc \in {"select", "send"} /\ fsEvents = <<>>

\* A developer saves a file.
Change(kind) ==
  /\ Followed /\ disk < MaxChanges
  /\ disk' = disk + 1
  /\ fsEvents' = IF Fits THEN Append(fsEvents, [kind |-> kind, ver |-> disk + 1]) ELSE fsEvents
  /\ UNCHANGED <<watcher, loop, builds, proc, bins, hot, reloader, tab, server, ctl>>

Crash == ctl' = "crashed"

\* notify.Watch; its error makes the goroutine panic, and so the command.
Watch ==
  /\ Alive /\ watcher.pc = "watch"
  /\ \/ watcher' = [watcher EXCEPT !.pc = "select"] /\ UNCHANGED ctl
     \/ "watch" \in Faults /\ Crash /\ UNCHANGED watcher
  /\ UNCHANGED <<disk, fsEvents, loop, builds, proc, bins, hot, reloader, tab, server>>

Event ==
  /\ Alive /\ watcher.pc = "select" /\ fsEvents # <<>>
  /\ fsEvents' = Tail(fsEvents)
  /\ watcher' = IF IsObservedFile(Head(fsEvents)) /\ ~watcher.debounce
                THEN [watcher EXCEPT !.pc = "send", !.file = Head(fsEvents)] ELSE watcher
  /\ UNCHANGED <<disk, loop, builds, proc, bins, hot, reloader, tab, server, ctl>>

\* time.After: nothing has happened for the debounceInterval.
Quiet ==
  /\ Alive /\ watcher.pc = "select" /\ watcher.debounce
  /\ watcher' = [watcher EXCEPT !.debounce = FALSE]
  /\ UNCHANGED <<disk, fsEvents, loop, builds, proc, bins, hot, reloader, tab, server, ctl>>

\* A bug for the checks: the context is looked at after an event only.
CtxDoneLate == Cancelled /\ fsEvents # <<>>

CtxDone == Cancelled

StopWatching ==
  /\ Alive /\ watcher.pc = "select" /\ CtxDone
  /\ watcher' = [watcher EXCEPT !.pc = "done"]
  /\ fsEvents' = <<>>
  /\ UNCHANGED <<disk, loop, builds, proc, bins, hot, reloader, tab, server, ctl>>

-----------------------------------------------------------------------------
(* BuildAndRunApp.                                                         *)

\* RandomBinaryPath makes an empty file; go build reads the files as they are now.
Build ==
  /\ Alive /\ loop.pc = "build"
  /\ builds' = builds + 1
  /\ bins' = bins \cup {builds + 1}
  /\ proc' = [proc EXCEPT ![builds + 1].ver = disk]
  /\ loop' = [loop EXCEPT !.pc = "tidy"]
  /\ UNCHANGED <<disk, fsEvents, watcher, hot, reloader, tab, server, ctl>>

\* Where the loop goes on after BuildAndRunApp: the first time it opens the browser.
AfterBuild == IF builds = 1 THEN "browser" ELSE "reload"

\* The build is done, or has failed: the binary is removed, but not if go mod tidy has
\* failed. All of them are killed when the context is done.
BuildEnds ==
  /\ Alive /\ loop.pc = "tidy"
  /\ \/ ~Cancelled /\ loop' = [loop EXCEPT !.pc = "start"] /\ UNCHANGED <<proc, bins>>
     \/ /\ "build" \in Faults \/ Cancelled
        /\ loop' = [loop EXCEPT !.pc = AfterBuild, !.stop = NoBuild]
        /\ bins' = bins \ {builds} /\ UNCHANGED proc
     \/ /\ "tidy" \in Faults \/ Cancelled
        /\ loop' = [loop EXCEPT !.pc = AfterBuild, !.stop = NoBuild]
        /\ proc' = [proc EXCEPT ![builds].st = "failed"] /\ UNCHANGED bins
  /\ UNCHANGED <<disk, fsEvents, watcher, builds, hot, reloader, tab, server, ctl>>

\* The app is started in a context and a process group of its own.
Start ==
  /\ Alive /\ loop.pc = "start"
  /\ \/ /\ proc' = [proc EXCEPT ![builds].st = "running"]
        /\ loop' = [loop EXCEPT !.pc = AfterBuild, !.stop = builds]
     \/ /\ "start" \in Faults
        /\ proc' = [proc EXCEPT ![builds].st = "failed"]
        /\ loop' = [loop EXCEPT !.pc = AfterBuild, !.stop = NoBuild]
  /\ UNCHANGED <<disk, fsEvents, watcher, builds, bins, hot, reloader, tab, server, ctl>>

\* The browser is started in the context too, and its error ends the command.
OpenBrowser ==
  /\ Alive /\ loop.pc = "browser"
  /\ \/ loop' = [loop EXCEPT !.pc = "select"] /\ UNCHANGED ctl
     \/ ("browser" \in Faults \/ Cancelled) /\ Crash /\ UNCHANGED loop
  /\ UNCHANGED <<disk, fsEvents, watcher, builds, proc, bins, hot, reloader, tab, server>>

-----------------------------------------------------------------------------
(* The loop of WatchBuildAndRunApp.                                        *)

\* Two bugs for the checks: the app is not stopped, or the tabs are told at once.
TakeNoStop(file) == IF IsFrontendSource(file) THEN "reload" ELSE "build"
TakeReloadOnly(file) == "reload"

\* Where it goes with a changed file.
Take(file) == IF IsFrontendSource(file) THEN "reload" ELSE "stop"

\* The hand-over from the watcher: file := <-filesChanged.
FileChanged ==
  /\ Alive /\ loop.pc = "select" /\ watcher.pc = "send"
  /\ loop' = [loop EXCEPT !.pc = Take(watcher.file), !.file = watcher.file]
  /\ watcher' = [pc |-> "select", file |-> NoFile, debounce |-> TRUE]
  /\ UNCHANGED <<disk, fsEvents, builds, proc, bins, hot, reloader, tab, server, ctl>>

\* A bug: the loop leaves and the app goes on.
LeaveAtOnce(l) == [l EXCEPT !.pc = "group"]

Leave(l) == [l EXCEPT !.pc = "stop"]

ContextDone ==
  /\ Alive /\ loop.pc = "select" /\ Cancelled
  /\ loop' = [Leave(loop) EXCEPT !.file = NoFile]
  /\ UNCHANGED <<disk, fsEvents, watcher, builds, proc, bins, hot, reloader, tab, server, ctl>>

AfterStop == IF loop.file = NoFile THEN "group" ELSE "build"

\* stop: SIGTERM. When it cannot be sent the app is given up, and runs on; its binary
\* is deleted all the same.
AskToStop ==
  /\ Alive /\ loop.pc = "stop"
  /\ LET b == loop.stop IN
     \/ b = NoBuild /\ loop' = [loop EXCEPT !.pc = AfterStop] /\ UNCHANGED <<proc, bins>>
     \/ /\ b # NoBuild
        /\ proc' = [proc EXCEPT ![b].st = IF @ = "running" THEN "asked" ELSE @]
        /\ loop' = [loop EXCEPT !.pc = "wait"] /\ UNCHANGED bins
     \/ /\ b # NoBuild /\ proc[b].st = "running" /\ "sigterm" \in Faults
        /\ proc' = [proc EXCEPT ![b].st = "stray"] /\ bins' = bins \ {b}
        /\ loop' = [loop EXCEPT !.pc = AfterStop]
  /\ UNCHANGED <<disk, fsEvents, watcher, builds, hot, reloader, tab, server, ctl>>

\* The app has ended, or two seconds are over and it is killed: it runs no more, and nobody
\* waits for the end of its process. If Kill fails it is given up. The binary is deleted.
Stopped ==
  /\ Alive /\ loop.pc = "wait"
  /\ LET b == loop.stop IN
     /\ \/ proc[b].st = "none" /\ UNCHANGED proc
        \/ proc[b].st = "asked" /\ proc' = [proc EXCEPT ![b].st = "none"]
        \/ /\ proc[b].st = "asked" /\ "kill" \in Faults
           /\ proc' = [proc EXCEPT ![b].st = "stray"]
     /\ bins' = bins \ {b}
  /\ loop' = [loop EXCEPT !.pc = AfterStop]
  /\ UNCHANGED <<disk, fsEvents, watcher, builds, hot, reloader, tab, server, ctl>>

\* hotReload <- file
SendReload ==
  /\ Alive /\ loop.pc = "reload" /\ Len(hot) = 0
  /\ hot' = Append(hot, loop.file)
  /\ loop' = [loop EXCEPT !.pc = "select", !.file = NoFile]
  /\ UNCHANGED <<disk, fsEvents, watcher, builds, proc, bins, reloader, tab, server, ctl>>

\* wg.Wait: the watcher has left.
GroupDone ==
  /\ Alive /\ loop.pc = "group" /\ watcher.pc = "done"
  /\ loop' = [loop EXCEPT !.pc = "done"]
  /\ UNCHANGED <<disk, fsEvents, watcher, builds, proc, bins, hot, reloader, tab, server, ctl>>

\* The apps that may answer a browser: one that was asked to stop, or that could not be
\* stopped and was given up, still does.
Strays  == {b \in Builds : proc[b].st = "stray"}
Serving == {b \in Builds : proc[b].st \in {"running", "asked"}} \cup Strays

\* The app ends, by itself or because it was asked to.
Exit(b) ==
  /\ Followed /\ b \in Serving
  /\ proc' = [proc EXCEPT ![b].st = "none"]
  /\ UNCHANGED <<disk, fsEvents, watcher, loop, builds, bins, hot, reloader, tab, server, ctl>>

-----------------------------------------------------------------------------
(* The tabs and the server they are connected to.                          *)

Page(b, told) == [st |-> "loaded", shows |-> proc[b].ver, stray |-> b \in Strays, told |-> told]

\* A page of an app; its script connects to the server, once.
Load(t) ==
  /\ Followed /\ tab[t].st = "closed"
  /\ \E b \in Serving : tab' = [tab EXCEPT ![t] = Page(b, 0)]
  /\ UNCHANGED <<disk, fsEvents, watcher, loop, builds, proc, bins, hot, reloader, server, ctl>>

Connect(t) ==
  /\ Alive /\ server = "up" /\ tab[t].st = "loaded"
  /\ tab' = [tab EXCEPT ![t].st = "connected"]
  /\ UNCHANGED <<disk, fsEvents, watcher, loop, builds, proc, bins, hot, reloader, server, ctl>>

Close(t) ==
  /\ Followed /\ tab[t].st # "closed"
  /\ tab' = [tab EXCEPT ![t] = NoPage]
  /\ UNCHANGED <<disk, fsEvents, watcher, loop, builds, proc, bins, hot, reloader, server, ctl>>

Receive ==
  /\ Alive /\ reloader = <<>> /\ hot # <<>>
  /\ reloader' = hot /\ hot' = <<>>
  /\ UNCHANGED <<disk, fsEvents, watcher, loop, builds, proc, bins, tab, server, ctl>>

\* A tab that reloads gets what the app b serves, or an error page.
Reloaded(page, file, b) ==
  IF b = NoBuild THEN NoPage
  ELSE Page(b, IF IsFrontendSource(file) THEN page.told ELSE file.ver)

\* browserSessions.notify: each connection gets the command; those that fail are
\* removed, they belong to pages that are closed. A page that reloads connects anew.
\* Nobody waits for the app to listen, and which one holds the port is open.
Notify ==
  /\ Alive /\ reloader # <<>>
  /\ \E from \in [Tabs -> Serving \cup {NoBuild}] :
       tab' = [t \in Tabs |-> IF tab[t].st = "connected" /\ ~IsCSS(Head(reloader))
                              THEN Reloaded(tab[t], Head(reloader), from[t]) ELSE tab[t]]
  /\ reloader' = <<>>
  /\ UNCHANGED <<disk, fsEvents, watcher, loop, builds, proc, bins, hot, server, ctl>>

Listen ==
  /\ Alive /\ server = "starting" /\ ~Cancelled
  /\ server' = "up"
  /\ UNCHANGED <<disk, fsEvents, watcher, loop, builds, proc, bins, hot, reloader, tab, ctl>>

-----------------------------------------------------------------------------
(* Shutdown.                                                               *)

\* <-osSignal, the hooks, and cancel.
Signal ==
  /\ ctl = "running"
  /\ ctl' = "shutdown"
  /\ UNCHANGED <<disk, fsEvents, watcher, loop, builds, proc, bins, hot, reloader, tab, server>>

\* The server is shut down, also if it was not started yet; the connections of the
\* tabs are not its own any more and stay.
ShutdownServer ==
  /\ ctl = "shutdown"
  /\ server' = "down"
  /\ ctl' = "group"
  /\ UNCHANGED <<disk, fsEvents, watcher, loop, builds, proc, bins, hot, reloader, tab>>

Finish ==
  /\ ctl = "group" /\ loop.pc = "done"
  /\ ctl' = "done"
  /\ UNCHANGED <<disk, fsEvents, watcher, loop, builds, proc, bins, hot, reloader, tab, server>>

Watcher == Watch \/ Event \/ Quiet \/ StopWatching
Loop    == \/ Build \/ BuildEnds \/ Start \/ OpenBrowser \/ FileChanged \/ ContextDone
           \/ AskToStop \/ Stopped \/ SendReload \/ GroupDone
Control == Signal \/ ShutdownServer \/ Finish
Env     == \/ \E kind \in Kinds : Change(kind)
           \/ \E b \in Builds : Exit(b)
           \/ \E t \in Tabs : Load(t) \/ Connect(t) \/ Close(t)

Next == Watcher \/ Loop \/ Receive \/ Notify \/ Listen \/ Control \/ Env

\* Goroutines run on. An app that is asked to stop needs none: it is killed, or given up.
Fairness ==
  /\ WF_vars(Watch \/ Event \/ StopWatching) /\ WF_vars(Loop)
  /\ WF_vars(Receive \/ Notify) /\ WF_vars(ShutdownServer \/ Finish)

Spec == Init /\ [][Next]_vars /\ Fairness

-----------------------------------------------------------------------------
(* Properties.                                                             *)

\* Never do two apps run beside each other, but for those that could not be stopped, as
\* SIGTERM or Kill has failed: the old one has ended or was killed before the new one is
\* built ("ensures that no two builds are running at the same time"). One that was killed
\* runs no more, though its process may not have ended.
OneApp == Cardinality(Serving \ Strays) <= 1

\* A tab that was told to reload shows an app that has the change it was told of, unless
\* an app that could not be stopped has answered it: the file is sent to hotReload after
\* the new app has replaced the old one.
ToldTabsCurrent ==
  \A t \in Tabs : tab[t].st # "closed" =>
    tab[t].stray \/ tab[t].told <= tab[t].shows

\* When the command returns no app is left running but those that could not be stopped,
\* and no binary but those of builds whose go mod tidy or whose start has failed.
CleanExit ==
  ctl = "done" => /\ Serving \subseteq Strays
                  /\ \A b \in bins : proc[b].st = "failed"

\* A change that the watcher passes on ends up in a build, whatever the loop and the tabs
\* are busy with, unless the command is ended.
ChangesBuilt ==
  \A v \in Versions \ {0} :
    watcher.pc = "send" /\ watcher.file = [kind |-> "go", ver |-> v]
      ~> ctl # "running" \/ (builds > 0 /\ proc[builds].ver >= v)

\* The command returns after a signal, unless the watcher is about to pass on a file in
\* the moment the loop leaves.
ShutdownEnds == Cancelled ~> ctl \in {"done", "crashed"} \/ watcher.pc = "send"

\* What its comment says: WatchFolders "terminates once the ctx is cancelled".
WatcherEnds == ctl = "shutdown" ~> watcher.pc = "done" \/ ctl = "crashed"
=============================================================================

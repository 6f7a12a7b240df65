------------------------- MODULE RunPipelineProofs -------------------------
(***************************************************************************)
(* Proofs about RunPipeline: its types, among them the bound of the        *)
(* builds, that no two apps run beside each other, that a tab that was     *)
(* told of a change shows it, and what is left when the command returns,   *)
(* for any tabs, changes and faults.                                       *)
(***************************************************************************)
EXTENDS RunPipeline, FiniteSetTheorems, TLAPS

LoopPCs == {"build", "tidy", "start", "browser", "select", "stop", "wait", "reload", "group", "done"}
States == {"none", "failed", "running", "asked", "stray"}
Procs == [st : States, ver : Versions]
Pages == [st : {"closed", "loaded", "connected"}, shows : Versions, stray : BOOLEAN, told : Versions]

(* The parts of the state.                                                 *)
Channels ==
  /\ fsEvents \in Seq(Files) /\ Len(fsEvents) <= 1
  /\ hot \in Seq(Files) /\ Len(hot) <= 1
  /\ reloader \in Seq(Files) /\ Len(reloader) <= 1
Goroutines ==
  /\ watcher \in [pc : {"watch", "select", "send", "done"}, file : Files, debounce : BOOLEAN]
  /\ loop \in [pc : LoopPCs, file : Files, stop : Builds \cup {NoBuild}]
  /\ server \in {"starting", "up", "down"}
  /\ ctl \in {"running", "shutdown", "group", "done", "crashed"}
Apps ==
  /\ disk \in Versions /\ builds \in 0 .. MaxChanges + 1
  /\ proc \in [Builds -> Procs] /\ bins \subseteq Builds
Browsers == tab \in [Tabs -> Pages]

(* Every build but the first is for a change that was handed on.           *)
Heading == loop.pc = "build" \/ (loop.pc \in {"stop", "wait"} /\ loop.file # NoFile)
OneIf(b) == IF b THEN 1 ELSE 0
Counted ==
  builds + OneIf(Heading) + OneIf(watcher.pc = "send") + Len(fsEvents) <= 1 + disk
Sent == watcher.pc = "send" => IsObservedFile(watcher.file)

(* An app runs only where the loop knows it, and is asked to end only      *)
(* while the loop waits for its end.                                       *)
Known ==
  /\ loop.pc \in {"tidy", "start", "browser"} => builds > 0
  /\ loop.pc = "wait" => loop.stop \in Builds /\ proc[loop.stop].st # "running"
  /\ \A b \in Builds : proc[b].st \in {"running", "asked"} =>
       b = loop.stop /\ loop.pc \in {"browser", "select", "stop", "wait", "reload"}
  /\ \A b \in Builds : proc[b].st = "asked" => loop.pc = "wait"

IInv == Channels /\ Goroutines /\ Apps /\ Browsers /\ Counted /\ Sent /\ Known

LEMMA InvTypes == IInv => TypeOK
  BY DEF IInv, Channels, Goroutines, Apps, Browsers, TypeOK, LoopPCs, States, Procs, Pages

LEMMA InitInv == Init => IInv
<1> SUFFICES ASSUME Init PROVE IInv
  OBVIOUS
<1>1. NoFile \in Files /\ 0 \in Versions
  BY RunAssumption DEF NoFile, Files, Kinds, Versions
<1>2. Channels /\ Goroutines /\ Apps /\ Browsers
  BY <1>1, RunAssumption
     DEF Init, Channels, Goroutines, Apps, Browsers, LoopPCs, States, Procs, Pages, NoPage, NoBuild, Builds
<1>3. Counted /\ Sent /\ Known
  BY DEF Init, Counted, Sent, Known, Heading, OneIf
<1> QED
  BY <1>2, <1>3 DEF IInv

(***************************************************************************)
(* The watcher and the developer.                                          *)
(***************************************************************************)
LEMMA ChangeKeeps ==
  ASSUME IInv, NEW kind \in Kinds, Change(kind)
  PROVE  IInv'
<1>1. UNCHANGED <<watcher, loop, builds, proc, bins, hot, reloader, tab, server, ctl>>
  BY DEF Change
<1>2. disk \in Nat /\ disk' = disk + 1 /\ disk' \in Versions
  BY RunAssumption DEF Change, IInv, Apps, Versions
<1>3. [kind |-> kind, ver |-> disk + 1] \in Files
  BY <1>2 DEF Files
<1>4. /\ fsEvents' \in Seq(Files) /\ Len(fsEvents') <= 1
      /\ Len(fsEvents') <= Len(fsEvents) + 1 /\ Len(fsEvents) \in Nat /\ Len(fsEvents') \in Nat
  <2> DEFINE e == [kind |-> kind, ver |-> disk + 1]
  <2>1. e \in Files /\ fsEvents \in Seq(Files) /\ Len(fsEvents) <= 1
    BY <1>3 DEF IInv, Channels
  <2>2. fsEvents' = IF Fits THEN Append(fsEvents, e) ELSE fsEvents
    BY DEF Change
  <2> HIDE DEF e
  <2>3. Fits => fsEvents = <<>>
    BY DEF Fits
  <2> QED
    BY <2>1, <2>2, <2>3
<1>5. Channels' /\ Goroutines' /\ Apps' /\ Browsers'
  BY <1>1, <1>2, <1>4 DEF IInv, Channels, Goroutines, Apps, Browsers
<1>6. Counted'
  BY <1>1, <1>2, <1>4 DEF IInv, Apps, Counted, Heading, OneIf
<1> QED
  BY <1>1, <1>5, <1>6 DEF IInv, Sent, Known

LEMMA WatcherKeeps ==
  ASSUME IInv, Watcher
  PROVE  IInv'
<1>1. UNCHANGED <<disk, loop, builds, proc, bins, hot, reloader, tab, server>>
  BY DEF Watcher, Watch, Event, Quiet, StopWatching
<1>2. ctl' \in {"running", "shutdown", "group", "done", "crashed"}
  BY DEF Watcher, Watch, Crash, Event, Quiet, StopWatching, IInv, Goroutines
<1>3. watcher \in [pc : {"watch", "select", "send", "done"}, file : Files, debounce : BOOLEAN]
  BY DEF IInv, Goroutines
<1>4. fsEvents \in Seq(Files) /\ Len(fsEvents) <= 1
  BY DEF IInv, Channels
<1>5. CASE Watch
  BY <1>1, <1>2, <1>3, <1>4, <1>5
     DEF Watch, Crash, IInv, Channels, Goroutines, Apps, Browsers, Counted, Heading, OneIf, Sent, Known
<1>6. CASE Quiet
  BY <1>1, <1>2, <1>3, <1>4, <1>6
     DEF Quiet, IInv, Channels, Goroutines, Apps, Browsers, Counted, Heading, OneIf, Sent, Known
<1>7. CASE StopWatching
  <2>1. /\ fsEvents' = <<>> /\ fsEvents' \in Seq(Files) /\ Len(fsEvents') = 0 /\ Len(fsEvents) \in Nat
        /\ watcher'.pc = "done"
        /\ watcher' \in [pc : {"watch", "select", "send", "done"}, file : Files, debounce : BOOLEAN]
    BY <1>3, <1>4, <1>7 DEF StopWatching
  <2>2. Channels' /\ Goroutines' /\ Apps' /\ Browsers'
    BY <1>1, <1>2, <2>1, <1>7 DEF StopWatching, IInv, Channels, Goroutines, Apps, Browsers
  <2>3. Counted'
    BY <1>1, <2>1 DEF IInv, Apps, Versions, Counted, Heading, OneIf
  <2> QED
    BY <1>1, <2>1, <2>2, <2>3 DEF IInv, Known, Sent
<1>8. CASE Event
  <2>1. /\ Head(fsEvents) \in Files /\ Tail(fsEvents) \in Seq(Files)
        /\ Len(fsEvents) \in Nat /\ Len(Tail(fsEvents)) = Len(fsEvents) - 1
    BY <1>4, <1>8 DEF Event
  <2>2. watcher' \in [pc : {"watch", "select", "send", "done"}, file : Files, debounce : BOOLEAN]
    BY <1>3, <1>8, <2>1 DEF Event
  <2>3. Channels' /\ Goroutines' /\ Apps' /\ Browsers'
    BY <1>1, <1>2, <1>4, <1>8, <2>1, <2>2 DEF Event, IInv, Channels, Goroutines, Apps, Browsers
  <2>4. Sent'
    BY <1>3, <1>8 DEF Event, IInv, Sent, IsObservedFile, IsFrontendSource
  <2>5. OneIf(watcher'.pc = "send") <= OneIf(watcher.pc = "send") + 1 /\ Len(fsEvents') = Len(fsEvents) - 1
    BY <1>3, <1>8, <2>1 DEF Event, OneIf
  <2>6. Counted'
    BY <1>1, <2>1, <2>5 DEF IInv, Apps, Versions, Counted, Heading, OneIf
  <2> QED
    BY <1>1, <2>3, <2>4, <2>6 DEF IInv, Known
<1> QED
  BY <1>5, <1>6, <1>7, <1>8 DEF Watcher

(***************************************************************************)
(* The loop.  A step of it that leaves the processes alone has to say      *)
(* where it goes and what it does to the count.                            *)
(***************************************************************************)
LEMMA LoopTypes == IInv => /\ loop \in [pc : LoopPCs, file : Files, stop : Builds \cup {NoBuild}]
                           /\ builds \in Nat /\ disk \in Nat /\ Len(fsEvents) \in Nat
                           /\ proc \in [Builds -> Procs]
                           /\ NoFile \in Files
  BY RunAssumption DEF IInv, Goroutines, Apps, Channels, Versions, NoFile, Files, Kinds

LEMMA LoopStep ==
  ASSUME IInv, UNCHANGED <<disk, fsEvents, watcher, server, reloader, tab>>,
         loop' \in [pc : LoopPCs, file : Files, stop : Builds \cup {NoBuild}],
         ctl' \in {"running", "shutdown", "group", "done", "crashed"},
         hot' \in Seq(Files), Len(hot') <= 1,
         proc' \in [Builds -> Procs], bins' \subseteq Builds,
         builds' \in 0 .. MaxChanges + 1,
         builds' + OneIf(Heading)' <= builds + OneIf(Heading),
         Known'
  PROVE  IInv'
<1>1. Channels' /\ Goroutines' /\ Apps' /\ Browsers' /\ Sent'
  BY DEF IInv, Channels, Goroutines, Apps, Browsers, Sent
<1>2. Counted'
  <2>1. /\ OneIf(Heading) \in {0, 1} /\ OneIf(Heading)' \in {0, 1}
        /\ OneIf(watcher.pc = "send") \in {0, 1}
        /\ OneIf(watcher.pc = "send")' = OneIf(watcher.pc = "send")
    BY DEF OneIf
  <2>2. builds' \in Nat /\ builds \in Nat /\ disk' = disk /\ disk \in Nat
        /\ Len(fsEvents)' = Len(fsEvents) /\ Len(fsEvents) \in Nat
    BY LoopTypes, RunAssumption
  <2>3. builds + OneIf(Heading) + OneIf(watcher.pc = "send") + Len(fsEvents) <= 1 + disk
    BY DEF IInv, Counted
  <2>4. builds' + OneIf(Heading)' + OneIf(watcher.pc = "send")' + Len(fsEvents)' <= 1 + disk'
    BY <2>1, <2>2, <2>3
  <2> QED
    BY <2>4 DEF Counted
<1> QED
  BY <1>1, <1>2 DEF IInv

LEMMA SetState ==
  ASSUME IInv, NEW b \in Builds, NEW st \in States,
         proc' = [proc EXCEPT ![b].st = st]
  PROVE  /\ proc' \in [Builds -> Procs]
         /\ \A a \in Builds : proc'[a].st = IF a = b THEN st ELSE proc[a].st
<1>1. proc' = [proc EXCEPT ![b] = [proc[b] EXCEPT !.st = st]]
  OBVIOUS
<1>2. [proc[b] EXCEPT !.st = st] \in Procs /\ [proc[b] EXCEPT !.st = st].st = st
  BY LoopTypes DEF Procs
<1> QED
  BY <1>1, <1>2, LoopTypes

LEMMA BuildKeeps ==
  ASSUME IInv, Build
  PROVE  IInv'
<1>1. /\ loop.pc = "build" /\ builds' = builds + 1 /\ bins' = bins \cup {builds + 1}
      /\ proc' = [proc EXCEPT ![builds + 1].ver = disk]
      /\ loop' = [loop EXCEPT !.pc = "tidy"]
      /\ UNCHANGED <<disk, fsEvents, watcher, hot, reloader, tab, server, ctl>>
  BY DEF Build
<1>2. builds \in Nat /\ builds <= disk /\ disk \in Versions
  BY <1>1, LoopTypes DEF IInv, Counted, Heading, OneIf, Apps
<1>3. builds + 1 \in Builds /\ builds' \in 0 .. MaxChanges + 1
  BY <1>1, <1>2, RunAssumption DEF Versions, Builds
<1>4. /\ proc' \in [Builds -> Procs]
      /\ \A b \in Builds : proc'[b].st = proc[b].st
  <2>1. proc' = [proc EXCEPT ![builds + 1] = [proc[builds + 1] EXCEPT !.ver = disk]]
    BY <1>1
  <2>2. /\ [proc[builds + 1] EXCEPT !.ver = disk] \in Procs
        /\ [proc[builds + 1] EXCEPT !.ver = disk].st = proc[builds + 1].st
    BY <1>2, <1>3, LoopTypes DEF Procs
  <2> QED
    BY <2>1, <2>2, LoopTypes
<1>5. /\ loop' \in [pc : LoopPCs, file : Files, stop : Builds \cup {NoBuild}]
      /\ loop'.pc = "tidy" /\ loop'.stop = loop.stop
  BY <1>1, LoopTypes DEF LoopPCs
<1>6. Known'
  BY <1>1, <1>2, <1>4, <1>5 DEF IInv, Known
<1>7. builds' + OneIf(Heading)' <= builds + OneIf(Heading)
  BY <1>1, <1>2, <1>5 DEF Heading, OneIf
<1> QED
  BY <1>1, <1>3, <1>4, <1>5, <1>6, <1>7, LoopStep DEF IInv, Apps, Channels, Goroutines

LEMMA BuildEndsKeeps ==
  ASSUME IInv, BuildEnds
  PROVE  IInv'
<1>1. /\ loop.pc = "tidy" /\ bins' \subseteq bins
      /\ UNCHANGED <<disk, fsEvents, watcher, builds, hot, reloader, tab, server, ctl>>
  BY DEF BuildEnds
<1>2. /\ loop' \in [pc : LoopPCs, file : Files, stop : Builds \cup {NoBuild}]
      /\ loop'.pc \in {"start", "browser", "reload"}
  BY LoopTypes DEF BuildEnds, AfterBuild, LoopPCs
<1>3. builds \in Builds
  BY <1>1, RunAssumption DEF IInv, Known, Apps, Builds
<1>4. /\ proc' \in [Builds -> Procs]
      /\ \A b \in Builds : proc'[b].st = proc[b].st \/ proc'[b].st = "failed"
  <2>1. CASE proc' = proc
    BY <2>1, LoopTypes
  <2>2. CASE proc' = [proc EXCEPT ![builds].st = "failed"]
    BY <1>3, <2>2, SetState DEF States
  <2> QED
    BY <2>1, <2>2 DEF BuildEnds
<1>5. Known'
  BY <1>1, <1>2, <1>4 DEF IInv, Known
<1>6. OneIf(Heading)' <= OneIf(Heading)
  BY <1>1, <1>2 DEF Heading, OneIf
<1> QED
  BY <1>1, <1>2, <1>4, <1>5, <1>6, LoopTypes, LoopStep DEF IInv, Apps, Channels, Goroutines, OneIf

(* A build becomes a process while none that the loop knows is left.       *)
LEMMA StartKeeps ==
  ASSUME IInv, Start
  PROVE  IInv'
<1>1. /\ loop.pc = "start"
      /\ UNCHANGED <<disk, fsEvents, watcher, builds, bins, hot, reloader, tab, server, ctl>>
  BY DEF Start
<1>2. builds \in Builds
  BY <1>1, RunAssumption DEF IInv, Known, Apps, Builds
<1>3. /\ loop' \in [pc : LoopPCs, file : Files, stop : Builds \cup {NoBuild}]
      /\ loop'.pc \in {"browser", "reload"}
  BY <1>2, LoopTypes DEF Start, AfterBuild, LoopPCs
<1>4. CASE proc' = [proc EXCEPT ![builds].st = "running"] /\ loop' = [loop EXCEPT !.pc = AfterBuild, !.stop = builds]
  <2>3. /\ proc' \in [Builds -> Procs]
        /\ \A b \in Builds : proc'[b].st = IF b = builds THEN "running" ELSE proc[b].st
    BY <1>2, <1>4, SetState DEF States
  <2>4. loop'.stop = builds
    BY <1>4, LoopTypes
  <2>5. Known'
    BY <1>1, <1>2, <1>3, <2>3, <2>4 DEF IInv, Known
  <2> QED
    BY <1>1, <1>3, <2>3, <2>5, LoopTypes, LoopStep DEF IInv, Apps, Channels, Goroutines, Heading, OneIf
<1>5. CASE proc' = [proc EXCEPT ![builds].st = "failed"]
  <2>1. /\ proc' \in [Builds -> Procs]
        /\ \A b \in Builds : proc'[b].st = IF b = builds THEN "failed" ELSE proc[b].st
    BY <1>2, <1>5, SetState DEF States
  <2>2. Known'
    BY <1>1, <1>3, <2>1 DEF IInv, Known
  <2> QED
    BY <1>1, <1>3, <2>1, <2>2, LoopTypes, LoopStep DEF IInv, Apps, Channels, Goroutines, Heading, OneIf
<1> QED
  BY <1>4, <1>5 DEF Start

LEMMA FileChangedKeeps ==
  ASSUME IInv, FileChanged
  PROVE  IInv'
<1>1. /\ loop.pc = "select" /\ watcher.pc = "send"
      /\ UNCHANGED <<disk, fsEvents, builds, proc, bins, hot, reloader, tab, server, ctl>>
      /\ loop' = [loop EXCEPT !.pc = Take(watcher.file), !.file = watcher.file]
      /\ watcher' = [pc |-> "select", file |-> NoFile, debounce |-> TRUE]
  BY DEF FileChanged
<1>2. /\ watcher \in [pc : {"watch", "select", "send", "done"}, file : Files, debounce : BOOLEAN]
      /\ watcher.file \in Files
  BY DEF IInv, Goroutines
<1>3. /\ loop' \in [pc : LoopPCs, file : Files, stop : Builds \cup {NoBuild}]
      /\ loop'.pc \in {"reload", "stop"} /\ loop'.stop = loop.stop
  BY <1>1, <1>2, LoopTypes DEF Take, LoopPCs
<1>4. /\ watcher'.pc = "select"
      /\ watcher' \in [pc : {"watch", "select", "send", "done"}, file : Files, debounce : BOOLEAN]
  BY <1>1, LoopTypes
<1>5. Channels' /\ Goroutines' /\ Apps' /\ Browsers' /\ Sent'
  BY <1>1, <1>3, <1>4 DEF IInv, Channels, Goroutines, Apps, Browsers, Sent
<1>6. Counted'
  BY <1>1, <1>4, LoopTypes DEF IInv, Counted, Heading, OneIf
<1>7. Known'
  BY <1>1, <1>3 DEF IInv, Known
<1> QED
  BY <1>5, <1>6, <1>7 DEF IInv

LEMMA LeaveKeeps ==
  ASSUME IInv, OpenBrowser \/ ContextDone \/ SendReload \/ GroupDone
  PROVE  IInv'
<1>1. UNCHANGED <<disk, fsEvents, watcher, builds, proc, bins, reloader, tab, server>>
  BY DEF OpenBrowser, ContextDone, SendReload, GroupDone
<1>2. ctl' \in {"running", "shutdown", "group", "done", "crashed"}
  BY DEF OpenBrowser, Crash, ContextDone, SendReload, GroupDone, IInv, Goroutines
<1>3. CASE OpenBrowser
  <2>1. /\ loop' \in [pc : LoopPCs, file : Files, stop : Builds \cup {NoBuild}]
        /\ loop.pc = "browser" /\ loop'.pc \in {"browser", "select"} /\ loop'.stop = loop.stop
    BY <1>3, LoopTypes DEF OpenBrowser, LoopPCs
  <2>2. Known'
    BY <1>1, <2>1 DEF IInv, Known
  <2> QED
    BY <1>1, <1>2, <1>3, <2>1, <2>2, LoopTypes, LoopStep
       DEF OpenBrowser, IInv, Apps, Channels, Heading, OneIf
<1>4. CASE ContextDone
  <2>1. /\ loop' \in [pc : LoopPCs, file : Files, stop : Builds \cup {NoBuild}]
        /\ loop.pc = "select" /\ loop'.pc = "stop" /\ loop'.stop = loop.stop /\ loop'.file = NoFile
    BY <1>4, LoopTypes DEF ContextDone, Leave, LoopPCs
  <2>2. Known'
    BY <1>1, <2>1 DEF IInv, Known
  <2> QED
    BY <1>1, <1>2, <1>4, <2>1, <2>2, LoopTypes, LoopStep
       DEF ContextDone, IInv, Apps, Channels, Heading, OneIf
<1>5. CASE SendReload
  <2>1. /\ loop' \in [pc : LoopPCs, file : Files, stop : Builds \cup {NoBuild}]
        /\ loop.pc = "reload" /\ loop'.pc = "select" /\ loop'.stop = loop.stop
    BY <1>5, LoopTypes DEF SendReload, LoopPCs
  <2>2. hot' \in Seq(Files) /\ Len(hot') <= 1
    BY <1>5, LoopTypes DEF SendReload, IInv, Channels
  <2>3. Known'
    BY <1>1, <2>1 DEF IInv, Known
  <2> QED
    BY <1>1, <1>2, <2>1, <2>2, <2>3, LoopTypes, LoopStep DEF IInv, Apps, Heading, OneIf
<1>6. CASE GroupDone
  <2>1. /\ loop' \in [pc : LoopPCs, file : Files, stop : Builds \cup {NoBuild}]
        /\ loop.pc = "group" /\ loop'.pc = "done" /\ loop'.stop = loop.stop
    BY <1>6, LoopTypes DEF GroupDone, LoopPCs
  <2>2. Known'
    BY <1>1, <2>1 DEF IInv, Known
  <2> QED
    BY <1>1, <1>2, <1>6, <2>1, <2>2, LoopTypes, LoopStep
       DEF GroupDone, IInv, Apps, Channels, Heading, OneIf
<1> QED
  BY <1>3, <1>4, <1>5, <1>6

(***************************************************************************)
(* The end of an app: it ends by itself, or the loop asks it to, waits and *)
(* kills it.                                                               *)
(***************************************************************************)
LEMMA AskToStopKeeps ==
  ASSUME IInv, AskToStop
  PROVE  IInv'
<1>1. /\ loop.pc = "stop" /\ bins' \subseteq bins
      /\ UNCHANGED <<disk, fsEvents, watcher, builds, hot, reloader, tab, server, ctl>>
  BY DEF AskToStop
<1>2. loop.stop \in Builds \cup {NoBuild}
  BY LoopTypes
<1>3. ASSUME NEW w \in {"group", "build", "wait"}, loop' = [loop EXCEPT !.pc = w],
             proc' \in [Builds -> Procs], w = "build" => loop.file # NoFile, Known'
      PROVE  IInv'
  <2>1. /\ loop' \in [pc : LoopPCs, file : Files, stop : Builds \cup {NoBuild}]
        /\ loop'.pc = w /\ loop'.file = loop.file
    BY <1>3, LoopTypes DEF LoopPCs
  <2>2. OneIf(Heading)' <= OneIf(Heading)
    BY <1>1, <1>3, <2>1 DEF Heading, OneIf
  <2> QED
    BY <1>1, <1>3, <2>1, <2>2, LoopTypes, LoopStep DEF IInv, Apps, Channels, Goroutines, OneIf
<1>4. AfterStop \in {"group", "build"} /\ (AfterStop = "build" => loop.file # NoFile)
  BY DEF AfterStop
<1>5. \A w \in {"group", "build", "wait"} :
        loop' = [loop EXCEPT !.pc = w] => loop'.pc = w /\ loop'.stop = loop.stop
  BY LoopTypes
<1>6. CASE loop.stop = NoBuild
  <2>1. loop' = [loop EXCEPT !.pc = AfterStop] /\ UNCHANGED proc
    BY <1>6 DEF AskToStop
  <2>2. \A b \in Builds : b # NoBuild
    BY RunAssumption DEF Builds, NoBuild
  <2>3. Known'
    BY <1>1, <1>4, <1>5, <1>6, <2>1, <2>2 DEF IInv, Known
  <2> QED
    BY <1>3, <1>4, <2>1, <2>3, LoopTypes
<1>7. CASE loop.stop # NoBuild
  <2>1. loop.stop \in Builds
    BY <1>2, <1>7
  <2> DEFINE old == proc[loop.stop].st
  <2>2. old \in States /\ old # "asked"
    BY <1>1, <2>1, LoopTypes DEF Procs, IInv, Known
  <2>3. CASE /\ proc' = [proc EXCEPT ![loop.stop].st = IF @ = "running" THEN "asked" ELSE @]
             /\ loop' = [loop EXCEPT !.pc = "wait"]
    <3> DEFINE st == IF old = "running" THEN "asked" ELSE old
    <3>1. proc' = [proc EXCEPT ![loop.stop].st = st] /\ st \in States
      BY <2>2, <2>3 DEF States
    <3>2. st # "running"
      BY <2>2
    <3> HIDE DEF st
    <3>3. /\ proc' \in [Builds -> Procs]
          /\ \A a \in Builds : proc'[a].st = IF a = loop.stop THEN st ELSE proc[a].st
      BY <2>1, <3>1, SetState
    <3>4. loop'.pc = "wait" /\ loop'.stop = loop.stop
      BY <1>5, <2>3
    <3>5. Known'
      BY <1>1, <2>1, <3>2, <3>3, <3>4 DEF IInv, Known
    <3> QED
      BY <1>3, <2>3, <3>3, <3>5
  <2>4. CASE /\ proc' = [proc EXCEPT ![loop.stop].st = "stray"]
             /\ loop' = [loop EXCEPT !.pc = AfterStop]
    <3>3. /\ proc' \in [Builds -> Procs]
          /\ \A a \in Builds : proc'[a].st = IF a = loop.stop THEN "stray" ELSE proc[a].st
      BY <2>1, <2>4, SetState DEF States
    <3>4. loop'.pc = AfterStop /\ loop'.stop = loop.stop
      BY <1>4, <1>5, <2>4
    <3>5. Known'
      BY <1>1, <1>4, <2>1, <3>3, <3>4 DEF IInv, Known
    <3> QED
      BY <1>3, <1>4, <2>4, <3>3, <3>5
  <2> QED
    BY <1>7, <2>3, <2>4 DEF AskToStop
<1> QED
  BY <1>6, <1>7

LEMMA StoppedKeeps ==
  ASSUME IInv, Stopped
  PROVE  IInv'
<1>1. /\ loop.pc = "wait" /\ bins' \subseteq bins /\ loop' = [loop EXCEPT !.pc = AfterStop]
      /\ UNCHANGED <<disk, fsEvents, watcher, builds, hot, reloader, tab, server, ctl>>
  BY DEF Stopped
<1>2. loop.stop \in Builds /\ proc[loop.stop].st # "running"
  BY <1>1 DEF IInv, Known
<1>3. PICK st \in States : /\ st \notin {"running", "asked"}
                          /\ \/ proc' = [proc EXCEPT ![loop.stop].st = st]
                             \/ proc' = proc /\ st = proc[loop.stop].st
  BY DEF Stopped, States
<1>5. /\ proc' \in [Builds -> Procs]
      /\ \A a \in Builds : proc'[a].st = IF a = loop.stop THEN st ELSE proc[a].st
  BY <1>2, <1>3, LoopTypes, SetState
<1>6. /\ AfterStop \in {"group", "build"} /\ (AfterStop = "build" => loop.file # NoFile)
  BY DEF AfterStop
<1>7. /\ loop' \in [pc : LoopPCs, file : Files, stop : Builds \cup {NoBuild}]
      /\ loop'.pc = AfterStop /\ loop'.stop = loop.stop /\ loop'.file = loop.file
  BY <1>1, <1>6, LoopTypes DEF LoopPCs
<1>8. Known'
  BY <1>1, <1>2, <1>3, <1>5, <1>6, <1>7 DEF IInv, Known
<1>9. OneIf(Heading)' <= OneIf(Heading)
  BY <1>1, <1>6, <1>7 DEF Heading, OneIf
<1> QED
  BY <1>1, <1>5, <1>7, <1>8, <1>9, LoopTypes, LoopStep DEF IInv, Apps, Channels, Goroutines, OneIf

LEMMA ExitKeeps ==
  ASSUME IInv, NEW b \in Builds, Exit(b)
  PROVE  IInv'
<1>1. UNCHANGED <<disk, fsEvents, watcher, loop, builds, bins, hot, reloader, tab, server, ctl>>
  BY DEF Exit
<1>2. /\ proc' \in [Builds -> Procs]
      /\ \A a \in Builds : proc'[a].st = IF a = b THEN "none" ELSE proc[a].st
  BY SetState DEF Exit, States
<1>3. Known'
  BY <1>1, <1>2 DEF IInv, Known
<1> QED
  BY <1>1, <1>2, <1>3 DEF IInv, Channels, Goroutines, Apps, Browsers, Counted, Heading, Sent

(***************************************************************************)
(* The tabs, the server and the shutdown.                                  *)
(***************************************************************************)
LEMMA TabsKeep ==
  ASSUME IInv, UNCHANGED <<disk, fsEvents, watcher, loop, builds, proc, bins, server, ctl>>,
         hot' \in Seq(Files), Len(hot') <= 1, reloader' \in Seq(Files), Len(reloader') <= 1,
         tab' \in [Tabs -> Pages]
  PROVE  IInv'
  BY DEF IInv, Channels, Goroutines, Apps, Browsers, Counted, Heading, Sent, Known

LEMMA Served ==
  ASSUME IInv, NEW b \in Serving, NEW v \in Versions
  PROVE  Page(b, v) \in Pages
<1>1. b \in Builds
  BY DEF Serving, Strays
<1>2. (b \in Strays) \in BOOLEAN
  OBVIOUS
<1> QED
  BY <1>1, <1>2, LoopTypes DEF Page, Pages, Procs

LEMMA BrowserKeeps ==
  ASSUME IInv, NEW t \in Tabs, Load(t) \/ Connect(t) \/ Close(t)
  PROVE  IInv'
<1>1. UNCHANGED <<disk, fsEvents, watcher, loop, builds, proc, bins, hot, reloader, server, ctl>>
  BY DEF Load, Connect, Close
<1>2. tab \in [Tabs -> Pages] /\ proc \in [Builds -> Procs] /\ 0 \in Versions
  BY RunAssumption DEF IInv, Browsers, Apps, Versions
<1>3. CASE Load(t)
  <2>1. PICK b \in Serving : tab' = [tab EXCEPT ![t] = Page(b, 0)]
    BY <1>3 DEF Load
  <2>2. Page(b, 0) \in Pages
    BY <1>2, Served
  <2> QED
    BY <1>1, <1>2, <2>1, <2>2, TabsKeep DEF IInv, Channels
<1>4. CASE Connect(t)
  <2>1. tab' = [tab EXCEPT ![t] = [tab[t] EXCEPT !.st = "connected"]]
    BY <1>4 DEF Connect
  <2>2. [tab[t] EXCEPT !.st = "connected"] \in Pages
    BY <1>2 DEF Pages
  <2> QED
    BY <1>1, <1>2, <2>1, <2>2, TabsKeep DEF IInv, Channels
<1>5. CASE Close(t)
  <2>1. NoPage \in Pages
    BY <1>2 DEF NoPage, Pages
  <2> QED
    BY <1>1, <1>2, <1>5, <2>1, TabsKeep DEF Close, IInv, Channels
<1> QED
  BY <1>3, <1>4, <1>5

LEMMA ReloadKeeps ==
  ASSUME IInv, Receive \/ Notify
  PROVE  IInv'
<1>1. UNCHANGED <<disk, fsEvents, watcher, loop, builds, proc, bins, server, ctl>>
  BY DEF Receive, Notify
<1>2. CASE Receive
  BY <1>1, <1>2, TabsKeep DEF Receive, IInv, Channels, Browsers
<1>3. CASE Notify
  <2>1. Head(reloader) \in Files /\ Head(reloader).ver \in Versions
    <3>1. reloader \in Seq(Files) /\ reloader # <<>>
      BY <1>3 DEF Notify, IInv, Channels
    <3>2. Head(reloader) \in Files
      BY <3>1
    <3> QED
      BY <3>2 DEF Files
  <2>2. \A page \in Pages, b \in Serving \cup {NoBuild} : Reloaded(page, Head(reloader), b) \in Pages
    <3>1. NoPage \in Pages
      BY RunAssumption DEF NoPage, Pages, Versions
    <3>2. \A page \in Pages : page.told \in Versions
      BY DEF Pages
    <3> QED
      BY <2>1, <3>1, <3>2, Served DEF Reloaded
  <2>3. tab' \in [Tabs -> Pages]
    BY <1>3, <2>2 DEF Notify, IInv, Browsers
  <2> QED
    BY <1>1, <1>3, <2>3, TabsKeep DEF Notify, IInv, Channels
<1> QED
  BY <1>2, <1>3

LEMMA ControlKeeps ==
  ASSUME IInv, Listen \/ Control
  PROVE  IInv'
<1>1. UNCHANGED <<disk, fsEvents, watcher, loop, builds, proc, bins, hot, reloader, tab>>
  BY DEF Listen, Control, Signal, ShutdownServer, Finish
<1>2. /\ server' \in {"starting", "up", "down"}
      /\ ctl' \in {"running", "shutdown", "group", "done", "crashed"}
  BY DEF Listen, Control, Signal, ShutdownServer, Finish, IInv, Goroutines
<1> QED
  BY <1>1, <1>2 DEF IInv, Channels, Goroutines, Apps, Browsers, Counted, Heading, Sent, Known

LEMMA NextKeeps == IInv /\ [Next]_vars => IInv'
<1> SUFFICES ASSUME IInv, [Next]_vars PROVE IInv'
  OBVIOUS
<1>1. CASE Loop
  BY <1>1, BuildKeeps, BuildEndsKeeps, StartKeeps, FileChangedKeeps, LeaveKeeps, AskToStopKeeps,
     StoppedKeeps DEF Loop
<1>2. CASE Env
  BY <1>2, ChangeKeeps, ExitKeeps, BrowserKeeps DEF Env
<1>3. CASE UNCHANGED vars
  BY <1>3 DEF vars, IInv, Channels, Goroutines, Apps, Browsers, Counted, Heading, Sent, Known
<1> QED
  BY <1>1, <1>2, <1>3, WatcherKeeps, ReloadKeeps, ControlKeeps DEF Next

(* The command keeps its types: its channels hold at most one file, and    *)
(* there is no more than one build for every change and the first one.     *)
THEOREM TypeCorrect == Spec => []TypeOK
  BY InitInv, NextKeeps, InvTypes, PTL DEF Spec

LEMMA InvOneApp == IInv => OneApp
<1> SUFFICES ASSUME IInv PROVE OneApp
  OBVIOUS
<1> DEFINE S == Serving \ Strays
<1>1. S \subseteq {loop.stop}
  BY DEF IInv, Known, Serving, Strays
<1>2. IsFiniteSet({loop.stop}) /\ Cardinality({loop.stop}) = 1
  BY FS_Singleton
<1>3. Cardinality(S) <= 1
  BY <1>1, <1>2, FS_Subset
<1> QED
  BY <1>3 DEF OneApp

(* Never do two apps run beside each other, whatever else fails and        *)
(* whenever an app ends (detect-build-run-app.business.go:73), but for     *)
(* those that run on as SIGTERM or Kill has failed, the strays             *)
(* (build-run-app.business.go:141, 150).                                   *)
THEOREM OneAppCorrect == Spec => []OneApp
  BY InitInv, NextKeeps, InvOneApp, PTL DEF Spec
(***************************************************************************)
(* Tabs. The app that runs, or that is being built, has every change that  *)
(* a tab was told of or that a message to the tabs is about; strays apart. *)
(***************************************************************************)
Lives(st) == st \in {"running", "asked"}

Current(v) ==
  /\ v <= disk
  /\ \A b \in Builds : Lives(proc[b].st) => v <= proc[b].ver
  /\ loop.pc \in {"tidy", "start"} => v <= proc[builds].ver

\* What is in a channel; a message about a page or a style tells a tab of no change.
News(channel) ==
  channel # <<>> /\ ~IsFrontendSource(Head(channel)) => Current(Head(channel).ver)

Past ==
  /\ fsEvents # <<>> => Head(fsEvents).ver <= disk
  /\ watcher.file.ver <= disk /\ loop.file.ver <= disk

ToldShown(page) == page.stray \/ page.told <= page.shows

Told ==
  /\ Past /\ News(hot) /\ News(reloader)
  /\ loop.pc \in {"tidy", "start", "browser", "reload"} /\ ~IsFrontendSource(loop.file) =>
       Current(loop.file.ver)
  /\ \A t \in Tabs : Current(tab[t].told) /\ ToldShown(tab[t])

(***************************************************************************)
(* Binaries. One that is left belongs to the build that is under way, to   *)
(* the app that the loop knows, or to one whose tidying or start failed.   *)
(***************************************************************************)
Orphan(b) == proc[b].st = "failed"

Left ==
  /\ \A b \in bins : \/ b = builds /\ loop.pc \in {"tidy", "start"}
                     \/ b = loop.stop /\ loop.pc \in {"browser", "select", "stop", "wait", "reload"}
                     \/ Orphan(b)
  /\ ctl = "done" => loop.pc = "done"

LEMMA Numbers ==
  ASSUME IInv
  PROVE  /\ disk \in Nat /\ builds \in 0 .. MaxChanges + 1 /\ Versions \subseteq Nat /\ 0 \in Versions
         /\ \A b \in Builds : proc[b].ver \in Versions
         /\ \A t \in Tabs : tab[t] \in Pages
         /\ loop.file \in Files /\ watcher.file \in Files
         /\ \A f \in Files : f.ver \in Versions
         /\ fsEvents # <<>> => Head(fsEvents) \in Files
         /\ hot # <<>> => Head(hot) \in Files
         /\ reloader # <<>> => Head(reloader) \in Files
<1>1. /\ disk \in Nat /\ builds \in 0 .. MaxChanges + 1 /\ Versions \subseteq Nat /\ 0 \in Versions
  BY RunAssumption DEF IInv, Apps, Versions
<1>2. /\ \A b \in Builds : proc[b].ver \in Versions
      /\ \A t \in Tabs : tab[t] \in Pages
      /\ loop.file \in Files /\ watcher.file \in Files
      /\ \A f \in Files : f.ver \in Versions
  BY DEF IInv, Apps, Goroutines, Browsers, Procs, Files
<1>3. \A s \in Seq(Files) : s # <<>> => Head(s) \in Files
  OBVIOUS
<1> QED
  BY <1>1, <1>2, <1>3 DEF IInv, Channels

(* What a step may do to the apps: one that begins to run was built, and   *)
(* one that is built reads the files as they are.                          *)
Grows ==
  /\ disk <= disk'
  /\ \A b \in Builds : Lives(proc'[b].st) =>
       /\ Lives(proc[b].st) \/ (b = builds /\ loop.pc = "start")
       /\ proc'[b].ver = proc[b].ver
  /\ loop'.pc \in {"tidy", "start"} =>
       \/ loop.pc \in {"tidy", "start"} /\ proc'[builds'].ver = proc[builds].ver
       \/ proc'[builds'].ver = disk

LEMMA LoopGrows ==
  ASSUME IInv, IInv', Loop
  PROVE  Grows
<1>1. disk' = disk /\ disk \in Nat
  BY Numbers DEF Loop, Build, BuildEnds, Start, OpenBrowser, FileChanged, ContextDone, AskToStop,
     Stopped, SendReload, GroupDone
<1>2. proc \in [Builds -> Procs] /\ loop \in [pc : LoopPCs, file : Files, stop : Builds \cup {NoBuild}]
  BY LoopTypes
<1>3. CASE Build
  <2>1. builds + 1 \in Builds /\ builds' = builds + 1
    BY <1>3, RunAssumption, Numbers DEF Build, IInv, Apps, Builds
  <2>2. proc' = [proc EXCEPT ![builds + 1] = [proc[builds + 1] EXCEPT !.ver = disk]]
    BY <1>3 DEF Build
  <2>3. /\ proc'[builds'].ver = disk /\ proc'[builds'].st = proc[builds'].st
        /\ \A b \in Builds \ {builds'} : proc'[b] = proc[b]
    BY <1>2, <2>1, <2>2 DEF Procs
  <2>4. \A b \in Builds : ~Lives(proc[b].st)
    BY <1>3 DEF Build, IInv, Known, Lives
  <2> QED
    BY <1>1, <2>1, <2>3, <2>4 DEF Grows
<1>4. CASE BuildEnds
  <2>1. loop.pc = "tidy" /\ builds' = builds /\ builds \in Builds
    BY <1>4, RunAssumption, Numbers DEF BuildEnds, IInv, Known, Builds
  <2>2. proc' = proc \/ proc' = [proc EXCEPT ![builds] = [proc[builds] EXCEPT !.st = "failed"]]
    BY <1>4 DEF BuildEnds
  <2>3. \A b \in Builds : proc'[b].ver = proc[b].ver /\ (Lives(proc'[b].st) => Lives(proc[b].st))
    BY <1>2, <2>1, <2>2 DEF Procs, Lives
  <2> QED
    BY <1>1, <2>1, <2>3 DEF Grows
<1>5. CASE Start
  <2>1. loop'.pc \notin {"tidy", "start"}
    BY <1>2, <1>5 DEF Start, AfterBuild
  <2>2. builds \in Builds
    BY <1>5, RunAssumption, Numbers DEF Start, IInv, Known, Builds
  <2>3. \E st \in {"running", "failed"} : proc' = [proc EXCEPT ![builds] = [proc[builds] EXCEPT !.st = st]]
    BY <1>5 DEF Start
  <2>4. \A b \in Builds : proc'[b].ver = proc[b].ver /\ (b # builds => proc'[b] = proc[b])
    BY <1>2, <2>2, <2>3 DEF Procs
  <2> QED
    BY <1>1, <1>5, <2>1, <2>4 DEF Start, Grows
<1>6. CASE OpenBrowser \/ FileChanged \/ ContextDone \/ SendReload \/ GroupDone
  <2>1. UNCHANGED proc
    BY <1>6 DEF OpenBrowser, FileChanged, ContextDone, SendReload, GroupDone
  <2>2. loop'.pc \notin {"tidy", "start"}
    BY <1>2, <1>6 DEF OpenBrowser, FileChanged, Take, ContextDone, Leave, SendReload, GroupDone
  <2> QED
    BY <1>1, <2>1, <2>2 DEF Grows
<1>7. CASE AskToStop \/ Stopped
  <2>1. loop'.pc \notin {"tidy", "start"}
    BY <1>2, <1>7 DEF AskToStop, Stopped, AfterStop
  <2>2. loop.stop \in Builds \/ proc' = proc
    BY <1>2, <1>7 DEF AskToStop, Stopped, IInv, Known
  <2>3. \/ proc' = proc
        \/ \E st \in States :
             /\ loop.stop \in Builds
             /\ proc' = [proc EXCEPT ![loop.stop] = [proc[loop.stop] EXCEPT !.st = st]]
             /\ Lives(st) => Lives(proc[loop.stop].st)
    <3>1. loop.stop \in Builds => proc[loop.stop].st \in States
      BY <1>2 DEF Procs
    <3>2. CASE AskToStop
      BY <2>2, <3>1, <3>2 DEF AskToStop, Lives, States
    <3>3. CASE Stopped
      BY <2>2, <3>1, <3>3 DEF Stopped, Lives, States
    <3> QED
      BY <1>7, <3>2, <3>3
  <2>4. \A b \in Builds : proc'[b].ver = proc[b].ver /\ (Lives(proc'[b].st) => Lives(proc[b].st))
    BY <1>2, <2>3 DEF Procs
  <2> QED
    BY <1>1, <2>1, <2>4 DEF Grows
<1> QED
  BY <1>3, <1>4, <1>5, <1>6, <1>7 DEF Loop

LEMMA OtherGrows ==
  ASSUME IInv, Watcher \/ Receive \/ Notify \/ Listen \/ Control \/ Env
  PROVE  Grows
<1>1. disk \in Nat
  BY Numbers
<1>2. CASE \E b \in Builds : Exit(b)
  <2>1. \A b \in Builds : Lives(proc'[b].st) => proc'[b] = proc[b]
    BY <1>2 DEF Exit, Lives, IInv, Apps, Procs
  <2>2. \A b \in Builds : proc'[b].ver = proc[b].ver
    BY <1>2 DEF Exit, IInv, Apps, Procs
  <2>3. loop.pc \in {"tidy", "start"} => builds \in Builds
    BY Numbers, RunAssumption DEF IInv, Known, Builds
  <2>4. UNCHANGED <<disk, loop, builds>>
    BY <1>2 DEF Exit
  <2> QED
    BY <1>1, <2>1, <2>2, <2>3, <2>4 DEF Grows
<1>3. CASE UNCHANGED <<loop, builds, proc>> /\ disk <= disk'
  BY <1>3 DEF Grows
<1>4. CASE Watcher \/ Receive \/ Notify \/ Listen \/ Control
  <2>1. UNCHANGED <<disk, loop, builds, proc>>
    BY <1>4 DEF Watcher, Watch, Event, Quiet, StopWatching, Receive, Notify, Listen, Control, Signal,
       ShutdownServer, Finish
  <2> QED
    BY <1>1, <1>3, <2>1
<1>5. CASE Env
  <2>1. (UNCHANGED <<loop, builds, proc>> /\ disk' \in {disk, disk + 1}) \/ \E b \in Builds : Exit(b)
    BY <1>5 DEF Env, Change, Load, Connect, Close
  <2> QED
    BY <1>1, <1>2, <1>3, <2>1
<1> QED
  BY <1>4, <1>5

\* The same after a step.
CurrentNext(v) ==
  /\ v <= disk'
  /\ \A b \in Builds : Lives(proc'[b].st) => v <= proc'[b].ver
  /\ loop'.pc \in {"tidy", "start"} => v <= proc'[builds'].ver

LEMMA CurrentKeeps ==
  ASSUME IInv, IInv', Grows, NEW v \in Versions, Current(v)
  PROVE  CurrentNext(v)
<1>1. v \in Nat /\ disk \in Nat /\ disk' \in Nat /\ v <= disk /\ disk <= disk'
  BY Numbers DEF Current, Grows, IInv, Apps, Versions
<1>2. v <= disk'
  BY <1>1
<1>3. \A b \in Builds : Lives(proc'[b].st) => v <= proc'[b].ver
  BY DEF Current, Grows
<1>4. loop'.pc \in {"tidy", "start"} => v <= proc'[builds'].ver
  BY DEF Current, Grows
<1> QED
  BY <1>2, <1>3, <1>4 DEF CurrentNext

LEMMA InitTold == Init => Told
<1> SUFFICES ASSUME Init PROVE Told
  OBVIOUS
<1>1. Current(0)
  BY DEF Init, Current, Lives
<1> QED
  BY <1>1 DEF Init, Told, Past, News, NoFile, NoPage, ToldShown

LEMMA PastKeeps ==
  ASSUME IInv, IInv', Past, Next, Grows
  PROVE  Past'
<1>1. /\ watcher \in [pc : {"watch", "select", "send", "done"}, file : Files, debounce : BOOLEAN]
      /\ loop \in [pc : LoopPCs, file : Files, stop : Builds \cup {NoBuild}]
  BY DEF IInv, Goroutines
<1>2. disk \in Nat /\ disk' \in Nat /\ disk <= disk'
  BY RunAssumption DEF Grows, IInv, Apps, Versions
<1>3. watcher'.file \in {watcher.file, NoFile} \/ (fsEvents # <<>> /\ watcher'.file = Head(fsEvents))
  <2>1. CASE Watcher
    BY <1>1, <2>1 DEF Watcher, Watch, Event, Quiet, StopWatching
  <2>2. CASE FileChanged
    BY <1>1, <2>2 DEF FileChanged
  <2>3. watcher' = watcher \/ Watcher \/ FileChanged
    BY DEF Next, Loop, Build, BuildEnds, Start, OpenBrowser, ContextDone, AskToStop, Stopped, SendReload,
       GroupDone, Receive, Notify, Listen, Control, Signal, ShutdownServer, Finish, Env, Change, Exit,
       Load, Connect, Close
  <2> QED
    BY <2>1, <2>2, <2>3
<1>4. loop'.file \in {loop.file, NoFile, watcher.file}
  <2>1. CASE Loop
    BY <1>1, <2>1 DEF Loop, Build, BuildEnds, AfterBuild, Start, OpenBrowser, FileChanged, ContextDone,
       Leave, AskToStop, AfterStop, Stopped, SendReload, GroupDone
  <2>2. loop' = loop \/ Loop
    BY DEF Next, Watcher, Watch, Event, Quiet, StopWatching, Receive, Notify, Listen, Control, Signal,
       ShutdownServer, Finish, Env, Change, Exit, Load, Connect, Close
  <2> QED
    BY <2>1, <2>2
<1>5. fsEvents' # <<>> => Head(fsEvents').ver <= disk'
  <2>1. CASE \E kind \in Kinds : Change(kind)
    <3>1. PICK kind \in Kinds : Change(kind)
      BY <2>1
    <3> DEFINE e == [kind |-> kind, ver |-> disk + 1]
    <3>2. e.ver <= disk' /\ e \in Files /\ (fsEvents' = fsEvents \/ (fsEvents = <<>> /\ fsEvents' = Append(fsEvents, e)))
      BY <1>2, <3>1, Numbers DEF Change, Fits, Files, IInv, Apps
    <3> HIDE DEF e
    <3>3. fsEvents = <<>> /\ fsEvents' = Append(fsEvents, e) => Head(fsEvents') = e
      OBVIOUS
    <3>4. fsEvents # <<>> => Head(fsEvents).ver <= disk /\ Head(fsEvents).ver \in Nat
      BY Numbers DEF Past
    <3> QED
      BY <1>2, <3>2, <3>3, <3>4
  <2>2. CASE Event
    <3>1. fsEvents \in Seq(Files) /\ Len(fsEvents) <= 1 /\ fsEvents # <<>> /\ fsEvents' = Tail(fsEvents)
      BY <2>2 DEF Event, IInv, Channels
    <3>2. fsEvents' = <<>>
      BY <3>1
    <3> QED
      BY <3>2
  <2>3. CASE StopWatching
    BY <2>3 DEF StopWatching
  <2>4. CASE fsEvents' = fsEvents
    <3>1. fsEvents # <<>> => Head(fsEvents).ver <= disk /\ Head(fsEvents).ver \in Nat
      BY Numbers DEF Past
    <3> QED
      BY <1>2, <2>4, <3>1
  <2>5. fsEvents' = fsEvents \/ (\E kind \in Kinds : Change(kind)) \/ Event \/ StopWatching
    BY DEF Next, Watcher, Watch, Quiet, Loop, Build, BuildEnds, Start, OpenBrowser, FileChanged,
       ContextDone, AskToStop, Stopped, SendReload, GroupDone, Receive, Notify, Listen, Control, Signal,
       ShutdownServer, Finish, Env, Exit, Load, Connect, Close
  <2> QED
    BY <2>1, <2>2, <2>3, <2>4, <2>5
<1>6. watcher'.file.ver <= disk'
  <2>1. watcher'.file.ver <= disk /\ watcher'.file.ver \in Nat
    BY <1>3, Numbers DEF Past, NoFile
  <2> QED
    BY <1>2, <2>1
<1>7. loop'.file.ver <= disk'
  <2>1. loop'.file.ver <= disk /\ loop'.file.ver \in Nat
    BY <1>2, <1>4, Numbers DEF Past, NoFile
  <2> QED
    BY <1>2, <2>1
<1> QED
  BY <1>5, <1>6, <1>7 DEF Past

(* What the loop is busy with.                                             *)
LEMMA FileKeeps ==
  ASSUME IInv, IInv', Told, Next, Grows,
         loop'.pc \in {"tidy", "start", "browser", "reload"}, ~IsFrontendSource(loop'.file)
  PROVE  CurrentNext(loop'.file.ver)
<1>1. loop \in [pc : LoopPCs, file : Files, stop : Builds \cup {NoBuild}] /\ loop.file.ver \in Versions
  BY Numbers, LoopTypes
<1>2. CASE loop'.file = loop.file /\ loop.pc \in {"tidy", "start", "browser", "reload"}
  BY <1>1, <1>2, CurrentKeeps DEF Told
<1>3. CASE Build
  <2>1. loop'.file = loop.file /\ loop'.pc = "tidy" /\ disk' = disk
    BY <1>1, <1>3 DEF Build
  <2>2. \A b \in Builds : ~Lives(proc[b].st)
    BY <1>3 DEF Build, IInv, Known, Lives
  <2>3. \A b \in Builds : ~Lives(proc'[b].st)
    BY <1>3, <2>2 DEF Build, Grows
  <2>4. proc'[builds'].ver = disk
    BY <1>3, <2>1 DEF Build, Grows
  <2> QED
    BY <2>1, <2>3, <2>4 DEF CurrentNext, Told, Past
<1>4. CASE FileChanged
  BY <1>1, <1>4 DEF FileChanged, Take
<1>5. \/ loop'.file = loop.file /\ loop.pc \in {"tidy", "start", "browser", "reload"}
      \/ Build \/ FileChanged
  <2>1. CASE Loop
    BY <1>1, <2>1 DEF Loop, BuildEnds, AfterBuild, Start, OpenBrowser, ContextDone, Leave, AskToStop,
       AfterStop, Stopped, SendReload, GroupDone
  <2>2. loop' = loop \/ Loop
    BY DEF Next, Watcher, Watch, Event, Quiet, StopWatching, Receive, Notify, Listen, Control, Signal,
       ShutdownServer, Finish, Env, Change, Exit, Load, Connect, Close
  <2> QED
    BY <2>1, <2>2
<1> QED
  BY <1>2, <1>3, <1>4, <1>5

LEMMA NewsKeeps ==
  ASSUME IInv, IInv', Told, Next, Grows
  PROVE  /\ hot' # <<>> /\ ~IsFrontendSource(Head(hot')) => CurrentNext(Head(hot').ver)
         /\ reloader' # <<>> /\ ~IsFrontendSource(Head(reloader')) => CurrentNext(Head(reloader').ver)
<1>1. hot' # <<>> /\ ~IsFrontendSource(Head(hot')) => CurrentNext(Head(hot').ver)
  <2>1. CASE hot' = hot
    BY <2>1, Numbers, CurrentKeeps DEF News, Told
  <2>2. CASE SendReload
    <3>1. hot' = Append(hot, loop.file) /\ hot = <<>> /\ loop.file \in Files
      BY <2>2, LoopTypes, Numbers DEF SendReload, IInv, Channels
    <3>2. Head(hot') = loop.file
      BY <3>1
    <3>3. ~IsFrontendSource(loop.file) => Current(loop.file.ver)
      BY <2>2 DEF SendReload, Told
    <3> QED
      BY <3>1, <3>2, <3>3, Numbers, CurrentKeeps
  <2>3. CASE hot' = <<>>
    BY <2>3
  <2>4. hot' = hot \/ hot' = <<>> \/ SendReload
    BY DEF Next, Watcher, Watch, Event, Quiet, StopWatching, Loop, Build, BuildEnds, Start, OpenBrowser,
       FileChanged, ContextDone, AskToStop, Stopped, GroupDone, Receive, Notify, Listen, Control, Signal,
       ShutdownServer, Finish, Env, Change, Exit, Load, Connect, Close
  <2> QED
    BY <2>1, <2>2, <2>3, <2>4
<1>2. reloader' # <<>> /\ ~IsFrontendSource(Head(reloader')) => CurrentNext(Head(reloader').ver)
  <2>1. CASE reloader' = reloader
    BY <2>1, Numbers, CurrentKeeps DEF News, Told
  <2>2. CASE reloader' = hot
    BY <2>2, Numbers, CurrentKeeps DEF News, Told
  <2>3. CASE reloader' = <<>>
    BY <2>3
  <2>4. reloader' \in {reloader, hot, <<>>}
    BY DEF Next, Watcher, Watch, Event, Quiet, StopWatching, Loop, Build, BuildEnds, Start, OpenBrowser,
       FileChanged, ContextDone, AskToStop, Stopped, SendReload, GroupDone, Receive, Notify, Listen,
       Control, Signal, ShutdownServer, Finish, Env, Change, Exit, Load, Connect, Close
  <2> QED
    BY <2>1, <2>2, <2>3, <2>4
<1> QED
  BY <1>1, <1>2

(* What tabs show and were told of.                                        *)
LEMMA PagesKeep ==
  ASSUME IInv, IInv', Told, Next, Grows, NEW t \in Tabs
  PROVE  CurrentNext(tab'[t].told) /\ ToldShown(tab'[t])
<1>1. /\ tab \in [Tabs -> Pages] /\ tab[t] \in Pages /\ tab[t].told \in Versions /\ tab[t].shows \in Versions
      /\ Current(tab[t].told) /\ ToldShown(tab[t])
  BY Numbers DEF Told, Pages, IInv, Browsers
<1>2. Current(0) /\ 0 \in Versions
  BY Numbers, <1>1 DEF Current, Versions, IInv, Known, Builds
<1>3. ASSUME tab'[t].told = tab[t].told, tab'[t].shows = tab[t].shows, tab'[t].stray = tab[t].stray
      PROVE  CurrentNext(tab'[t].told) /\ ToldShown(tab'[t])
  BY <1>1, <1>3, CurrentKeeps DEF ToldShown
<1>4. ASSUME tab'[t].told = 0, tab'[t].shows \in Versions
      PROVE  CurrentNext(tab'[t].told) /\ ToldShown(tab'[t])
  BY <1>2, <1>4, Numbers, CurrentKeeps DEF ToldShown
<1>5. ASSUME NEW u \in Tabs, Load(u) \/ Connect(u) \/ Close(u)
      PROVE  \/ tab'[t].told = tab[t].told /\ tab'[t].shows = tab[t].shows /\ tab'[t].stray = tab[t].stray
             \/ tab'[t].told = 0 /\ tab'[t].shows \in Versions
  <2>1. CASE Load(u)
    BY <1>1, <2>1, Numbers DEF Load, Serving, Strays, Page
  <2>2. CASE Connect(u)
    BY <1>1, <2>2 DEF Connect, Pages
  <2>3. CASE Close(u)
    BY <1>1, <1>2, <2>3 DEF Close, NoPage
  <2> QED
    BY <1>5, <2>1, <2>2, <2>3
<1>6. ASSUME Notify
      PROVE  CurrentNext(tab'[t].told) /\ ToldShown(tab'[t])
  <2> DEFINE f == Head(reloader)
  <2>1. f \in Files /\ f.ver \in Versions /\ (~IsFrontendSource(f) => Current(f.ver))
    BY <1>6, Numbers DEF Notify, Told, News
  <2>2. tab'[t] = tab[t] \/ \E b \in Serving \cup {NoBuild} : tab'[t] = Reloaded(tab[t], f, b)
    BY <1>6 DEF Notify
  <2> HIDE DEF f
  <2>3. CASE tab'[t] = tab[t]
    BY <1>3, <2>3
  <2>4. CASE tab'[t] = NoPage
    BY <1>2, <1>4, <2>4 DEF NoPage
  <2>5. ASSUME NEW b \in Serving,
               tab'[t] = Page(b, IF IsFrontendSource(f) THEN tab[t].told ELSE f.ver)
        PROVE  CurrentNext(tab'[t].told) /\ ToldShown(tab'[t])
    <3>1. /\ b \in Builds /\ tab'[t].shows = proc[b].ver /\ tab'[t].stray = (b \in Strays)
          /\ tab'[t].told = IF IsFrontendSource(f) THEN tab[t].told ELSE f.ver
      BY <2>5 DEF Page, Serving, Strays
    <3>2. Current(tab'[t].told) /\ tab'[t].told \in Versions
      BY <1>1, <2>1, <3>1
    <3>3. ToldShown(tab'[t])
      BY <2>5, <3>1, <3>2 DEF Current, ToldShown, Serving, Lives
    <3>4. CurrentNext(tab'[t].told)
      <4> DEFINE v == tab'[t].told
      <4>1. v \in Versions /\ Current(v)
        BY <3>2
      <4> HIDE DEF v
      <4>2. CurrentNext(v)
        BY <4>1, CurrentKeeps
      <4> QED
        BY <4>2 DEF v
    <3> QED
      BY <3>3, <3>4
  <2> QED
    BY <2>2, <2>3, <2>4, <2>5 DEF Reloaded
<1>7. tab' = tab \/ Notify \/ \E u \in Tabs : Load(u) \/ Connect(u) \/ Close(u)
  BY DEF Next, Watcher, Watch, Event, Quiet, StopWatching, Loop, Build, BuildEnds, Start, OpenBrowser,
     FileChanged, ContextDone, AskToStop, Stopped, SendReload, GroupDone, Receive, Listen, Control, Signal,
     ShutdownServer, Finish, Env, Change, Exit
<1> QED
  BY <1>3, <1>4, <1>5, <1>6, <1>7

LEMMA ToldKeeps == IInv /\ Told /\ [Next]_vars => Told'
<1> SUFFICES ASSUME IInv, Told, [Next]_vars PROVE Told'
  OBVIOUS
<1>1. CASE Next
  <2>1. IInv' /\ Grows
    BY <1>1, NextKeeps, LoopGrows, OtherGrows DEF Next
  <2>2. Past' /\ News(hot)' /\ News(reloader)'
    BY <1>1, <2>1, PastKeeps, NewsKeeps DEF Told, News, Current, CurrentNext, IsFrontendSource
  <2>3. loop'.pc \in {"tidy", "start", "browser", "reload"} /\ ~IsFrontendSource(loop'.file) =>
          CurrentNext(loop'.file.ver)
    BY <1>1, <2>1, FileKeeps
  <2>4. \A t \in Tabs : CurrentNext(tab'[t].told) /\ ToldShown(tab'[t])
    BY <1>1, <2>1, PagesKeep
  <2> QED
    BY <2>2, <2>3, <2>4 DEF Told, Current, CurrentNext, IsFrontendSource, ToldShown
<1>2. CASE UNCHANGED vars
  BY <1>2 DEF vars, Told, Past, News, Current, IsFrontendSource, ToldShown
<1> QED
  BY <1>1, <1>2

(* A tab that was told to reload shows an app that has the change it was   *)
(* told of, however the watcher, the loop, the reloader and the tabs       *)
(* interleave: the file goes to hotReload after the new app has replaced   *)
(* the old one (detect-build-run-app.business.go:80).  The exception is a  *)
(* page that was served by an app which could not be stopped.              *)
THEOREM TabsCorrect == Spec => []ToldTabsCurrent
<1>1. Init => IInv /\ Told
  BY InitInv, InitTold
<1>2. IInv /\ Told /\ [Next]_vars => (IInv /\ Told)'
  BY NextKeeps, ToldKeeps
<1>3. Told => ToldTabsCurrent
  BY DEF Told, ToldShown, ToldTabsCurrent
<1> QED
  BY <1>1, <1>2, <1>3, PTL DEF Spec
LEMMA InitLeft == Init => Left
  BY DEF Init, Left

(* A step that leaves the loop, the builds, the binaries and the builds    *)
(* that have failed.                                                       *)
LEMMA LeftStays ==
  ASSUME Left, UNCHANGED <<loop, builds, bins>>, ctl' = "done" => ctl = "done",
         \A b \in Builds : proc[b].st = "failed" => proc'[b].st = "failed", bins \subseteq Builds
  PROVE  Left'
  BY DEF Left, Orphan

\* What the loop may leave behind where it goes.
Owned(b) ==
  \/ b = builds /\ loop.pc \in {"tidy", "start"}
  \/ b = loop.stop /\ loop.pc \in {"browser", "select", "stop", "wait", "reload"}
  \/ Orphan(b)

LEMMA LoopLeft ==
  ASSUME IInv, Left, Loop
  PROVE  Left'
<1>1. /\ proc \in [Builds -> Procs] /\ loop \in [pc : LoopPCs, file : Files, stop : Builds \cup {NoBuild}]
      /\ bins \subseteq Builds /\ builds \in 0 .. MaxChanges + 1 /\ builds \in Nat
  BY LoopTypes DEF IInv, Apps
<1>2. ctl' = "done" => loop'.pc = "done"
  BY <1>1 DEF Left, Loop, Build, BuildEnds, Start, OpenBrowser, Crash, FileChanged, ContextDone, AskToStop,
     Stopped, SendReload, GroupDone
<1>3. \A b \in bins : Owned(b)
  BY DEF Left, Owned
<1>4. ASSUME \A b \in bins' : Owned(b)'
      PROVE  Left'
  BY <1>2, <1>4 DEF Left, Owned
<1>5. CASE Build
  <2>1. builds + 1 \in Builds /\ builds' = builds + 1 /\ bins' = bins \cup {builds + 1} /\ loop'.pc = "tidy"
    <3>1. builds <= MaxChanges
      BY <1>5, RunAssumption, LoopTypes DEF Build, IInv, Apps, Versions, Counted, Heading, OneIf
    <3> QED
      BY <1>1, <1>5, <3>1, RunAssumption DEF Build, Builds
  <2>2. proc' = [proc EXCEPT ![builds + 1] = [proc[builds + 1] EXCEPT !.ver = disk]]
    BY <1>5 DEF Build
  <2>3. \A b \in Builds : proc'[b].st = proc[b].st
    BY <1>1, <2>1, <2>2 DEF Procs
  <2>4. \A b \in bins : Orphan(b)
    BY <1>3, <1>5 DEF Build, Owned
  <2>5. \A b \in bins' : Owned(b)'
    BY <1>1, <2>1, <2>3, <2>4 DEF Owned, Orphan
  <2> QED
    BY <1>4, <2>5
<1>6. CASE BuildEnds
  <2>1. loop.pc = "tidy" /\ builds' = builds /\ bins' \subseteq bins /\ builds \in Builds
    BY <1>1, <1>6, RunAssumption DEF BuildEnds, IInv, Known, Builds
  <2>2. CASE loop' = [loop EXCEPT !.pc = "start"] /\ proc' = proc
    <3>1. loop'.pc = "start"
      BY <1>1, <2>2
    <3>2. \A b \in bins' : Owned(b)'
      BY <1>1, <1>3, <2>1, <2>2, <3>1 DEF Owned, Orphan
    <3> QED
      BY <1>4, <3>2
  <2>3. CASE bins' = bins \ {builds} /\ proc' = proc
    <3>1. \A b \in bins' : Orphan(b)'
      BY <1>3, <2>1, <2>3 DEF Owned, Orphan
    <3> QED
      BY <1>4, <3>1 DEF Owned, Orphan
  <2>4. CASE proc' = [proc EXCEPT ![builds].st = "failed"]
    <3>1. \A b \in Builds : proc'[b].st = IF b = builds THEN "failed" ELSE proc[b].st
      BY <2>1, <2>4, SetState DEF States
    <3>2. \A b \in bins' : Orphan(b)'
      BY <1>1, <1>3, <2>1, <3>1 DEF Owned, Orphan
    <3> QED
      BY <1>4, <3>2 DEF Owned, Orphan
  <2> QED
    BY <1>6, <2>2, <2>3, <2>4 DEF BuildEnds
<1>7. CASE Start
  <2>1. /\ loop.pc = "start" /\ UNCHANGED <<builds, bins>> /\ builds \in Builds
        /\ loop'.pc \in {"browser", "reload"}
    <3>1. loop.pc = "start" /\ UNCHANGED <<builds, bins>>
      BY <1>7 DEF Start
    <3>2. builds \in Builds
      BY <1>1, <3>1, RunAssumption DEF IInv, Known, Builds
    <3>3. loop'.pc \in {"browser", "reload"}
      BY <1>1, <1>7 DEF Start, AfterBuild
    <3> QED
      BY <3>1, <3>2, <3>3
  <2>2. PICK st \in {"running", "failed"} : /\ proc' = [proc EXCEPT ![builds].st = st]
                                            /\ st = "running" => loop'.stop = builds
    <3>1. CASE proc' = [proc EXCEPT ![builds].st = "running"] /\ loop' = [loop EXCEPT !.pc = AfterBuild, !.stop = builds]
      BY <1>1, <3>1
    <3>2. CASE proc' = [proc EXCEPT ![builds].st = "failed"]
      BY <3>2
    <3> QED
      BY <1>7, <3>1, <3>2 DEF Start
  <2>3. \A b \in Builds : proc'[b].st = IF b = builds THEN st ELSE proc[b].st
    BY <2>1, <2>2, SetState DEF States
  <2>4. \A b \in bins' : Owned(b)'
    BY <1>1, <1>3, <2>1, <2>2, <2>3 DEF Owned, Orphan
  <2> QED
    BY <1>4, <2>4
<1>8. CASE OpenBrowser \/ FileChanged \/ ContextDone \/ SendReload \/ GroupDone
  <2>1. UNCHANGED <<builds, proc, bins>>
    BY <1>8 DEF OpenBrowser, FileChanged, ContextDone, SendReload, GroupDone
  <2>2. /\ loop'.stop = loop.stop
        /\ \/ loop'.pc \in {"browser", "select", "stop", "reload"} /\ loop.pc \in {"browser", "select", "reload"}
           \/ loop.pc = "group" /\ loop'.pc = "done"
    BY <1>1, <1>8 DEF OpenBrowser, FileChanged, Take, ContextDone, Leave, SendReload, GroupDone
  <2>3. \A b \in bins' : Owned(b)'
    BY <1>3, <2>1, <2>2 DEF Owned, Orphan
  <2> QED
    BY <1>4, <2>3
<1>9. CASE AskToStop \/ Stopped
  <2>1. /\ builds' = builds /\ bins' \subseteq bins /\ loop.pc \in {"stop", "wait"}
        /\ loop'.stop = loop.stop /\ loop'.pc \in {"wait", "group", "build"}
    BY <1>1, <1>9 DEF AskToStop, Stopped, AfterStop
  <2>2. loop'.pc = "wait" \/ loop.stop \notin bins'
    BY <1>1, <1>9, RunAssumption DEF AskToStop, Stopped, AfterStop, Builds, NoBuild
  <2>3. \A b \in Builds : proc[b].st = "failed" => proc'[b].st = "failed"
    BY <1>1, <1>9 DEF AskToStop, Stopped, Procs
  <2>4. \A b \in bins' : Owned(b)'
    BY <1>1, <1>3, <2>1, <2>2, <2>3 DEF Owned, Orphan
  <2> QED
    BY <1>4, <2>4
<1> QED
  BY <1>5, <1>6, <1>7, <1>8, <1>9 DEF Loop

LEMMA LeftKeeps == IInv /\ Left /\ [Next]_vars => Left'
<1> SUFFICES ASSUME IInv, Left, [Next]_vars PROVE Left'
  OBVIOUS
<1>1. bins \subseteq Builds
  BY DEF IInv, Apps
<1>2. CASE Watcher \/ Receive \/ Notify \/ Listen \/ Signal \/ ShutdownServer
  <2>1. UNCHANGED <<loop, builds, bins, proc>> /\ (ctl' = "done" => ctl = "done")
    BY <1>2 DEF Watcher, Watch, Crash, Event, Quiet, StopWatching, Receive, Notify, Listen, Signal,
       ShutdownServer
  <2> QED
    BY <1>1, <2>1, LeftStays
<1>3. CASE Finish
  BY <1>1, <1>3 DEF Finish, Left, Orphan
<1>4. CASE Env
  <2>1. UNCHANGED <<loop, builds, bins, ctl>>
    BY <1>4 DEF Env, Change, Exit, Load, Connect, Close
  <2>2. \A b \in Builds : proc[b].st = "failed" => proc'[b].st = "failed"
    <3>1. CASE \E b \in Builds : Exit(b)
      BY <3>1, LoopTypes DEF Exit, Serving, Strays, Procs
    <3>2. proc' = proc \/ \E b \in Builds : Exit(b)
      BY <1>4 DEF Env, Change, Load, Connect, Close
    <3> QED
      BY <3>1, <3>2
  <2> QED
    BY <1>1, <2>1, <2>2, LeftStays
<1>5. CASE UNCHANGED vars
  BY <1>1, <1>5, LeftStays DEF vars
<1> QED
  BY <1>2, <1>3, <1>4, <1>5, LoopLeft DEF Next, Control

(* When the command returns no app is left running but those that could    *)
(* not be stopped, and no binary but those of builds whose go mod tidy or  *)
(* start has failed, however the shutdown meets a build, a change of a     *)
(* file or an app that ends by itself                                      *)
(* (detect-build-run-app.business.go:81).                                  *)
THEOREM ExitCorrect == Spec => []CleanExit
<1>1. Init => IInv /\ Left
  BY InitInv, InitLeft
<1>2. IInv /\ Left /\ [Next]_vars => (IInv /\ Left)'
  BY NextKeeps, LeftKeeps
<1>3. IInv /\ Left => CleanExit
  BY DEF IInv, Known, Left, Orphan, CleanExit, Serving
<1> QED
  BY <1>1, <1>2, <1>3, PTL DEF Spec
=============================================================================

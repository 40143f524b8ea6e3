------------------------------- MODULE WebPage -------------------------------
(***************************************************************************)
(* The page that loads the client: main.ts, its Application and its Logger *)
(* up to startApplication(), and from there the wasm client, whose output  *)
(* goes to the same log.  What the page awaits may fail at every step.     *)
(*                                                                         *)
(* A line of the log is its kind.  The page has its text area, as          *)
(* index.html does.  abort(), which nothing calls, is left out.            *)
(***************************************************************************)
EXTENDS Integers, WasmConnection, SequencesExt

CONSTANTS
  MaxLines,    \* Logger::_maxLines
  Percents,    \* bound of the model: how far a download may have come
  MaxStatuses  \* bound of the model: messages of the module while it loads

ASSUME PageBoundsAssumption == MaxLines \in Nat \ {0} /\ MaxStatuses \in Nat
ASSUME PercentsAssumption == Percents \subseteq Nat

VARIABLES
  stage,              \* what the page awaits, or "running" or "failed"
  lines,              \* Logger::_lines
  lastProgressLevel,  \* of _loadWasmApplication
  statuses            \* messages of the module so far

vars == <<wasmVars, stage, lines, lastProgressLevel, statuses>>

\* 0/0, a download of unknown size; it compares false with everything.
NaN == -1

Init ==
  /\ WasmInit
  /\ stage = "load"
  /\ lines = <<>>
  /\ lastProgressLevel = 0
  /\ statuses = 0

(***************************************************************************)
(* The logger                                                              *)
(***************************************************************************)
Infos(n) == [i \in 1..n |-> "info"]
Errors(n) == [i \in 1..n |-> "error"]

\* _pushText, line by line: the oldest lines are spliced away.
Pushed(log, new) ==
  LET all == log \o new
  IN  IF Len(all) > MaxLines THEN SubSeq(all, Len(all) - MaxLines + 1, Len(all)) ELSE all

Log(new) == lines' = Pushed(lines, new)

\* Mutant: whatever line is the last one is replaced.
OnProgressReplacesAny ==
  lines' = Pushed(IF lines # <<>> THEN Front(lines) ELSE lines, <<"progress">>)

\* onProgress replaces the progress line it finds at the end.
OnProgress ==
  lines' = Pushed(IF lines # <<>> /\ Last(lines) = "progress" THEN Front(lines) ELSE lines,
                  <<"progress">>)

(***************************************************************************)
(* Loading                                                                 *)
(***************************************************************************)
Await(from, to) == stage = from /\ stage' = to

\* An await throws: two lines tell it, and the page goes no further.
Fails(from, said) ==
  /\ Await(from, "failed")
  /\ Log(Infos(said) \o Errors(2))
  /\ UNCHANGED <<wasmVars, lastProgressLevel, statuses>>

PageLoads ==
  /\ Await("load", "config")
  /\ Log(Infos(1))
  /\ UNCHANGED <<wasmVars, lastProgressLevel, statuses>>

\* The config came, and the browser has both features.
ConfigFetched ==
  /\ Await("config", "script")
  /\ Log(Infos(6))
  /\ UNCHANGED <<wasmVars, lastProgressLevel, statuses>>

ConfigFails == Fails("config", 0)

\* The config came, but WebAssembly (said is 3) or WebSocket is missing.
FeatureMissing == \E said \in 3..4 : Fails("config", said)

ScriptFetched ==
  /\ Await("script", "module")
  /\ Log(Infos(2))
  /\ lastProgressLevel' = 0
  /\ UNCHANGED <<wasmVars, statuses>>

ScriptFails == Fails("script", 0)

\* While the module loads it prints, and sets its status.
ModuleSpeaks ==
  /\ stage = "module"
  /\ statuses < MaxStatuses
  /\ statuses' = statuses + 1
  /\ UNCHANGED <<wasmVars, stage>>

Prints ==
  /\ ModuleSpeaks
  /\ \E kind \in {"info", "error"} : Log(<<kind>>)
  /\ UNCHANGED lastProgressLevel

\* lastProgressLevel <= percent
IsOld(percent) ==
  lastProgressLevel # NaN /\ percent # NaN /\ lastProgressLevel <= percent

SetStatusDownloading(percent) ==
  /\ ModuleSpeaks
  /\ IF IsOld(percent)
       THEN UNCHANGED <<lines, lastProgressLevel>>
       ELSE OnProgress /\ lastProgressLevel' = percent

\* The module is initialised, and startApplication() connects and logs.
ModuleLoaded ==
  /\ Await("module", "running")
  /\ StartApplication
  /\ Log(Infos(8))
  /\ UNCHANGED <<lastProgressLevel, statuses>>

ModuleFails == Fails("module", 0)

(***************************************************************************)
(* Running.  A JavaScript exception out of an event reaches the window's   *)
(* error handler, which logs it.                                           *)
(***************************************************************************)
Running == stage = "running" /\ UNCHANGED <<stage, lastProgressLevel, statuses>>

Exception(states) == Errors(IF states[wsSocket] = "connecting" THEN 1 ELSE 0)

Opens(s) ==
  /\ Running /\ OnOpen(s)
  /\ Log(Infos(2) \o Exception(ready'))

ReceivesMessage(s) ==
  /\ Running /\ OnMessage(s)
  /\ Log(Infos(1))

Ends(s) ==
  /\ Running /\ Closed(s)
  /\ \E failed \in BOOLEAN : Log(Infos(IF failed THEN 4 ELSE 2))

SocketEvent(s) == Opens(s) \/ ReceivesMessage(s) \/ Ends(s)

Sends ==
  /\ Running /\ SendUtf8Text
  /\ Log(Exception(ready))

Silent ==
  /\ Running /\ UNCHANGED lines
  /\ Connect \/ Disconnect \/ \E s \in DOMAIN ready : PeerCloses(s)

Loading ==
  \/ PageLoads \/ ConfigFetched \/ FeatureMissing \/ ConfigFails
  \/ ScriptFetched \/ ScriptFails
  \/ ModuleLoaded \/ ModuleFails

Next ==
  \/ Loading
  \/ Prints
  \/ \E percent \in Percents \cup {NaN} : SetStatusDownloading(percent)
  \/ \E s \in DOMAIN ready : SocketEvent(s)
  \/ Sends \/ Silent

Spec == Init /\ [][Next]_vars

\* What the page awaits is settled, and so is every socket the browser
\* makes: it opens or it fails.
FairSpec ==
  /\ Spec
  /\ WF_vars(Loading)
  /\ \A s \in 1..MaxConnects :
       WF_vars(s \in DOMAIN ready /\ ready[s] # "open" /\ (Opens(s) \/ Ends(s)))

-----------------------------------------------------------------------------
(* Properties *)

\* A step takes no line from the log but the oldest ones of a full log and,
\* when it shows progress, a progress line at the end; showing progress cuts
\* one old line at most.
SaidStays ==
  LET progresses == Last(lines') = "progress"
  IN  \E cut \in 0..(IF progresses THEN 1 ELSE Len(lines)) :
        /\ cut > 0 => Len(lines') = MaxLines
        /\ \A i \in (cut + 1)..Len(lines) :
             \/ i = Len(lines) /\ lines[i] = "progress" /\ progresses
             \/ i - cut \in DOMAIN lines' /\ lines'[i - cut] = lines[i]

TidyLog ==
  /\ Len(lines) <= MaxLines
  /\ \A i \in 1..(Len(lines) - 1) : lines[i] # "progress" \/ lines[i + 1] # "progress"

\* "remove the last logged entry if it was a progress updated": however the
\* module's messages come, the log keeps its size, never shows two progress
\* lines one after the other, and never loses another line to an update.
LogIsTidy == []TidyLog /\ [][SaidStays]_lines

\* "will connect to the server with a websocket inside the WebAssembly
\* logic": loading the page ends with a ping on an open connection, with
\* the application told that its connection ended, or with a logged error.
PingsOrTells ==
  <>(\/ \E s \in DOMAIN sent : sent[s] > 0
     \/ isDone
     \/ stage = "failed" /\ Last(lines) = "error")
=============================================================================
